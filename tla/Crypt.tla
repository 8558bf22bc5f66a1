-------------------------------- MODULE Crypt --------------------------------
(***************************************************************************)
(* The nonce counter and the encryption of queues in otlib/auth.c, over    *)
(* the EAX drivers (crypto.c, otlib_eax.c), between devices that share     *)
(* keys.                                                                   *)
(*                                                                         *)
(* A frame is an IV of seven bytes, the ID of the device that writes it    *)
(* and a nonce, then data, then, once it is encrypted, a tag of four       *)
(* bytes.  Frames are written, encrypted, sent, repeated, damaged,         *)
(* received and decrypted in place; tables of keys are loaded and wiped at *)
(* any time.  The cipher (OTEAX) is external: what it makes of data can be *)
(* told apart from everything else, and undone only with key and IV.       *)
(*                                                                         *)
(* A byte is a tuple <<kind, ...>>.  Callers leave room for the tag,       *)
(* refuse frames shorter than IV and tag, reset the getcursor before they  *)
(* try another index, and zero a queue they have done with.                *)
(***************************************************************************)
EXTENDS Integers, Sequences

CONSTANTS
  Device,
  Builds,     (* The ways the devices are built: port and source of nonces.   *)
  Key,
  RawKey,     (* The keys applications have of their own.                     *)
  Wiped,      (* The key context memset leaves.                               *)
  Stored,     (* The keys of root and user in the filesystem of each device.  *)
  Rand,       (* What rand_prn32 may return.                                  *)
  Base,       (* Values of a byte.                                            *)
  Alloc,      (* Bytes of a queue.                                            *)
  Offsets,    (* Where frames start in a queue.                               *)
  Plains,     (* Data that is sent, as sequences of bytes.                    *)
  Damage,     (* Bytes of a frame that may change on the way.                 *)
  MaxSeals    (* Bound on frames that are encrypted.                          *)

NonceMod == Base * Base * Base * Base

(* A device takes its nonces by auth_putnonce and auth_putnonce_q or by    *)
(* auth_getnonce only: the one hands out what the other hands out next.    *)
Build == [port : {"posix", "c2000"}, takes : {"put", "get"}]

ASSUME CryptAssumption ==
  /\ Builds \subseteq [Device -> Build]
  /\ RawKey \subseteq Key /\ Wiped \notin Key
  /\ Stored \in [Device -> [0..1 -> Key]]
  /\ Base \in Nat /\ Base >= 2
  /\ Rand \subseteq 0..(NonceMod - 1)
  /\ Alloc \in Nat /\ Offsets \subseteq Nat
  /\ \A s \in Offsets \cup {0} : s + 7 <= Alloc      (* There is room for the IV. *)
  /\ \A s \in Plains : Len(s) \in Nat
  /\ Damage \subseteq Nat
  /\ MaxSeals \in Nat /\ MaxSeals < NonceMod

VARIABLES
  build,
  dlls_size,  (* Entries of each table of keys,                               *)
  dlls_nonce, (* the next nonce,                                              *)
  dlls_ctx,   (* and the key contexts.                                        *)
  q,          (* The queue of each device: its cursors and limit,             *)
  mem,        (* and its buffer.                                              *)
  stage,      (* How far each device is with the frame in its queue.          *)
  frame,      (* That frame: where it starts, which it is, if it is intact,   *)
              (* and the key it was opened with.                              *)
  rc,         (* What the last decryption returned.                           *)
  sealed,     (* Everything encrypted so far: key, IV and data.               *)
  air         (* The frames sent so far.                                      *)

device == <<dlls_size, dlls_nonce, dlls_ctx>>
queue  == <<q, mem>>
vars   == <<build, device, queue, stage, frame, rc, sealed, air>>

Place  == 0..(Alloc - 1)
Stages == {"idle", "named", "nonced", "plain", "sealed", "got", "opened"}

(* Cursors stay in order and in the buffer, the tag included.              *)
TypeOK ==
  /\ build \in Builds
  /\ dlls_size \in [Device -> {0, 2}]
  /\ dlls_nonce \in [Device -> 0..(NonceMod - 1)]
  /\ dlls_ctx \in [Device -> [0..1 -> Key \cup {Wiped}]]
  /\ q \in [Device -> [get : 0..Alloc, put : 0..Alloc, back : 0..Alloc]]
  /\ \A d \in Device : q[d].get <= q[d].put /\ q[d].put <= q[d].back
  /\ stage \in [Device -> Stages]
  /\ Len(sealed) <= MaxSeals

Zero == <<"digit", 0>>
Emptied == [get |-> 0, put |-> 0, back |-> Alloc]
Zeroed  == [p \in Place |-> Zero]
NoFrame == [start |-> 0, of |-> 0, intact |-> FALSE, key |-> Wiped]

Init ==
  /\ build \in Builds
  /\ dlls_size = [d \in Device |-> 0]
  /\ dlls_nonce = [d \in Device |-> 0]
  /\ dlls_ctx = [d \in Device |-> [i \in 0..1 |-> Wiped]]
  /\ q = [d \in Device |-> Emptied]
  /\ mem = [d \in Device |-> Zeroed]
  /\ stage = [d \in Device |-> "idle"]
  /\ frame = [d \in Device |-> NoFrame]
  /\ rc = [d \in Device |-> 0]
  /\ sealed = <<>> /\ air = {}

-----------------------------------------------------------------------------
(* The buffer m with the bytes s from p on, and n bytes of it.             *)
Written(m, p, s) ==
  [x \in Place |-> IF x \in p..(p + Len(s) - 1) THEN s[x - p + 1] ELSE m[x]]

Bytes(m, p, n) == [i \in 1..n |-> m[p + i - 1]]

(* auth_init: the nonce is drawn once, for an empty table.                 *)
(* Mutant: it is drawn at every call. *)
auth_init_Redraws(d) ==
  /\ dlls_size' = [dlls_size EXCEPT ![d] = 2]
  /\ \E n \in Rand : dlls_nonce' = [dlls_nonce EXCEPT ![d] = n]
  /\ dlls_ctx' = [dlls_ctx EXCEPT ![d] = Stored[d]]
  /\ UNCHANGED <<build, queue, stage, frame, rc, sealed, air>>

auth_init(d) ==
  /\ IF dlls_size[d] < 2
       THEN /\ dlls_size' = [dlls_size EXCEPT ![d] = 2]
            /\ \E n \in Rand : dlls_nonce' = [dlls_nonce EXCEPT ![d] = n]
       ELSE UNCHANGED <<dlls_size, dlls_nonce>>
  /\ dlls_ctx' = [dlls_ctx EXCEPT ![d] = Stored[d]]
  /\ UNCHANGED <<build, queue, stage, frame, rc, sealed, air>>

(* In the static build the size, and the nonce, stay.                      *)
auth_deinit(d) ==
  /\ dlls_ctx' = [dlls_ctx EXCEPT ![d] = [i \in 0..1 |-> Wiped]]
  /\ UNCHANGED <<build, dlls_size, dlls_nonce, queue, stage, frame, rc, sealed, air>>

(* The application is done with its queue.                                 *)
Cleared(d) ==
  /\ q' = [q EXCEPT ![d] = Emptied]
  /\ mem' = [mem EXCEPT ![d] = Zeroed]
  /\ frame' = [frame EXCEPT ![d] = NoFrame]
  /\ rc' = [rc EXCEPT ![d] = 0]

Goes(d, from, to) == stage[d] = from /\ stage' = [stage EXCEPT ![d] = to]

(* The C2000 port of sub_crypt_q takes the IV from the front of the buffer. *)
Starts(d) == IF build[d].port = "c2000" THEN {0} ELSE Offsets

(* The application starts a frame with its ID, and leaves the putcursor    *)
(* behind it, or before it for the call that skips three bytes.            *)
Begin(d) ==
  /\ Goes(d, "idle", "named")
  /\ dlls_size[d] = 2
  /\ \E s \in Starts(d), pad \in {0, 3} :
       /\ q' = [q EXCEPT ![d] = [get |-> s, put |-> s + 3 - pad, back |-> Alloc]]
       /\ mem' = [mem EXCEPT ![d] = Written(@, s, [i \in 1..3 |-> <<"id", d>>])]
       /\ frame' = [frame EXCEPT ![d] = [NoFrame EXCEPT !.start = s]]
  /\ UNCHANGED <<build, device, rc, sealed, air>>

-----------------------------------------------------------------------------
(* The four bytes of a nonce from the highest down, as q_writelong puts    *)
(* them, and from the lowest up, as q_writelong_be and memcpy do.          *)
HighFirst(n) ==
  <<<<"digit", n \div (Base * Base * Base)>>, <<"digit", (n \div (Base * Base)) % Base>>,
    <<"digit", (n \div Base) % Base>>, <<"digit", n % Base>>>>

LowFirst(n) == [i \in 1..4 |-> HighFirst(n)[5 - i]]

Advanced(d) == (dlls_nonce[d] + 1) % NonceMod

(* The bytes s of a nonce are put behind the ID.                           *)
Put(d, s) ==
  LET total == q[d].get + 7 - q[d].put
      pad   == IF total > 4 THEN total - 4 ELSE 0
  IN  /\ q' = [q EXCEPT ![d].put = @ + pad + 4]
      /\ mem' = [mem EXCEPT ![d] = Written(@, q[d].put + pad, s)]

Takes(d, call) ==
  /\ build[d].takes = call
  /\ Goes(d, "named", "nonced")
  /\ dlls_nonce' = [dlls_nonce EXCEPT ![d] = Advanced(d)]
  /\ UNCHANGED <<build, dlls_size, dlls_ctx, frame, rc, sealed, air>>

auth_putnonce_q(d) == Takes(d, "put") /\ Put(d, LowFirst(dlls_nonce[d]))

(* Into the buffer; the caller moves the putcursor.  C2000 copies by words. *)
auth_putnonce(d) ==
  /\ build[d].port = "posix"
  /\ Takes(d, "put") /\ Put(d, LowFirst(dlls_nonce[d]))

(* The caller writes what auth_getnonce returns.                           *)
auth_getnonce(d) == Takes(d, "get") /\ Put(d, HighFirst(Advanced(d)))

Payload(d) ==
  /\ Goes(d, "nonced", "plain")
  /\ \E s \in Plains :
       /\ q[d].put + Len(s) + 4 <= q[d].back
       /\ q' = [q EXCEPT ![d].put = @ + Len(s)]
       /\ mem' = [mem EXCEPT ![d] = Written(@, q[d].put, s)]
  /\ UNCHANGED <<build, device, frame, rc, sealed, air>>

-----------------------------------------------------------------------------
(* The cipher: n bytes at p become those of a new seal, with its tag.      *)
Cipher(k, n) == [i \in 1..(n + 4) |-> IF i <= n THEN <<"cipher", k, i>>
                                      ELSE <<"tag", k, i - n>>]

EAXdrv_encrypt(d, iv, p, n, key) ==
  /\ Len(sealed) < MaxSeals
  /\ sealed' = Append(sealed, [key |-> key, iv |-> Bytes(mem[d], iv, 7),
                               plain |-> Bytes(mem[d], p, n)])
  /\ mem' = [mem EXCEPT ![d] = Written(@, p, Cipher(Len(sealed) + 1, n))]
  /\ frame' = [frame EXCEPT ![d].of = Len(sealed) + 1]

(* The seals that n bytes at p, and the tag behind them, are those of.     *)
Opens(d, iv, p, n, key) ==
  {k \in DOMAIN sealed :
     /\ sealed[k].key = key /\ sealed[k].iv = Bytes(mem[d], iv, 7)
     /\ Bytes(mem[d], p, n + 4) = Cipher(k, n)}

(* Without one the bytes are garbled: the cipher works in place.           *)
EAXdrv_decrypt(d, iv, p, n, key) ==
  LET ks == Opens(d, iv, p, n, key)
  IN  mem' = [mem EXCEPT ![d] =
        Written(@, p, IF ks # {} THEN sealed[CHOOSE k \in ks : TRUE].plain
                      ELSE [i \in 1..n |-> <<"junk">>])]

-----------------------------------------------------------------------------
(* sub_crypt_q: where it takes IV and data, and with what a refused index  *)
(* leaves the C2000 buffer, three zeros behind the data.                   *)
(* Mutant: the IV is at the front on every port. *)
IV_Front(d) == 0

IV(d) == IF build[d].port = "c2000" THEN 0 ELSE q[d].get

Data(d) == IF build[d].port = "c2000" THEN 7 ELSE q[d].get + 7

Index == 0..2

Refused(d) ==
  mem' = IF build[d].port = "c2000"
           THEN [mem EXCEPT ![d] =
                   Written(@, q[d].put, <<Zero, Zero, Zero, @[q[d].put]>>)]
           ELSE mem

(* The tag counts as content; the getcursor is put back.                   *)
auth_encrypt_q(d) ==
  \E key_index \in Index :
    \/ /\ key_index < dlls_size[d]
       /\ Goes(d, "plain", "sealed")
       /\ EAXdrv_encrypt(d, IV(d), Data(d), q[d].put - Data(d), dlls_ctx[d][key_index])
       /\ q' = [q EXCEPT ![d].put = @ + 4]
       /\ UNCHANGED <<build, device, rc, air>>
    \/ /\ key_index >= dlls_size[d]
       /\ stage[d] = "plain"
       /\ Refused(d)
       /\ UNCHANGED <<build, device, q, stage, frame, rc, sealed, air>>

(* auth_encrypt, given the same places; the caller counts the tag.         *)
auth_encrypt(d) ==
  \E key_index \in 0..(dlls_size[d] - 1) :
    /\ build[d].port = "posix"
    /\ Goes(d, "plain", "sealed")
    /\ EAXdrv_encrypt(d, q[d].get, q[d].get + 7, q[d].put - q[d].get - 7, dlls_ctx[d][key_index])
    /\ q' = [q EXCEPT ![d].put = @ + 4]
    /\ UNCHANGED <<build, device, rc, air>>

(* EAX_encrypt, with a key of the caller's.                                *)
EAX_encrypt(d) ==
  \E key \in RawKey :
    /\ build[d].port = "posix"
    /\ Goes(d, "plain", "sealed")
    /\ EAXdrv_encrypt(d, q[d].get, q[d].get + 7, q[d].put - q[d].get - 7, key)
    /\ q' = [q EXCEPT ![d].put = @ + 4]
    /\ UNCHANGED <<build, device, rc, air>>

Transmit(d) ==
  /\ Goes(d, "sealed", "idle")
  /\ air' = air \cup {[of |-> frame[d].of,
                       bytes |-> Bytes(mem[d], q[d].get, q[d].put - q[d].get)]}
  /\ Cleared(d)
  /\ UNCHANGED <<build, device, sealed>>

(* A frame arrives as it was sent, short of its last byte or with one      *)
(* byte changed, any number of times.                                      *)
Arrivals(f) ==
  {f.bytes, SubSeq(f.bytes, 1, Len(f.bytes) - 1)}
    \cup {[f.bytes EXCEPT ![i] = <<"junk">>] : i \in Damage \cap DOMAIN f.bytes}

Receive(d) ==
  /\ Goes(d, "idle", "got")
  /\ \E f \in air, s \in Starts(d) : \E b \in Arrivals(f) :
       /\ Len(b) >= 11 /\ s + Len(b) <= Alloc
       /\ q' = [q EXCEPT ![d] = [get |-> s, put |-> s + Len(b), back |-> Alloc]]
       /\ mem' = [mem EXCEPT ![d] = Written(@, s, b)]
       /\ frame' = [frame EXCEPT ![d] = [start |-> s, of |-> f.of,
                                         intact |-> b = f.bytes, key |-> Wiped]]
  /\ UNCHANGED <<build, device, rc, sealed, air>>

(* What decryption makes of the queue: the getcursor passes the IV, and    *)
(* only if the tag fits the tag is taken off.                              *)
(* Mutant: the tag is taken off the limit only. *)
Opened_KeepsTag(d, ok) ==
  [get |-> Data(d), put |-> q[d].put,
   back |-> q[d].back - (IF ok THEN 4 ELSE 0)]

Opened(d, ok) ==
  [get |-> Data(d), put |-> q[d].put - (IF ok THEN 4 ELSE 0),
   back |-> q[d].back - (IF ok THEN 4 ELSE 0)]

auth_decrypt_q(d) ==
  \E key_index \in Index :
    \/ LET n   == q[d].put - Data(d) - 4
           key == dlls_ctx[d][key_index]
           ok  == Opens(d, IV(d), Data(d), n, key) # {}
       IN  /\ key_index < dlls_size[d] /\ q[d].get = frame[d].start
           /\ Goes(d, "got", "opened")
           /\ EAXdrv_decrypt(d, IV(d), Data(d), n, key)
           /\ q' = [q EXCEPT ![d] = Opened(d, ok)]
           /\ rc' = [rc EXCEPT ![d] = IF ok THEN 4 ELSE -2]
           /\ frame' = [frame EXCEPT ![d].key = key]
           /\ UNCHANGED <<build, device, sealed, air>>
    \/ /\ key_index >= dlls_size[d] /\ q[d].get = frame[d].start
       /\ stage[d] = "got"
       /\ q' = [q EXCEPT ![d].get = Data(d)]
       /\ rc' = [rc EXCEPT ![d] = -1]
       /\ UNCHANGED <<build, device, mem, stage, frame, sealed, air>>

(* auth_decrypt, given the same places; the caller moves the cursors.      *)
auth_decrypt(d) ==
  \E key_index \in 0..(dlls_size[d] - 1) :
    LET p   == q[d].get + 7
        key == dlls_ctx[d][key_index]
        ok  == Opens(d, q[d].get, p, q[d].put - p - 4, key) # {}
    IN  /\ build[d].port = "posix" /\ q[d].get = frame[d].start
        /\ Goes(d, "got", "opened")
        /\ EAXdrv_decrypt(d, q[d].get, p, q[d].put - p - 4, key)
        /\ q' = [q EXCEPT ![d] = Opened(d, ok)]
        /\ rc' = [rc EXCEPT ![d] = IF ok THEN 4 ELSE -2]
        /\ frame' = [frame EXCEPT ![d].key = key]
        /\ UNCHANGED <<build, device, sealed, air>>

(* After a refused index the application tries again from the start.       *)
Retry(d) ==
  /\ stage[d] = "got" /\ q[d].get # frame[d].start
  /\ q' = [q EXCEPT ![d].get = frame[d].start]
  /\ UNCHANGED <<build, device, mem, stage, frame, rc, sealed, air>>

Done(d) ==
  /\ Goes(d, "opened", "idle")
  /\ Cleared(d)
  /\ UNCHANGED <<build, device, sealed, air>>

Next ==
  \E d \in Device :
    \/ auth_init(d) \/ auth_deinit(d)
    \/ Begin(d) \/ auth_putnonce_q(d) \/ auth_putnonce(d) \/ auth_getnonce(d)
    \/ Payload(d) \/ auth_encrypt_q(d) \/ auth_encrypt(d) \/ EAX_encrypt(d)
    \/ Transmit(d) \/ Receive(d)
    \/ auth_decrypt_q(d) \/ auth_decrypt(d) \/ Retry(d) \/ Done(d)

Spec == Init /\ [][Next]_vars

-----------------------------------------------------------------------------
(* No key is ever used twice with one IV: not by two devices, not by one   *)
(* that loads or wipes its keys again, and not when the counter wraps.     *)
NonceFresh ==
  \A i, j \in DOMAIN sealed :
    i # j /\ sealed[i].key = sealed[j].key => sealed[i].iv # sealed[j].iv

(* Decryption succeeds exactly on frames that arrive intact and with the   *)
(* key they were encrypted with, from any port to any other, and leaves    *)
(* the data, and only the data, as the content of the queue.               *)
OpensExact ==
  \A d \in Device :
    stage[d] = "opened" =>
      /\ rc[d] = 4 <=> frame[d].intact /\ frame[d].key = sealed[frame[d].of].key
      /\ rc[d] = 4 => Bytes(mem[d], q[d].get, q[d].put - q[d].get) = sealed[frame[d].of].plain
=============================================================================
