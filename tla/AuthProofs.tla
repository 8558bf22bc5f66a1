----------------------------- MODULE AuthProofs -----------------------------
(* Theorems of module Auth, for every size of the table, set of users, keys, *)
(* lifetimes and modes that satisfies AuthAssumption.                        *)
EXTENDS Auth, TLAPS

-----------------------------------------------------------------------------
(* The inductive invariant.  The entries of remote users are live, or were   *)
(* found expired; the table is empty or has its two local entries; a live     *)
(* entry is the last one its user was granted; a grant that is still good     *)
(* has a live entry.                                                         *)
Live(i) == dlls_info[i].mflags = AUTHMOD_user

SizeOK == dlls_size = 0 \/ dlls_size >= 2

RightsOK == \A i \in Remote : dlls_info[i].mflags \in {AUTHMOD_guest, AUTHMOD_user}

LiveGranted ==
  \A i \in Remote : Live(i) =>
    /\ dlls_info[i].id \in User
    /\ granted[dlls_info[i].id] # NoGrant
    /\ granted[dlls_info[i].id].until = dlls_info[i].EOL
    /\ granted[dlls_info[i].id].key = dlls_ctx[i]
    /\ dlls_info[i].EOL > 0

GoodLive ==
  \A u \in User : Good(u) => \E i \in Remote : Live(i) /\ dlls_info[i].id = u

KeyInv ==
  /\ TypeOK
  /\ SizeOK
  /\ RightsOK
  /\ LiveUnique
  /\ LiveGranted
  /\ GoodLive
  /\ ExpiredWiped
  /\ LocalKept

(* Times do not wrap around within the bounds. *)
NoWrap == \A lifetime \in Lifetime : MaxNow + lifetime < TimeMod

-----------------------------------------------------------------------------
LEMMA TableFacts ==
  ASSUME TypeOK
  PROVE  /\ NumElements \in Nat /\ NumElements >= 2
         /\ dlls_size \in Nat /\ dlls_size <= NumElements
         /\ 0 \in Index /\ 1 \in Index
         /\ Remote \subseteq Index
         /\ \A i \in Index : /\ i \in Int
                             /\ dlls_info[i].id \in Nat
                             /\ dlls_info[i].EOL \in Nat /\ dlls_info[i].EOL < TimeMod
                             /\ dlls_ctx[i] \in Key \cup {Wiped}
         /\ now \in Nat /\ now <= MaxNow /\ MaxNow \in Nat /\ TimeMod \in Nat
<1>1. NumElements \in Nat /\ NumElements >= 2 /\ MaxNow \in Nat /\ TimeMod \in Nat
  BY AuthAssumption
<1>2. dlls_size \in Nat /\ dlls_size <= NumElements /\ Remote \subseteq Index
  BY <1>1 DEF TypeOK, Remote, Index
<1>3. 0 \in Index /\ 1 \in Index
  BY <1>1 DEF Index
<1>4. ASSUME NEW i \in Index
      PROVE  /\ i \in Int
             /\ dlls_info[i].id \in Nat
             /\ dlls_info[i].EOL \in Nat /\ dlls_info[i].EOL < TimeMod
             /\ dlls_ctx[i] \in Key \cup {Wiped}
  BY <1>1 DEF TypeOK, Index
<1>5. now \in Nat /\ now <= MaxNow
  BY <1>1 DEF TypeOK
<1>6. QED
  BY <1>1, <1>2, <1>3, <1>4, <1>5

(* The rights a search may ask for tell the entries apart as Live does. *)
LEMMA Levels ==
  ASSUME NEW m \in {AUTHMOD_guest, AUTHMOD_user},
         NEW r \in {Partial, AUTHMOD_user, AUTHMOD_root}
  PROVE  m % 64 >= r <=> m = AUTHMOD_user /\ r # AUTHMOD_root
BY DEF AUTHMOD_guest, AUTHMOD_user, AUTHMOD_root, Partial

LEMMA RequiredLevels ==
  ASSUME NEW mod, Required(mod) # AUTHMOD_guest
  PROVE  Required(mod) \in {Partial, AUTHMOD_user, AUTHMOD_root}
BY DEF Required

(* What a search matches, and passes, is live. *)
LEMMA MatchLive ==
  ASSUME RightsOK, NEW u, NEW r \in {Partial, AUTHMOD_user, AUTHMOD_root}
  PROVE  /\ \A i \in Match(u, r) : i \in Remote /\ Live(i) /\ dlls_info[i].id = u
         /\ r # AUTHMOD_root =>
              \A i \in Remote : Live(i) /\ dlls_info[i].id = u => i \in Match(u, r)
         /\ \A i \in Passed(u, r) : i \in Remote /\ Live(i) /\ Expired(i)
<1>1. ASSUME NEW i \in Remote
      PROVE  dlls_info[i].mflags % 64 >= r <=> Live(i) /\ r # AUTHMOD_root
  <2>1. dlls_info[i].mflags \in {AUTHMOD_guest, AUTHMOD_user}
    BY DEF RightsOK
  <2>2. QED
    BY <2>1, Levels DEF Live
<1>2. QED
  BY <1>1 DEF Match, Passed

(* With one live entry for each ID the search finds it, unless it expired. *)
LEMMA FoundIs ==
  ASSUME TypeOK, RightsOK, LiveUnique, NEW u, NEW r \in {Partial, AUTHMOD_user},
         NEW i \in Remote, Live(i), dlls_info[i].id = u, ~Expired(i)
  PROVE  Found(u, r) = i
<1>1. Valid(u, r) = {i}
  <2>1. i \in Valid(u, r)
    BY MatchLive DEF Valid, AUTHMOD_user, AUTHMOD_root, Partial
  <2>2. ASSUME NEW j \in Valid(u, r)
        PROVE  j = i
    <3>1. j \in Remote /\ Live(j) /\ dlls_info[j].id = u
      BY MatchLive DEF Valid
    <3>2. QED
      BY <3>1 DEF LiveUnique, Live
  <2>3. QED
    BY <2>1, <2>2
<1>2. i \in Int
  BY TableFacts
<1>3. \E k \in Valid(u, r) : \A j \in Valid(u, r) : k <= j
  BY <1>1, <1>2
<1>4. Found(u, r) \in Valid(u, r)
  BY <1>1, <1>3 DEF Found
<1>5. QED
  BY <1>1, <1>4

LEMMA FoundOnly ==
  ASSUME TypeOK, RightsOK, LiveUnique, NEW u, NEW r \in {Partial, AUTHMOD_user},
         Found(u, r) # NotFound
  PROVE  /\ Found(u, r) \in Remote /\ Live(Found(u, r)) /\ ~Expired(Found(u, r))
         /\ dlls_info[Found(u, r)].id = u
<1>1. PICK i \in Valid(u, r) : TRUE
  BY DEF Found
<1>2. i \in Remote /\ Live(i) /\ dlls_info[i].id = u /\ ~Expired(i)
  BY <1>1, MatchLive DEF Valid
<1>3. Found(u, r) = i
  BY <1>2, FoundIs
<1>4. QED
  BY <1>2, <1>3

(* When every grant is good only until its key expires, the invariant says   *)
(* what a search finds.                                                      *)
LEMMA Exact ==
  ASSUME KeyInv
  PROVE  LookupExact
<1> SUFFICES ASSUME NEW u \in User
             PROVE  IF Good(u)
                      THEN /\ Found(u, AUTHMOD_user) # NotFound
                           /\ dlls_ctx[Found(u, AUTHMOD_user)] = granted[u].key
                      ELSE Found(u, AUTHMOD_user) = NotFound
  BY DEF LookupExact
<1>1. CASE Good(u)
  <2>1. PICK i \in Remote : Live(i) /\ dlls_info[i].id = u
    BY <1>1 DEF KeyInv, GoodLive
  <2>2. granted[u].until = dlls_info[i].EOL /\ granted[u].key = dlls_ctx[i]
    BY <2>1 DEF KeyInv, LiveGranted
  <2>3. i \in Index /\ dlls_info[i].EOL \in Nat /\ now \in Nat /\ i \in Int /\ i >= 2
    BY TableFacts DEF KeyInv, Remote
  <2>4. ~Expired(i)
    BY <1>1, <2>2, <2>3 DEF Expired, Good
  <2>5. Found(u, AUTHMOD_user) = i
    BY <2>1, <2>4, FoundIs DEF KeyInv
  <2>6. QED
    BY <1>1, <2>2, <2>3, <2>5 DEF NotFound
<1>2. CASE ~Good(u)
  <2> SUFFICES ASSUME Found(u, AUTHMOD_user) # NotFound
               PROVE  FALSE
    BY <1>2
  <2> DEFINE i == Found(u, AUTHMOD_user)
  <2>1. i \in Remote /\ Live(i) /\ ~Expired(i) /\ dlls_info[i].id = u
    BY FoundOnly DEF KeyInv
  <2>2. granted[u] # NoGrant /\ granted[u].until = dlls_info[i].EOL /\ dlls_info[i].EOL > 0
    BY <2>1 DEF KeyInv, LiveGranted
  <2>3. i \in Index /\ dlls_info[i].EOL \in Nat /\ now \in Nat
    BY <2>1, TableFacts DEF KeyInv
  <2>4. now < granted[u].until
    BY <2>1, <2>2, <2>3 DEF Expired
  <2>5. QED
    BY <1>2, <2>2, <2>4 DEF Good
<1>3. QED
  BY <1>1, <1>2

-----------------------------------------------------------------------------
(* Type correctness.                                                         *)
Entry == [id : Nat, mflags : {AUTHMOD_guest, AUTHMOD_user, AUTHMOD_root, FlagInvalid},
          EOL : 0 .. TimeMod - 1]

LEMMA ModRange ==
  ASSUME NEW a \in Nat, NEW b \in Nat, b > 0
  PROVE  a % b \in 0 .. b - 1 /\ (a < b => a % b = a)
OBVIOUS

LEMMA EndOfLifeType ==
  ASSUME TypeOK, NEW lifetime \in Lifetime
  PROVE  /\ EndOfLife(lifetime) \in 0 .. TimeMod - 1
         /\ now + lifetime \in Nat
         /\ NoWrap => EndOfLife(lifetime) = now + lifetime
<1>1. lifetime \in Nat /\ now \in Nat /\ now <= MaxNow /\ MaxNow \in Nat
      /\ TimeMod \in Nat /\ MaxNow < TimeMod
  BY AuthAssumption DEF TypeOK
<1>2. now + lifetime \in Nat /\ TimeMod > 0
  BY <1>1
<1>3. NoWrap => now + lifetime < TimeMod
  BY <1>1 DEF NoWrap
<1>4. QED
  BY <1>2, <1>3, <1>1, ModRange DEF EndOfLife

LEMMA SweptType ==
  ASSUME TypeOK, NEW u, NEW r
  PROVE  /\ SweptInfo(u, r) \in [Index -> Entry]
         /\ SweptCtx(u, r) \in [Index -> Key \cup {Wiped}]
<1>1. dlls_info \in [Index -> Entry] /\ dlls_ctx \in [Index -> Key \cup {Wiped}]
  BY DEF TypeOK, Entry
<1>2. \A i \in Index : [dlls_info[i] EXCEPT !.mflags = AUTHMOD_guest] \in Entry
  BY <1>1 DEF Entry
<1>3. QED
  BY <1>1, <1>2 DEF SweptInfo, SweptCtx

LEMMA SearchType ==
  ASSUME TypeOK, NEW u, NEW r, Search(u, r)
  PROVE  TypeOK'
BY SweptType DEF Search, TypeOK, Entry

LEMMA TypeStep ==
  ASSUME TypeOK, [Next]_vars
  PROVE  TypeOK'
<1> USE DEF Entry
<1>1. ASSUME auth_init PROVE TypeOK'
  <2>1. PICK loaded \in SUBSET {0, 1}, k \in [{0, 1} -> Key] :
          /\ dlls_info' = [i \in Index |->
               IF i \in loaded
                 THEN [id |-> i, mflags |-> IF i = 0 THEN AUTHMOD_root ELSE AUTHMOD_user, EOL |-> 0]
                 ELSE dlls_info[i]]
          /\ dlls_ctx' = [i \in Index |-> IF i \in loaded THEN k[i] ELSE dlls_ctx[i]]
          /\ local' = [i \in {0, 1} |-> IF i \in loaded THEN k[i] ELSE local[i]]
    BY <1>1 DEF auth_init
  <2>2. TimeMod \in Nat /\ TimeMod > 0 /\ NumElements \in Nat /\ NumElements >= 2
    BY AuthAssumption
  <2>3. dlls_info' \in [Index -> Entry]
    <3>1. ASSUME NEW i \in Index, i \in loaded
          PROVE  [id |-> i, mflags |-> IF i = 0 THEN AUTHMOD_root ELSE AUTHMOD_user, EOL |-> 0] \in Entry
      BY <3>1, <2>2 DEF Index
    <3>2. QED
      BY <2>1, <3>1 DEF TypeOK
  <2>4. dlls_ctx' \in [Index -> Key \cup {Wiped}] /\ local' \in [{0, 1} -> Key \cup {Wiped}]
    BY <2>1 DEF TypeOK
  <2>5. dlls_size' \in 0 .. NumElements
    BY <1>1, <2>2 DEF auth_init, TypeOK
  <2>6. QED
    BY <1>1, <2>3, <2>4, <2>5 DEF auth_init, TypeOK
<1>2. ASSUME auth_deinit PROVE TypeOK'
  <2>1. Zeroed \in Entry /\ NoGrant \in [key : Key \cup {Wiped}, until : Nat]
    BY AuthAssumption DEF Zeroed, NoGrant
  <2>2. QED
    BY <1>2, <2>1 DEF auth_deinit, TypeOK
<1>3. ASSUME NEW u \in User, NEW mod \in Modes, auth_search_user(u, mod) PROVE TypeOK'
  BY <1>3, SearchType DEF auth_search_user
<1>4. ASSUME NEW u \in User, NEW req \in Modes, NEW rw \in Modes, auth_check(u, req, rw)
      PROVE TypeOK'
  BY <1>4, SearchType DEF auth_check
<1>5. ASSUME NEW u \in User, NEW k \in Key, NEW lifetime \in Lifetime,
             auth_create_key(u, k, lifetime)
      PROVE TypeOK'
  <2>1. CASE ~(Found(u, AUTHMOD_user) = NotFound /\ dlls_size < NumElements)
    BY <1>5, <2>1, SearchType DEF auth_create_key
  <2>2. CASE Found(u, AUTHMOD_user) = NotFound /\ dlls_size < NumElements
    <3> DEFINE entry == [id |-> u, mflags |-> AUTHMOD_user, EOL |-> EndOfLife(lifetime)]
    <3>1. /\ dlls_size' = dlls_size + 1
          /\ dlls_info' = [SweptInfo(u, AUTHMOD_user) EXCEPT ![dlls_size] = entry]
          /\ dlls_ctx' = [SweptCtx(u, AUTHMOD_user) EXCEPT ![dlls_size] = k]
          /\ granted' = [granted EXCEPT ![u] = [key |-> k, until |-> now + lifetime]]
          /\ UNCHANGED <<now, local>>
      BY <1>5, <2>2 DEF auth_create_key
    <3>2. entry \in Entry
      BY AuthAssumption, EndOfLifeType
    <3>3. dlls_info' \in [Index -> Entry] /\ dlls_ctx' \in [Index -> Key \cup {Wiped}]
      BY <3>1, <3>2, SweptType
    <3>4. granted' \in [User -> [key : Key \cup {Wiped}, until : Nat]]
      BY <3>1, EndOfLifeType DEF TypeOK
    <3>5. dlls_size' \in 0 .. NumElements
      BY <3>1, <2>2, AuthAssumption DEF TypeOK
    <3>6. QED
      BY <3>1, <3>3, <3>4, <3>5 DEF TypeOK
  <2>3. QED
    BY <2>1, <2>2
<1>6. ASSUME NEW u \in User, NEW lifetime \in Lifetime, auth_refresh_key(u, lifetime)
      PROVE TypeOK'
  <2> DEFINE i == Found(u, AUTHMOD_user)
  <2>1. CASE i = NotFound
    BY <1>6, <2>1, SearchType DEF auth_refresh_key
  <2>2. CASE i # NotFound
    <3>1. /\ dlls_info' = [SweptInfo(u, AUTHMOD_user) EXCEPT ![i].EOL = EndOfLife(lifetime)]
          /\ dlls_ctx' = SweptCtx(u, AUTHMOD_user)
          /\ granted' = [granted EXCEPT ![u].until = now + lifetime]
          /\ UNCHANGED <<dlls_size, now, local>>
      BY <1>6, <2>2 DEF auth_refresh_key
    <3>2. dlls_info' \in [Index -> Entry] /\ dlls_ctx' \in [Index -> Key \cup {Wiped}]
      <4> DEFINE swept == SweptInfo(u, AUTHMOD_user)
      <4>1. swept \in [Index -> Entry] /\ SweptCtx(u, AUTHMOD_user) \in [Index -> Key \cup {Wiped}]
        BY SweptType
      <4>2. dlls_info' = [swept EXCEPT ![i] = [swept[i] EXCEPT !.EOL = EndOfLife(lifetime)]]
        BY <3>1
      <4> HIDE DEF swept, i
      <4>3. i \in Index => [swept[i] EXCEPT !.EOL = EndOfLife(lifetime)] \in Entry
        BY <4>1, EndOfLifeType
      <4>4. QED
        BY <3>1, <4>1, <4>2, <4>3
    <3>3. granted' \in [User -> [key : Key \cup {Wiped}, until : Nat]]
      BY <3>1, EndOfLifeType DEF TypeOK
    <3>4. QED
      BY <3>1, <3>2, <3>3 DEF TypeOK
  <2>3. QED
    BY <2>1, <2>2
<1>7. ASSUME NEW lifetime \in Lifetime, auth_refresh_local(lifetime) PROVE TypeOK'
  <2>1. PICK i : dlls_info' = [dlls_info EXCEPT ![i].EOL = EndOfLife(lifetime)]
    BY <1>7 DEF auth_refresh_local
  <2>2. dlls_info' \in [Index -> Entry]
    BY <2>1, EndOfLifeType DEF TypeOK
  <2>3. QED
    BY <1>7, <2>2 DEF auth_refresh_local, TypeOK
<1>8. ASSUME NEW i \in Index, auth_delete_key(i) PROVE TypeOK'
  <2> DEFINE emptied == [dlls_info EXCEPT ![i].mflags = FlagInvalid]
             cleared == [dlls_ctx EXCEPT ![i] = Wiped]
             behind  == {j \in Index : i <= j /\ j < dlls_size - 1}
  <2>1. /\ dlls_size' = dlls_size - 1 /\ i >= 2 /\ i < dlls_size
        /\ dlls_info' = [j \in Index |-> IF j \in behind THEN emptied[j + 1] ELSE emptied[j]]
        /\ dlls_ctx' = [j \in Index |-> IF j \in behind THEN cleared[j + 1] ELSE cleared[j]]
        /\ granted' = Revoked(i)
        /\ UNCHANGED <<now, local>>
    BY <1>8 DEF auth_delete_key
  <2>2. emptied \in [Index -> Entry] /\ cleared \in [Index -> Key \cup {Wiped}]
    BY DEF TypeOK
  <2>3. \A j \in behind : j + 1 \in Index
    BY TableFacts DEF Index
  <2>4. dlls_info' \in [Index -> Entry] /\ dlls_ctx' \in [Index -> Key \cup {Wiped}]
    <3> HIDE DEF emptied, cleared, behind
    <3> QED
      BY <2>1, <2>2, <2>3
  <2>5. NoGrant \in [key : Key \cup {Wiped}, until : Nat]
    BY DEF NoGrant
  <2>6. granted' \in [User -> [key : Key \cup {Wiped}, until : Nat]]
    BY <2>1, <2>5 DEF Revoked, TypeOK
  <2>7. dlls_size' \in 0 .. NumElements
    BY <2>1, TableFacts DEF Index
  <2>8. QED
    BY <2>1, <2>4, <2>6, <2>7 DEF TypeOK
<1>9. ASSUME tick PROVE TypeOK'
  BY <1>9, AuthAssumption DEF tick, TypeOK
<1>10. ASSUME UNCHANGED vars PROVE TypeOK'
  BY <1>10 DEF vars, TypeOK
<1>11. QED
  BY <1>1, <1>2, <1>3, <1>4, <1>5, <1>6, <1>7, <1>8, <1>9, <1>10 DEF Next

(* Every entry of the table, every context and every grant keeps its type    *)
(* and no more entries are used than the table has: auth_create_key is the    *)
(* only call that adds one, and tests the size first (auth.c:773).           *)
THEOREM TypeCorrect == Spec => []TypeOK
<1>1. Init => TypeOK
  BY AuthAssumption DEF Init, TypeOK, Zeroed, NoGrant, Index
<1>2. TypeOK /\ [Next]_vars => TypeOK'
  BY TypeStep
<1>3. QED
  BY <1>1, <1>2, PTL DEF Spec

-----------------------------------------------------------------------------
(* The steps that preserve the invariant.                                    *)

(* A search wipes the entries it passes and leaves the others alone; a grant *)
(* that is still good has a live entry that no search passes.                *)
LEMMA SweptIs ==
  ASSUME KeyInv, NEW u, NEW r \in {Partial, AUTHMOD_user, AUTHMOD_root}
  PROVE  /\ \A i \in Index \ Passed(u, r) :
              SweptInfo(u, r)[i] = dlls_info[i] /\ SweptCtx(u, r)[i] = dlls_ctx[i]
         /\ \A i \in Passed(u, r) :
              /\ i \in Remote
              /\ SweptInfo(u, r)[i].mflags = AUTHMOD_guest
              /\ SweptCtx(u, r)[i] = Wiped
         /\ \A v \in User : Good(v) =>
              \E i \in Remote \ Passed(u, r) : Live(i) /\ dlls_info[i].id = v
<1>1. \A i \in Passed(u, r) : i \in Remote /\ i \in Index /\ Expired(i)
  BY MatchLive, TableFacts DEF KeyInv
<1>2. \A i \in Index \ Passed(u, r) :
        SweptInfo(u, r)[i] = dlls_info[i] /\ SweptCtx(u, r)[i] = dlls_ctx[i]
  BY DEF SweptInfo, SweptCtx
<1>3. ASSUME NEW i \in Passed(u, r)
      PROVE  SweptInfo(u, r)[i].mflags = AUTHMOD_guest /\ SweptCtx(u, r)[i] = Wiped
  <2>1. dlls_info[i] \in Entry
    BY <1>1 DEF KeyInv, TypeOK, Entry
  <2>2. SweptInfo(u, r)[i] = [dlls_info[i] EXCEPT !.mflags = AUTHMOD_guest]
    BY <1>1, <1>3 DEF SweptInfo
  <2>3. QED
    BY <1>1, <1>3, <2>1, <2>2 DEF SweptCtx, Entry
<1>4. ASSUME NEW v \in User, Good(v)
      PROVE  \E i \in Remote \ Passed(u, r) : Live(i) /\ dlls_info[i].id = v
  <2>1. PICK i \in Remote : Live(i) /\ dlls_info[i].id = v
    BY <1>4 DEF KeyInv, GoodLive
  <2>2. granted[v].until = dlls_info[i].EOL
    BY <2>1 DEF KeyInv, LiveGranted
  <2>3. dlls_info[i].EOL \in Nat /\ now \in Nat
    BY TableFacts DEF KeyInv
  <2>4. ~Expired(i)
    BY <1>4, <2>2, <2>3 DEF Good, Expired
  <2>5. QED
    BY <1>1, <2>1, <2>4
<1>5. QED
  BY <1>1, <1>2, <1>3, <1>4

LEMMA SearchStep ==
  ASSUME KeyInv, NEW u, NEW r \in {Partial, AUTHMOD_user, AUTHMOD_root}, Search(u, r)
  PROVE  KeyInv'
<1>1. TypeOK' /\ UNCHANGED <<dlls_size, now, granted, local>> /\ Remote' = Remote
  BY SearchType DEF KeyInv, Search, Remote
<1>2. \A i \in Index \ Passed(u, r) : dlls_info'[i] = dlls_info[i] /\ dlls_ctx'[i] = dlls_ctx[i]
  BY SweptIs DEF Search
<1>3. \A i \in Passed(u, r) :
        i \in Remote /\ dlls_info'[i].mflags = AUTHMOD_guest /\ dlls_ctx'[i] = Wiped
  BY SweptIs DEF Search
<1>4. Remote \subseteq Index /\ 0 \in Index /\ 1 \in Index /\ 0 \notin Remote /\ 1 \notin Remote
  BY TableFacts DEF KeyInv, Remote
<1>5. AUTHMOD_guest # AUTHMOD_user
  BY DEF AUTHMOD_guest, AUTHMOD_user
<1>6. SizeOK'
  BY <1>1 DEF KeyInv, SizeOK
<1>7. RightsOK'
  BY <1>1, <1>2, <1>3, <1>4 DEF KeyInv, RightsOK
<1>8. LiveUnique'
  BY <1>1, <1>2, <1>3, <1>4, <1>5 DEF KeyInv, LiveUnique
<1>9. LiveGranted'
  BY <1>1, <1>2, <1>3, <1>4, <1>5 DEF KeyInv, LiveGranted, Live
<1>10. GoodLive'
  <2> SUFFICES ASSUME NEW v \in User, Good(v)'
               PROVE  \E i \in Remote' : Live(i)' /\ dlls_info'[i].id = v
    BY DEF GoodLive
  <2>1. Good(v)
    BY <1>1 DEF Good
  <2>2. QED
    BY <1>1, <1>2, <1>4, <2>1, SweptIs DEF Live
<1>11. ExpiredWiped'
  BY <1>1, <1>2, <1>3, <1>4 DEF KeyInv, ExpiredWiped
<1>12. LocalKept'
  BY <1>1, <1>2, <1>3, <1>4 DEF KeyInv, LocalKept
<1>13. QED
  BY <1>1, <1>6, <1>7, <1>8, <1>9, <1>10, <1>11, <1>12 DEF KeyInv

LEMMA CreateStep ==
  ASSUME KeyInv, NoWrap, NEW u \in User, NEW k \in Key, NEW lifetime \in Lifetime,
         auth_create_key(u, k, lifetime), TypeOK'
  PROVE  KeyInv'
<1>1. CASE ~(Found(u, AUTHMOD_user) = NotFound /\ dlls_size < NumElements)
  BY <1>1, SearchStep DEF auth_create_key
<1>2. CASE Found(u, AUTHMOD_user) = NotFound /\ dlls_size < NumElements
  <2> DEFINE n == dlls_size
             passed == Passed(u, AUTHMOD_user)
             entry == [id |-> u, mflags |-> AUTHMOD_user, EOL |-> now + lifetime]
             grant == [key |-> k, until |-> now + lifetime]
  <2>1. n \in Nat /\ n >= 2 /\ n \in Index /\ n \notin Remote
        /\ Remote \subseteq Index /\ 0 \in Index /\ 1 \in Index
        /\ \A i \in Remote : i >= 2
    BY <1>2, TableFacts DEF KeyInv, auth_create_key, Ready, Index, Remote
  <2>2. now + lifetime \in Nat /\ now + lifetime > 0
    <3>1. now \in Nat
      BY TableFacts DEF KeyInv
    <3>2. lifetime \in Nat /\ MinLifetime \in Nat \ {0} /\ lifetime >= MinLifetime
      BY AuthAssumption DEF auth_create_key
    <3>3. QED
      BY <3>1, <3>2
  <2>3. dlls_size' = n + 1 /\ UNCHANGED <<now, local>> /\ Remote' = Remote \cup {n}
    <3>1. dlls_size' = dlls_size + 1 /\ UNCHANGED <<now, local>>
      BY <1>2 DEF auth_create_key
    <3>2. QED
      BY <2>1, <3>1 DEF Remote
  <2>4. granted' = [granted EXCEPT ![u] = grant] /\ granted \in [User -> [key : Key \cup {Wiped}, until : Nat]]
    BY <1>2 DEF auth_create_key, KeyInv, TypeOK
  <2>5. dlls_info'[n] = entry /\ dlls_ctx'[n] = k
        /\ \A i \in Index \ {n} : /\ dlls_info'[i] = SweptInfo(u, AUTHMOD_user)[i]
                                  /\ dlls_ctx'[i] = SweptCtx(u, AUTHMOD_user)[i]
    <3>1. /\ dlls_info' = [SweptInfo(u, AUTHMOD_user) EXCEPT ![n] = entry]
          /\ dlls_ctx' = [SweptCtx(u, AUTHMOD_user) EXCEPT ![n] = k]
      BY <1>2, EndOfLifeType DEF auth_create_key, KeyInv
    <3>2. /\ SweptInfo(u, AUTHMOD_user) \in [Index -> Entry]
          /\ SweptCtx(u, AUTHMOD_user) \in [Index -> Key \cup {Wiped}]
      BY SweptType DEF KeyInv
    <3> HIDE DEF entry, n
    <3>3. QED
      BY <2>1, <3>1, <3>2
  <2>6. \A i \in passed : i \in Remote /\ dlls_info'[i].mflags = AUTHMOD_guest /\ dlls_ctx'[i] = Wiped
    <3>1. \A i \in passed : /\ i \in Remote
                           /\ SweptInfo(u, AUTHMOD_user)[i].mflags = AUTHMOD_guest
                           /\ SweptCtx(u, AUTHMOD_user)[i] = Wiped
      BY SweptIs
    <3> HIDE DEF n, passed, entry
    <3>2. QED
      BY <2>1, <2>5, <3>1
  <2>7. \A i \in Index \ (passed \cup {n}) : dlls_info'[i] = dlls_info[i] /\ dlls_ctx'[i] = dlls_ctx[i]
    BY <2>5, SweptIs
  <2>8. \A i \in Remote : Live(i) /\ dlls_info[i].id = u => i \in passed
    <3>1. Valid(u, AUTHMOD_user) = {}
      <4> SUFFICES ASSUME Valid(u, AUTHMOD_user) # {}
                   PROVE  FALSE
        OBVIOUS
      <4>1. PICK i \in Valid(u, AUTHMOD_user) : TRUE
        OBVIOUS
      <4>2. i \in Remote /\ Live(i) /\ dlls_info[i].id = u /\ ~Expired(i)
        BY <4>1, MatchLive DEF Valid, KeyInv
      <4>3. Found(u, AUTHMOD_user) = i
        BY <4>2, FoundIs DEF KeyInv
      <4>4. QED
        BY <1>2, <4>2, <4>3, <2>1, TableFacts DEF NotFound, KeyInv
    <3>2. AUTHMOD_user # AUTHMOD_root
      BY DEF AUTHMOD_user, AUTHMOD_root
    <3>3. QED
      BY <3>1, <3>2, MatchLive DEF Passed, Valid, KeyInv
  <2>9. AUTHMOD_guest # AUTHMOD_user
    BY DEF AUTHMOD_guest, AUTHMOD_user
  <2>10. \A i \in Remote : Live(i)' =>
           /\ dlls_info'[i] = dlls_info[i] /\ dlls_ctx'[i] = dlls_ctx[i]
           /\ Live(i) /\ dlls_info[i].id # u
    BY <2>1, <2>6, <2>7, <2>8, <2>9 DEF Live
  <2> HIDE DEF n, passed
  <2>11. SizeOK'
    BY <2>1, <2>3 DEF SizeOK
  <2>12. RightsOK'
    BY <2>1, <2>3, <2>5, <2>6, <2>7 DEF KeyInv, RightsOK
  <2>13. LiveUnique'
    <3> SUFFICES ASSUME NEW i \in Remote', NEW j \in Remote', Live(i)', Live(j)',
                        dlls_info'[i].id = dlls_info'[j].id
                 PROVE  i = j
      BY DEF LiveUnique, Live
    <3>1. dlls_info'[n].id = u
      BY <2>5
    <3>2. CASE i \in Remote /\ j \in Remote
      BY <2>10, <3>2 DEF KeyInv, LiveUnique, Live
    <3>3. QED
      BY <2>3, <2>10, <3>1, <3>2
  <2>14. LiveGranted'
    <3> SUFFICES ASSUME NEW i \in Remote', Live(i)'
                 PROVE  /\ dlls_info'[i].id \in User
                        /\ granted'[dlls_info'[i].id] # NoGrant
                        /\ granted'[dlls_info'[i].id].until = dlls_info'[i].EOL
                        /\ granted'[dlls_info'[i].id].key = dlls_ctx'[i]
                        /\ dlls_info'[i].EOL > 0
      BY DEF LiveGranted
    <3>1. CASE i = n
      <4>1. granted'[u] = grant
        BY <2>4
      <4>2. grant # NoGrant
        BY <2>2 DEF NoGrant
      <4>3. QED
        BY <2>2, <2>5, <3>1, <4>1, <4>2
    <3>2. CASE i \in Remote
      <4>1. dlls_info'[i] = dlls_info[i] /\ dlls_ctx'[i] = dlls_ctx[i] /\ Live(i) /\ dlls_info[i].id # u
        BY <2>10, <3>2
      <4>2. dlls_info[i].id \in User
        BY <3>2, <4>1 DEF KeyInv, LiveGranted
      <4>3. granted'[dlls_info[i].id] = granted[dlls_info[i].id]
        BY <2>4, <4>1, <4>2
      <4>4. QED
        BY <3>2, <4>1, <4>3 DEF KeyInv, LiveGranted
    <3>3. QED
      BY <2>3, <3>1, <3>2
  <2>15. GoodLive'
    <3> SUFFICES ASSUME NEW v \in User, Good(v)'
                 PROVE  \E i \in Remote' : Live(i)' /\ dlls_info'[i].id = v
      BY DEF GoodLive
    <3>1. CASE v = u
      BY <2>3, <2>5, <3>1 DEF Live
    <3>2. CASE v # u
      <4>1. granted'[v] = granted[v]
        BY <2>4, <3>2
      <4>2. Good(v)
        BY <2>3, <4>1 DEF Good
      <4>3. PICK i \in Remote \ passed : Live(i) /\ dlls_info[i].id = v
        BY <4>2, SweptIs DEF passed
      <4>4. QED
        BY <2>1, <2>3, <2>7, <4>3 DEF Live
    <3>3. QED
      BY <3>1, <3>2
  <2>16. ExpiredWiped'
    BY <2>1, <2>3, <2>5, <2>6, <2>7, <2>9 DEF KeyInv, ExpiredWiped
  <2>17. LocalKept'
    <3>1. \A i \in {0, 1} : i \in Index \ (passed \cup {n})
      BY <2>1, <2>6
    <3>2. QED
      BY <2>1, <2>3, <2>7, <3>1 DEF KeyInv, LocalKept, n
  <2>18. QED
    BY <2>11, <2>12, <2>13, <2>14, <2>15, <2>16, <2>17 DEF KeyInv
<1>3. QED
  BY <1>1, <1>2

LEMMA RefreshStep ==
  ASSUME KeyInv, NoWrap, NEW u \in User, NEW lifetime \in Lifetime,
         auth_refresh_key(u, lifetime), TypeOK'
  PROVE  KeyInv'
<1> DEFINE i == Found(u, AUTHMOD_user)
<1>1. CASE i = NotFound
  BY <1>1, SearchStep DEF auth_refresh_key
<1>2. CASE i # NotFound
  <2> DEFINE passed == Passed(u, AUTHMOD_user)
  <2>1. /\ i \in Remote /\ Live(i) /\ ~Expired(i) /\ dlls_info[i].id = u
        /\ Remote \subseteq Index /\ i \in Index /\ 0 \in Index /\ 1 \in Index
        /\ 0 \notin Remote /\ 1 \notin Remote
    BY <1>2, FoundOnly, TableFacts DEF KeyInv, Remote
  <2>2. now + lifetime \in Nat /\ now + lifetime > 0
    <3>1. now \in Nat
      BY TableFacts DEF KeyInv
    <3>2. lifetime \in Nat /\ MinLifetime \in Nat \ {0} /\ lifetime >= MinLifetime
      BY AuthAssumption DEF auth_refresh_key
    <3>3. QED
      BY <3>1, <3>2
  <2>3. /\ UNCHANGED <<dlls_size, now, local>> /\ Remote' = Remote
        /\ dlls_info' = [SweptInfo(u, AUTHMOD_user) EXCEPT ![i].EOL = EndOfLife(lifetime)]
        /\ dlls_ctx' = SweptCtx(u, AUTHMOD_user)
        /\ granted' = [granted EXCEPT ![u].until = now + lifetime]
    BY <1>2 DEF auth_refresh_key, Remote
  <2>4. i \notin passed /\ \A j \in passed : j \in Remote /\ j # i
    BY <2>1, MatchLive DEF KeyInv
  <2>5. /\ dlls_info'[i].id = dlls_info[i].id /\ dlls_info'[i].mflags = dlls_info[i].mflags
        /\ dlls_info'[i].EOL = now + lifetime
        /\ \A j \in Index \ {i} : dlls_info'[j] = SweptInfo(u, AUTHMOD_user)[j]
    <3> DEFINE swept == SweptInfo(u, AUTHMOD_user)
    <3>1. swept \in [Index -> Entry]
      BY SweptType DEF KeyInv
    <3>2. EndOfLife(lifetime) = now + lifetime
      BY EndOfLifeType DEF KeyInv
    <3>3. dlls_info' = [swept EXCEPT ![i] = [swept[i] EXCEPT !.EOL = EndOfLife(lifetime)]]
      BY <2>3
    <3>4. swept[i] = dlls_info[i]
      BY <2>1, <2>4, SweptIs
    <3> HIDE DEF swept, i
    <3>5. dlls_info'[i] = [swept[i] EXCEPT !.EOL = EndOfLife(lifetime)] /\ swept[i] \in Entry
      BY <2>1, <3>1, <3>3
    <3>6. \A j \in Index \ {i} : dlls_info'[j] = swept[j]
      BY <3>1, <3>3
    <3>7. QED
      BY <3>2, <3>4, <3>5, <3>6 DEF Entry, swept
  <2>6. \A j \in passed : dlls_info'[j].mflags = AUTHMOD_guest /\ dlls_ctx'[j] = Wiped
    <3>1. \A j \in passed : /\ SweptInfo(u, AUTHMOD_user)[j].mflags = AUTHMOD_guest
                           /\ SweptCtx(u, AUTHMOD_user)[j] = Wiped
      BY SweptIs
    <3> HIDE DEF i, passed
    <3>2. QED
      BY <2>1, <2>3, <2>4, <2>5, <3>1
  <2>7. /\ \A j \in Index \ (passed \cup {i}) : dlls_info'[j] = dlls_info[j]
        /\ \A j \in Index \ passed : dlls_ctx'[j] = dlls_ctx[j]
    BY <2>3, <2>5, SweptIs
  <2>8. AUTHMOD_guest # AUTHMOD_user
    BY DEF AUTHMOD_guest, AUTHMOD_user
  <2>9. \A j \in Remote : Live(j)' /\ j # i =>
          /\ dlls_info'[j] = dlls_info[j] /\ dlls_ctx'[j] = dlls_ctx[j]
          /\ Live(j) /\ dlls_info[j].id # u
    <3>1. \A j \in Remote : Live(j)' /\ j # i =>
            dlls_info'[j] = dlls_info[j] /\ dlls_ctx'[j] = dlls_ctx[j] /\ Live(j)
      BY <2>1, <2>6, <2>7, <2>8 DEF Live
    <3>2. QED
      BY <2>1, <3>1 DEF KeyInv, LiveUnique, Live
  <2>10. granted \in [User -> [key : Key \cup {Wiped}, until : Nat]]
    BY DEF KeyInv, TypeOK
  <2>11. /\ granted'[u].until = now + lifetime
         /\ granted'[u].key = granted[u].key
         /\ granted'[u] # NoGrant
         /\ \A v \in User \ {u} : granted'[v] = granted[v]
    <3>1. granted' = [granted EXCEPT ![u] = [granted[u] EXCEPT !.until = now + lifetime]]
      BY <2>3
    <3>2. granted'[u] = [granted[u] EXCEPT !.until = now + lifetime]
          /\ \A v \in User \ {u} : granted'[v] = granted[v]
      BY <2>10, <3>1
    <3>3. granted'[u].until = now + lifetime /\ granted'[u].key = granted[u].key
      BY <2>10, <3>2
    <3>4. QED
      BY <2>2, <3>2, <3>3 DEF NoGrant
  <2> HIDE DEF i, passed
  <2>12. SizeOK'
    BY <2>3 DEF KeyInv, SizeOK
  <2>13. RightsOK'
    <3> SUFFICES ASSUME NEW j \in Remote
                 PROVE  dlls_info'[j].mflags \in {AUTHMOD_guest, AUTHMOD_user}
      BY <2>3 DEF RightsOK
    <3>1. CASE j \in passed
      BY <2>6, <3>1
    <3>2. CASE j \notin passed
      BY <2>1, <2>5, <2>7, <3>2 DEF KeyInv, RightsOK
    <3>3. QED
      BY <3>1, <3>2
  <2>14. LiveUnique'
    <3> SUFFICES ASSUME NEW j \in Remote', NEW l \in Remote', Live(j)', Live(l)',
                        dlls_info'[j].id = dlls_info'[l].id
                 PROVE  j = l
      BY DEF LiveUnique, Live
    <3>1. dlls_info'[i].id = u
      BY <2>1, <2>5
    <3>2. CASE j # i /\ l # i
      BY <2>3, <2>9, <3>2 DEF KeyInv, LiveUnique, Live
    <3>3. QED
      BY <2>3, <2>9, <3>1, <3>2
  <2>15. LiveGranted'
    <3> SUFFICES ASSUME NEW j \in Remote, Live(j)'
                 PROVE  /\ dlls_info'[j].id \in User
                        /\ granted'[dlls_info'[j].id] # NoGrant
                        /\ granted'[dlls_info'[j].id].until = dlls_info'[j].EOL
                        /\ granted'[dlls_info'[j].id].key = dlls_ctx'[j]
                        /\ dlls_info'[j].EOL > 0
      BY <2>3 DEF LiveGranted
    <3>1. CASE j = i
      <4>1. dlls_info'[i].id = u /\ dlls_ctx'[i] = dlls_ctx[i]
        BY <2>1, <2>4, <2>5, <2>7
      <4>2. granted[u].key = dlls_ctx[i]
        BY <2>1 DEF KeyInv, LiveGranted
      <4>3. QED
        BY <2>2, <2>5, <2>11, <3>1, <4>1, <4>2
    <3>2. CASE j # i
      <4>1. dlls_info'[j] = dlls_info[j] /\ dlls_ctx'[j] = dlls_ctx[j] /\ Live(j) /\ dlls_info[j].id # u
        BY <2>9, <3>2
      <4>2. dlls_info[j].id \in User
        BY <4>1 DEF KeyInv, LiveGranted
      <4>3. granted'[dlls_info[j].id] = granted[dlls_info[j].id]
        BY <2>11, <4>1, <4>2
      <4>4. QED
        BY <4>1, <4>3 DEF KeyInv, LiveGranted
    <3>3. QED
      BY <3>1, <3>2
  <2>16. GoodLive'
    <3> SUFFICES ASSUME NEW v \in User, Good(v)'
                 PROVE  \E j \in Remote' : Live(j)' /\ dlls_info'[j].id = v
      BY DEF GoodLive
    <3>1. CASE v = u
      BY <2>1, <2>3, <2>5, <3>1 DEF Live
    <3>2. CASE v # u
      <4>1. Good(v)
        BY <2>3, <2>11, <3>2 DEF Good
      <4>2. PICK j \in Remote \ passed : Live(j) /\ dlls_info[j].id = v
        BY <4>1, SweptIs DEF passed
      <4>3. j # i
        BY <2>1, <3>2, <4>2
      <4>4. QED
        BY <2>1, <2>3, <2>7, <4>2, <4>3 DEF Live
    <3>3. QED
      BY <3>1, <3>2
  <2>17. ExpiredWiped'
    <3> SUFFICES ASSUME NEW j \in Remote, dlls_info'[j].mflags = AUTHMOD_guest
                 PROVE  dlls_ctx'[j] = Wiped
      BY <2>3 DEF ExpiredWiped
    <3>1. CASE j \in passed
      BY <2>6, <3>1
    <3>2. CASE j \notin passed
      <4>1. j # i
        BY <2>1, <2>5, <2>8 DEF Live
      <4>2. QED
        BY <2>1, <2>7, <3>2, <4>1 DEF KeyInv, ExpiredWiped
    <3>3. QED
      BY <3>1, <3>2
  <2>18. LocalKept'
    <3>1. \A j \in {0, 1} : j \in Index \ (passed \cup {i})
      BY <2>1, <2>4
    <3>2. QED
      BY <2>3, <2>7, <3>1 DEF KeyInv, LocalKept
  <2>19. QED
    BY <2>12, <2>13, <2>14, <2>15, <2>16, <2>17, <2>18 DEF KeyInv
<1>3. QED
  BY <1>1, <1>2

(* What the entries of root and user hold is no concern of remote users.     *)
LEMMA RemoteUntouched ==
  ASSUME KeyInv, TypeOK', SizeOK', LocalKept', Remote' = Remote,
         UNCHANGED <<now, granted>>,
         \A i \in Remote : dlls_info'[i] = dlls_info[i] /\ dlls_ctx'[i] = dlls_ctx[i]
  PROVE  KeyInv'
<1>1. RightsOK'
  BY DEF KeyInv, RightsOK
<1>2. LiveUnique'
  BY DEF KeyInv, LiveUnique
<1>3. LiveGranted'
  BY DEF KeyInv, LiveGranted, Live
<1>4. GoodLive'
  <2>1. \A v \in User : Good(v)' <=> Good(v)
    BY DEF Good
  <2>2. QED
    BY <2>1 DEF KeyInv, GoodLive, Live
<1>5. ExpiredWiped'
  BY DEF KeyInv, ExpiredWiped
<1>6. QED
  BY <1>1, <1>2, <1>3, <1>4, <1>5 DEF KeyInv

LEMMA LoadStep ==
  ASSUME KeyInv, auth_init, TypeOK'
  PROVE  KeyInv'
<1>1. PICK loaded \in SUBSET {0, 1}, k \in [{0, 1} -> Key] :
        /\ dlls_info' = [i \in Index |->
             IF i \in loaded
               THEN [id |-> i, mflags |-> IF i = 0 THEN AUTHMOD_root ELSE AUTHMOD_user, EOL |-> 0]
               ELSE dlls_info[i]]
        /\ dlls_ctx' = [i \in Index |-> IF i \in loaded THEN k[i] ELSE dlls_ctx[i]]
        /\ local' = [i \in {0, 1} |-> IF i \in loaded THEN k[i] ELSE local[i]]
  BY DEF auth_init
<1>2. /\ dlls_size \in Nat /\ Remote \subseteq Index /\ 0 \in Index /\ 1 \in Index
      /\ \A i \in Remote : i \notin {0, 1}
  BY TableFacts DEF KeyInv, Remote
<1>3. dlls_size' = IF dlls_size >= 2 THEN dlls_size ELSE 2
  BY DEF auth_init, Ready
<1>4. SizeOK' /\ Remote' = Remote
  <2>1. CASE dlls_size = 0
    BY <1>3, <2>1 DEF SizeOK, Remote
  <2>2. CASE dlls_size >= 2
    BY <1>3, <2>2 DEF SizeOK, Remote
  <2>3. QED
    BY <2>1, <2>2 DEF KeyInv, SizeOK
<1>5. \A i \in Remote : dlls_info'[i] = dlls_info[i] /\ dlls_ctx'[i] = dlls_ctx[i]
  BY <1>1, <1>2
<1>6. LocalKept'
  <2> SUFFICES ASSUME NEW i \in {0, 1}
               PROVE  /\ dlls_ctx'[i] = local'[i]
                      /\ local'[i] # Wiped => i < dlls_size' /\ dlls_info'[i].id = i
    BY DEF LocalKept
  <2>1. CASE i \in loaded
    BY <1>1, <1>2, <1>3, <2>1
  <2>2. CASE i \notin loaded
    <3>1. dlls_info'[i] = dlls_info[i] /\ dlls_ctx'[i] = dlls_ctx[i] /\ local'[i] = local[i]
      BY <1>1, <1>2, <2>2
    <3>2. i < dlls_size'
      BY <1>2, <1>3
    <3>3. QED
      BY <3>1, <3>2 DEF KeyInv, LocalKept
  <2>3. QED
    BY <2>1, <2>2
<1>7. UNCHANGED <<now, granted>>
  BY DEF auth_init
<1>8. QED
  BY <1>4, <1>5, <1>6, <1>7, RemoteUntouched

LEMMA RefreshLocalStep ==
  ASSUME KeyInv, NEW lifetime \in Lifetime, auth_refresh_local(lifetime), TypeOK'
  PROVE  KeyInv'
<1>1. PICK i \in {0, 1} : dlls_info' = [dlls_info EXCEPT ![i].EOL = EndOfLife(lifetime)]
  <2>1. \A who \in Local : LocalIndex(who, WholeUser) \in {0, 1, NotFound}
    BY DEF LocalIndex
  <2>2. QED
    BY <2>1 DEF auth_refresh_local
<1>2. /\ Remote \subseteq Index /\ 0 \in Index /\ 1 \in Index
      /\ \A j \in Remote : j \notin {0, 1}
  BY TableFacts DEF KeyInv, Remote
<1>3. dlls_info \in [Index -> Entry]
  BY DEF KeyInv, TypeOK, Entry
<1>4. UNCHANGED <<dlls_size, dlls_ctx, now, granted, local>>
  BY DEF auth_refresh_local
<1>5. SizeOK' /\ Remote' = Remote
  BY <1>4 DEF KeyInv, SizeOK, Remote
<1>6. dlls_info' = [dlls_info EXCEPT ![i] = [dlls_info[i] EXCEPT !.EOL = EndOfLife(lifetime)]]
  BY <1>1
<1>7. \A j \in Index : dlls_info'[j].id = dlls_info[j].id
  BY <1>2, <1>3, <1>6 DEF Entry
<1>8. \A j \in Remote : dlls_info'[j] = dlls_info[j]
  BY <1>2, <1>3, <1>6
<1>9. LocalKept'
  BY <1>2, <1>4, <1>7 DEF KeyInv, LocalKept
<1>10. QED
  BY <1>4, <1>5, <1>8, <1>9, RemoteUntouched

(* A deletion renumbers the entries behind the one it removes: index j now   *)
(* shows the entry that was at old[j].                                       *)
LEMMA DeleteStep ==
  ASSUME KeyInv, NEW i \in Index, auth_delete_key(i), TypeOK'
  PROVE  KeyInv'
<1> DEFINE n == dlls_size
           old(j) == IF i <= j THEN j + 1 ELSE j
           emptied == [dlls_info EXCEPT ![i].mflags = FlagInvalid]
           cleared == [dlls_ctx EXCEPT ![i] = Wiped]
           behind  == {j \in Index : i <= j /\ j < dlls_size - 1}
<1>1. /\ i >= 2 /\ i < n /\ dlls_size' = n - 1
      /\ dlls_info' = [j \in Index |-> IF j \in behind THEN emptied[j + 1] ELSE emptied[j]]
      /\ dlls_ctx' = [j \in Index |-> IF j \in behind THEN cleared[j + 1] ELSE cleared[j]]
      /\ granted' = Revoked(i)
      /\ UNCHANGED <<now, local>>
  BY DEF auth_delete_key
<1>2. /\ n \in Nat /\ n <= NumElements /\ NumElements \in Nat /\ i \in Int
      /\ Remote = 2 .. n - 1 /\ Remote' = 2 .. n - 2
      /\ Index = 0 .. NumElements - 1
      /\ i \in Remote
  BY <1>1, TableFacts DEF KeyInv, Remote, Index
<1>3. \A j \in Index \ {i} : emptied[j] = dlls_info[j] /\ cleared[j] = dlls_ctx[j]
  BY DEF KeyInv, TypeOK
<1> HIDE DEF emptied, cleared
<1>4. ASSUME NEW j \in Remote'
      PROVE  /\ old(j) \in Remote /\ old(j) # i
             /\ dlls_info'[j] = dlls_info[old(j)] /\ dlls_ctx'[j] = dlls_ctx[old(j)]
  <2>1. j \in Index /\ old(j) \in Index \ {i} /\ old(j) \in Remote
    BY <1>1, <1>2
  <2>2. j \in behind <=> i <= j
    BY <1>1, <1>2, <2>1
  <2>3. dlls_info'[j] = emptied[old(j)] /\ dlls_ctx'[j] = cleared[old(j)]
    BY <1>1, <2>1, <2>2
  <2>4. QED
    BY <1>3, <2>1, <2>3
<1>5. \A j, l \in Remote' : old(j) = old(l) => j = l
  BY <1>1, <1>2
<1>6. \A l \in Remote \ {i} : \E j \in Remote' : old(j) = l
  <2>1. ASSUME NEW l \in Remote \ {i}
        PROVE  LET j == IF i < l THEN l - 1 ELSE l IN j \in Remote' /\ old(j) = l
    BY <1>1, <1>2
  <2>2. QED
    BY <2>1
<1>7. \A j \in {0, 1} : dlls_info'[j] = dlls_info[j] /\ dlls_ctx'[j] = dlls_ctx[j]
  <2>1. \A j \in {0, 1} : j \in Index \ {i} /\ j \notin behind
    BY <1>1, <1>2
  <2>2. QED
    BY <1>1, <1>3, <2>1
<1>8. \A v \in User : granted'[v] = IF Found(v, AUTHMOD_user) = i THEN NoGrant ELSE granted[v]
  BY <1>1 DEF Revoked
<1> HIDE DEF old, n
<1>9. SizeOK'
  BY <1>1, <1>2 DEF SizeOK
<1>10. RightsOK'
  BY <1>4 DEF KeyInv, RightsOK
<1>11. LiveUnique'
  BY <1>4, <1>5 DEF KeyInv, LiveUnique
<1>12. LiveGranted'
  <2> SUFFICES ASSUME NEW j \in Remote', Live(j)'
               PROVE  /\ dlls_info'[j].id \in User
                      /\ granted'[dlls_info'[j].id] # NoGrant
                      /\ granted'[dlls_info'[j].id].until = dlls_info'[j].EOL
                      /\ granted'[dlls_info'[j].id].key = dlls_ctx'[j]
                      /\ dlls_info'[j].EOL > 0
    BY DEF LiveGranted
  <2> DEFINE v == dlls_info[old(j)].id
  <2>1. old(j) \in Remote /\ old(j) # i /\ Live(old(j))
    BY <1>4 DEF Live
  <2>2. v \in User
    BY <2>1 DEF KeyInv, LiveGranted
  <2>3. Found(v, AUTHMOD_user) # i
    <3> SUFFICES ASSUME Found(v, AUTHMOD_user) = i
                 PROVE  FALSE
      OBVIOUS
    <3>1. i # NotFound
      BY <1>1, <1>2 DEF NotFound
    <3>2. Live(i) /\ dlls_info[i].id = v
      BY <3>1, FoundOnly DEF KeyInv
    <3>3. QED
      BY <1>2, <2>1, <3>2 DEF KeyInv, LiveUnique, Live
  <2>4. granted'[v] = granted[v]
    BY <1>8, <2>2, <2>3
  <2>5. QED
    BY <1>4, <2>1, <2>4 DEF KeyInv, LiveGranted
<1>13. GoodLive'
  <2> SUFFICES ASSUME NEW v \in User, Good(v)'
               PROVE  \E j \in Remote' : Live(j)' /\ dlls_info'[j].id = v
    BY DEF GoodLive
  <2>1. Found(v, AUTHMOD_user) # i /\ granted'[v] = granted[v]
    BY <1>8 DEF Good
  <2>2. Good(v)
    BY <1>1, <2>1 DEF Good
  <2>3. PICK l \in Remote : Live(l) /\ dlls_info[l].id = v /\ ~Expired(l)
    <3>1. PICK l \in Remote : Live(l) /\ dlls_info[l].id = v
      BY <2>2 DEF KeyInv, GoodLive
    <3>2. granted[v].until = dlls_info[l].EOL
      BY <3>1 DEF KeyInv, LiveGranted
    <3>3. dlls_info[l].EOL \in Nat /\ now \in Nat
      BY TableFacts DEF KeyInv
    <3>4. ~Expired(l)
      BY <2>2, <3>2, <3>3 DEF Good, Expired
    <3>5. QED
      BY <3>1, <3>4
  <2>4. Found(v, AUTHMOD_user) = l
    BY <2>3, FoundIs DEF KeyInv
  <2>5. PICK j \in Remote' : old(j) = l
    BY <1>6, <2>1, <2>4
  <2>6. QED
    BY <1>4, <2>3, <2>5 DEF Live
<1>14. ExpiredWiped'
  BY <1>4 DEF KeyInv, ExpiredWiped
<1>15. LocalKept'
  <2>1. \A j \in {0, 1} : j < dlls_size'
    BY <1>1, <1>2
  <2>2. QED
    BY <1>1, <1>7, <2>1 DEF KeyInv, LocalKept
<1>16. QED
  BY <1>9, <1>10, <1>11, <1>12, <1>13, <1>14, <1>15 DEF KeyInv

LEMMA DeinitStep ==
  ASSUME KeyInv, auth_deinit, TypeOK'
  PROVE  KeyInv'
<1>1. /\ Remote \subseteq Index /\ 0 \in Index /\ 1 \in Index
      /\ Remote' = Remote /\ dlls_size' = dlls_size
  BY TableFacts DEF KeyInv, auth_deinit, Remote
<1>2. /\ \A i \in Index : dlls_info'[i] = Zeroed /\ dlls_ctx'[i] = Wiped
      /\ \A u \in User : granted'[u] = NoGrant
      /\ \A i \in {0, 1} : local'[i] = Wiped
  BY DEF auth_deinit
<1>3. Zeroed.mflags = AUTHMOD_guest /\ AUTHMOD_guest # AUTHMOD_user
  BY DEF Zeroed, AUTHMOD_guest, AUTHMOD_user
<1>4. SizeOK' /\ RightsOK' /\ LiveUnique' /\ ExpiredWiped'
  BY <1>1, <1>2, <1>3 DEF KeyInv, SizeOK, RightsOK, LiveUnique, ExpiredWiped
<1>5. LiveGranted'
  BY <1>1, <1>2, <1>3 DEF LiveGranted, Live
<1>6. GoodLive'
  BY <1>2 DEF GoodLive, Good
<1>7. LocalKept'
  BY <1>1, <1>2 DEF LocalKept
<1>8. QED
  BY <1>4, <1>5, <1>6, <1>7 DEF KeyInv

LEMMA TickStep ==
  ASSUME KeyInv, tick, TypeOK'
  PROVE  KeyInv'
<1>1. now \in Int /\ now' = now + 1 /\ UNCHANGED <<dlls_size, dlls_info, dlls_ctx, granted, local>>
  BY TableFacts DEF KeyInv, tick
<1>2. \A u \in User : Good(u)' => Good(u)
  <2> SUFFICES ASSUME NEW u \in User, Good(u)'
               PROVE  Good(u)
    OBVIOUS
  <2>1. granted[u].until \in Nat
    BY DEF KeyInv, TypeOK
  <2>2. QED
    BY <1>1, <2>1 DEF Good
<1>3. GoodLive'
  BY <1>1, <1>2 DEF KeyInv, GoodLive, Live, Remote
<1>4. SizeOK' /\ RightsOK' /\ LiveUnique' /\ LiveGranted' /\ ExpiredWiped' /\ LocalKept'
  BY <1>1 DEF KeyInv, SizeOK, RightsOK, LiveUnique, LiveGranted, ExpiredWiped, LocalKept,
              Live, Remote
<1>5. QED
  BY <1>3, <1>4 DEF KeyInv

LEMMA KeyStep ==
  ASSUME KeyInv, NoWrap, [Next]_vars
  PROVE  KeyInv'
<1>1. TypeOK'
  BY TypeStep DEF KeyInv
<1>2. CASE auth_init
  BY <1>1, <1>2, LoadStep
<1>3. CASE auth_deinit
  BY <1>1, <1>3, DeinitStep
<1>4. ASSUME NEW u \in User, NEW mod \in Modes, auth_search_user(u, mod)
      PROVE  KeyInv'
  BY <1>4, RequiredLevels, SearchStep DEF auth_search_user
<1>5. ASSUME NEW u \in User, NEW req \in Modes, NEW rw \in Modes, auth_check(u, req, rw)
      PROVE  KeyInv'
  BY <1>5, RequiredLevels, SearchStep DEF auth_check
<1>6. ASSUME NEW u \in User, NEW k \in Key, NEW lifetime \in Lifetime,
             auth_create_key(u, k, lifetime)
      PROVE  KeyInv'
  BY <1>1, <1>6, CreateStep
<1>7. ASSUME NEW u \in User, NEW lifetime \in Lifetime, auth_refresh_key(u, lifetime)
      PROVE  KeyInv'
  BY <1>1, <1>7, RefreshStep
<1>8. ASSUME NEW lifetime \in Lifetime, auth_refresh_local(lifetime)
      PROVE  KeyInv'
  BY <1>1, <1>8, RefreshLocalStep
<1>9. ASSUME NEW i \in Index, auth_delete_key(i)
      PROVE  KeyInv'
  BY <1>1, <1>9, DeleteStep
<1>10. CASE tick
  BY <1>1, <1>10, TickStep
<1>11. CASE UNCHANGED vars
  BY <1>11 DEF vars, KeyInv, TypeOK, SizeOK, RightsOK, LiveUnique, LiveGranted, GoodLive,
               ExpiredWiped, LocalKept, Live, Good, Remote
<1>12. QED
  BY <1>2, <1>3, <1>4, <1>5, <1>6, <1>7, <1>8, <1>9, <1>10, <1>11 DEF Next

LEMMA KeyInit ==
  ASSUME Init
  PROVE  KeyInv
<1>1. TypeOK
  BY AuthAssumption DEF Init, TypeOK, Zeroed, NoGrant, Index
<1>2. Remote = {} /\ dlls_size = 0 /\ \A u \in User : ~Good(u)
  BY DEF Init, Remote, Good
<1>3. LocalKept
  <2>1. 0 \in Index /\ 1 \in Index
    BY <1>1, TableFacts
  <2>2. QED
    BY <2>1 DEF Init, LocalKept
<1>4. QED
  BY <1>1, <1>2, <1>3 DEF KeyInv, SizeOK, RightsOK, LiveUnique, LiveGranted, GoodLive, ExpiredWiped

LEMMA KeyInvariant ==
  ASSUME NoWrap
  PROVE  Spec => []KeyInv
<1>1. Init => KeyInv
  BY KeyInit
<1>2. KeyInv /\ [Next]_vars => KeyInv'
  BY KeyStep
<1>3. QED
  BY <1>1, <1>2, PTL DEF Spec

(* For as long as the clock does not wrap around, a search finds a remote    *)
(* user's key until the end of its life and never after, at whatever index   *)
(* it came to be (auth.c:572, auth.c:869).                                   *)
THEOREM SearchExact ==
  ASSUME NoWrap
  PROVE  Spec => []LookupExact
<1>1. KeyInv => LookupExact
  BY Exact
<1>2. QED
  BY <1>1, KeyInvariant, PTL

(* auth_create_key gives no ID a second key, though it leaves expired        *)
(* entries in the table (auth.c:857).                                        *)
THEOREM OneKey ==
  ASSUME NoWrap
  PROVE  Spec => []LiveUnique
<1>1. KeyInv => LiveUnique
  BY DEF KeyInv
<1>2. QED
  BY <1>1, KeyInvariant, PTL

(* An entry whose key expired keeps no context, wherever deletions move it   *)
(* (auth.c:583).                                                             *)
THEOREM NothingLeft ==
  ASSUME NoWrap
  PROVE  Spec => []ExpiredWiped
<1>1. KeyInv => ExpiredWiped
  BY DEF KeyInv
<1>2. QED
  BY <1>1, KeyInvariant, PTL

(* No call made for a remote key reaches the keys of root and user           *)
(* (auth.c:882).                                                             *)
THEOREM LocalKeysKept ==
  ASSUME NoWrap
  PROVE  Spec => []LocalKept
<1>1. KeyInv => LocalKept
  BY DEF KeyInv
<1>2. QED
  BY <1>1, KeyInvariant, PTL

LEMMA Granted ==
  ASSUME KeyInv
  PROVE  AccessExact
<1> SUFFICES ASSUME NEW u \in User, NEW req \in Modes, NEW rw \in Modes,
                    req.guest \cap rw.guest = {}
             PROVE  Access(RemoteIndex(u, req), req, rw) =
                      IF Good(u) THEN req.user \cap rw.user ELSE {}
  BY DEF AccessExact, Access
<1> DEFINE r == Required(req)
<1>1. CASE req.user = {}
  <2>1. r \in {AUTHMOD_guest, AUTHMOD_root}
    BY <1>1 DEF Required, Right
  <2>2. RemoteIndex(u, req) = NotFound
    <3>1. CASE r = AUTHMOD_guest
      BY <3>1 DEF RemoteIndex
    <3>2. CASE r = AUTHMOD_root
      <4>1. Match(u, r) = {}
        <5> SUFFICES ASSUME NEW i \in Match(u, r)
                     PROVE  FALSE
          OBVIOUS
        <5>1. i \in Remote /\ dlls_info[i].mflags \in {AUTHMOD_guest, AUTHMOD_user}
          BY DEF Match, KeyInv, RightsOK
        <5>2. dlls_info[i].mflags % 64 >= AUTHMOD_root
          BY <3>2 DEF Match
        <5>3. QED
          BY <5>1, <5>2, Levels
      <4>2. QED
        BY <2>1, <4>1 DEF RemoteIndex, Found, Valid
    <3>3. QED
      BY <2>1, <3>1, <3>2
  <2>3. QED
    BY <1>1, <2>2 DEF Access
<1>2. CASE req.user # {}
  <2>1. r \in {Partial, AUTHMOD_user} /\ r # AUTHMOD_guest
    BY <1>2 DEF Required, Partial, AUTHMOD_user, AUTHMOD_guest
  <2>2. RemoteIndex(u, req) = Found(u, r)
    BY <2>1 DEF RemoteIndex
  <2>3. CASE Good(u)
    <3>1. PICK i \in Remote : Live(i) /\ dlls_info[i].id = u
      BY <2>3 DEF KeyInv, GoodLive
    <3>2. granted[u].until = dlls_info[i].EOL
      BY <3>1 DEF KeyInv, LiveGranted
    <3>3. dlls_info[i].EOL \in Nat /\ now \in Nat /\ i \in Int /\ i >= 2
      BY TableFacts DEF KeyInv, Remote
    <3>4. ~Expired(i)
      BY <2>3, <3>2, <3>3 DEF Expired, Good
    <3>5. Found(u, r) = i
      BY <2>1, <3>1, <3>4, FoundIs DEF KeyInv
    <3>6. dlls_info[i].mflags # AUTHMOD_root /\ i # NotFound
      BY <3>1, <3>3 DEF Live, AUTHMOD_user, AUTHMOD_root, NotFound
    <3>7. QED
      BY <2>2, <2>3, <3>5, <3>6 DEF Access
  <2>4. CASE ~Good(u)
    <3>1. Found(u, r) = NotFound
      <4> SUFFICES ASSUME Found(u, r) # NotFound
                   PROVE  FALSE
        OBVIOUS
      <4> DEFINE i == Found(u, r)
      <4>1. i \in Remote /\ Live(i) /\ ~Expired(i) /\ dlls_info[i].id = u
        BY <2>1, FoundOnly DEF KeyInv
      <4>2. granted[u] # NoGrant /\ granted[u].until = dlls_info[i].EOL /\ dlls_info[i].EOL > 0
        BY <4>1 DEF KeyInv, LiveGranted
      <4>3. dlls_info[i].EOL \in Nat /\ now \in Nat
        BY <4>1, TableFacts DEF KeyInv
      <4>4. now < granted[u].until
        BY <4>1, <4>2, <4>3 DEF Expired
      <4>5. QED
        BY <2>4, <4>2, <4>4 DEF Good
    <3>2. QED
      BY <2>2, <2>4, <3>1 DEF Access
  <2>5. QED
    BY <2>3, <2>4
<1>3. QED
  BY <1>1, <1>2

(* What auth_check grants a remote user is what the guest may have, or what   *)
(* the user may have while the key is good (auth.c:718).                     *)
THEOREM CheckExact ==
  ASSUME NoWrap
  PROVE  Spec => []AccessExact
<1>1. KeyInv => AccessExact
  BY Granted
<1>2. QED
  BY <1>1, KeyInvariant, PTL
=============================================================================
