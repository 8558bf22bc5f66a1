-------------------------------- MODULE Auth --------------------------------
(***************************************************************************)
(* The table of keys of otlib/auth.c, statically allocated: NumElements     *)
(* entries of an ID, its rights, its end of life and its key context, of    *)
(* which the first two are the root and the user of the device and the rest *)
(* belong to remote users.  Keys expire; an expired key is found out, and   *)
(* wiped, by the next search for its ID; deleting a key moves the keys      *)
(* behind it.  The clock is time_get_utc.                                   *)
(***************************************************************************)
EXTENDS Integers, FiniteSets

CONSTANTS
  User,         (* The 64-bit IDs of remote users.                            *)
  Key,          (* Key contexts, as EAXdrv_init expands them,                 *)
  Wiped,        (* and the context memset leaves.                             *)
  NumElements,  (* AUTH_NUM_ELEMENTS.                                         *)
  MinLifetime,  (* AUTH_MIN_LIFETIME.                                         *)
  Lifetime,     (* The lifetimes callers ask for,                             *)
  Modes,        (* and the modes of files and of accesses to them.            *)
  TimeMod,      (* 2^32: one more than the last time.                         *)
  MaxNow        (* Bound on the clock.                                        *)

AUTHMOD_guest == 0
AUTHMOD_user  == 7
AUTHMOD_root  == 56
FlagInvalid   == 128

NotFound == -1
Index    == 0 .. NumElements - 1

(* The modes of files: who may read, write and execute. *)
Right == {"r", "w", "x"}
Mode  == [user : SUBSET Right, guest : SUBSET Right]
WholeUser == [user |-> Right, guest |-> {}]

ASSUME AuthAssumption ==
  /\ User \subseteq Nat
  /\ Wiped \notin Key
  /\ NumElements \in Nat /\ NumElements >= 2
  /\ MinLifetime \in Nat \ {0}
  /\ Lifetime \subseteq Nat
  /\ Modes \subseteq Mode
  /\ MaxNow \in Nat /\ TimeMod \in Nat
  /\ MaxNow < TimeMod

VARIABLES
  dlls_size,  (* How many entries are in use.                                 *)
  dlls_info,  (* ID, rights and end of life of each entry,                    *)
  dlls_ctx,   (* and its key context.                                         *)
  now,        (* What time_get_utc returns.                                   *)
  granted,    (* The last key each remote user was given and not refused:     *)
              (* its context and the time it is good until.                   *)
  local       (* The keys of root and user that auth_init loaded last.        *)

vars == <<dlls_size, dlls_info, dlls_ctx, now, granted, local>>

NoGrant == [key |-> Wiped, until |-> 0]

(* What memset leaves of an entry. *)
Zeroed == [id |-> 0, mflags |-> AUTHMOD_guest, EOL |-> 0]

(* Every entry, end of life and context keeps its type, and no more entries *)
(* are in use than the table has.                                           *)
TypeOK ==
  /\ dlls_size \in 0 .. NumElements
  /\ dlls_info \in [Index -> [id : Nat,
                              mflags : {AUTHMOD_guest, AUTHMOD_user, AUTHMOD_root, FlagInvalid},
                              EOL : 0 .. TimeMod - 1]]
  /\ dlls_ctx \in [Index -> Key \cup {Wiped}]
  /\ now \in 0 .. MaxNow
  /\ granted \in [User -> [key : Key \cup {Wiped}, until : Nat]]
  /\ local \in [{0, 1} -> Key \cup {Wiped}]

Init ==
  /\ dlls_size = 0
  /\ dlls_info = [i \in Index |-> Zeroed]
  /\ dlls_ctx = [i \in Index |-> Wiped]
  /\ now = 0
  /\ granted = [u \in User |-> NoGrant]
  /\ local = [i \in {0, 1} |-> Wiped]

-----------------------------------------------------------------------------
(* A mode asks for the key of the guest, of the user (in part or in full)    *)
(* or of root.                                                              *)
Partial == 1

(* Mutant: the bits of the mode are not shifted. *)
Required_NoShift(mod) ==
  IF mod.user = {} /\ mod.guest = {} THEN AUTHMOD_root
  ELSE IF mod.guest = Right THEN AUTHMOD_user
  ELSE IF mod.guest = {} THEN AUTHMOD_guest
  ELSE Partial

Required(mod) ==
  IF mod.user = {} /\ mod.guest = {} THEN AUTHMOD_root
  ELSE IF mod.user = Right THEN AUTHMOD_user
  ELSE IF mod.user = {} THEN AUTHMOD_guest
  ELSE Partial

-----------------------------------------------------------------------------
(* The linear search: the entries of the ID with enough rights, in order.   *)
Remote == 2 .. dlls_size - 1

Expired(i) == dlls_info[i].EOL # 0 /\ dlls_info[i].EOL <= now

Match(u, reqmod) ==
  {i \in Remote : dlls_info[i].id = u /\ dlls_info[i].mflags % 64 >= reqmod}

Valid(u, reqmod) == {i \in Match(u, reqmod) : ~Expired(i)}

(* The answer of sub_search_user: the first entry that has not expired. *)
Found(u, reqmod) ==
  IF Valid(u, reqmod) = {}
    THEN NotFound
    ELSE CHOOSE i \in Valid(u, reqmod) : \A j \in Valid(u, reqmod) : i <= j

(* Its side effect: the expired entries the search passes on its way. *)
Passed(u, reqmod) ==
  {i \in Match(u, reqmod) : Expired(i) /\ \A j \in Valid(u, reqmod) : i < j}

SweptInfo(u, reqmod) ==
  [i \in Index |-> IF i \in Passed(u, reqmod)
                     THEN [dlls_info[i] EXCEPT !.mflags = AUTHMOD_guest]
                     ELSE dlls_info[i]]

(* Mutant: the context of an expired key is left. *)
SweptCtx_Left(u, reqmod) == dlls_ctx

SweptCtx(u, reqmod) ==
  [i \in Index |-> IF i \in Passed(u, reqmod) THEN Wiped ELSE dlls_ctx[i]]

(* auth_search_user for a remote user, *)
RemoteIndex(u, mod) ==
  IF Required(mod) = AUTHMOD_guest THEN NotFound ELSE Found(u, Required(mod))

Local == {"root", "user", "guest"}

(* and for the three users of the device itself, who are not searched for. *)
LocalIndex(who, mod) ==
  IF \/ Required(mod) = AUTHMOD_guest
     \/ Required(mod) = AUTHMOD_root /\ who # "root"
     \/ Required(mod) = AUTHMOD_user /\ who # "user"
    THEN NotFound
    ELSE CASE who = "root" -> 0 [] who = "user" -> 1 [] OTHER -> NotFound

(* The rights auth_check returns for the user at index i, none for no access. *)
Access(i, req, rw) ==
  LET byGuest == req.guest \cap rw.guest
  IN IF byGuest # {} THEN byGuest
     ELSE IF i = NotFound THEN {}
     ELSE IF i < dlls_size /\ dlls_info[i].mflags = AUTHMOD_root THEN rw.user \cup rw.guest
     ELSE req.user \cap rw.user

-----------------------------------------------------------------------------
Ready == dlls_size >= 2

(* Either key file may be missing; the remote keys stay. *)
auth_init ==
  /\ dlls_size' = IF Ready THEN dlls_size ELSE 2
  /\ \E loaded \in SUBSET {0, 1} : \E k \in [{0, 1} -> Key] :
       /\ dlls_info' = [i \in Index |->
            IF i \in loaded
              THEN [id |-> i, mflags |-> IF i = 0 THEN AUTHMOD_root ELSE AUTHMOD_user, EOL |-> 0]
              ELSE dlls_info[i]]
       /\ dlls_ctx' = [i \in Index |-> IF i \in loaded THEN k[i] ELSE dlls_ctx[i]]
       /\ local' = [i \in {0, 1} |-> IF i \in loaded THEN k[i] ELSE local[i]]
  /\ UNCHANGED <<now, granted>>

(* The table is cleared; its size stays. *)
auth_deinit ==
  /\ dlls_info' = [i \in Index |-> Zeroed]
  /\ dlls_ctx' = [i \in Index |-> Wiped]
  /\ granted' = [u \in User |-> NoGrant]
  /\ local' = [i \in {0, 1} |-> Wiped]
  /\ UNCHANGED <<dlls_size, now>>

Search(u, reqmod) ==
  /\ dlls_info' = SweptInfo(u, reqmod)
  /\ dlls_ctx' = SweptCtx(u, reqmod)
  /\ UNCHANGED <<dlls_size, now, granted, local>>

(* auth_search_user, auth_isroot, auth_isuser and auth_find_keyindex for a   *)
(* remote user: nothing but the search.                                     *)
auth_search_user(u, mod) ==
  /\ Ready
  /\ Required(mod) # AUTHMOD_guest
  /\ Search(u, Required(mod))

(* auth_check, which searches when the guest has no right to offer. *)
auth_check(u, req, rw) ==
  /\ Ready
  /\ req.guest \cap rw.guest = {}
  /\ Required(req) # AUTHMOD_guest
  /\ Search(u, Required(req))

EndOfLife(lifetime) == (now + lifetime) % TimeMod

(* Mutant: the table may be one entry longer. *)
auth_create_key_PastEnd(u, k, lifetime) ==
  /\ Ready
  /\ lifetime >= MinLifetime
  /\ IF Found(u, AUTHMOD_user) = NotFound /\ dlls_size <= NumElements
       THEN /\ dlls_size' = dlls_size + 1
            /\ dlls_info' = [SweptInfo(u, AUTHMOD_user) EXCEPT
                 ![dlls_size] = [id |-> u, mflags |-> AUTHMOD_user, EOL |-> EndOfLife(lifetime)]]
            /\ dlls_ctx' = [SweptCtx(u, AUTHMOD_user) EXCEPT ![dlls_size] = k]
            /\ granted' = [granted EXCEPT ![u] = [key |-> k, until |-> now + lifetime]]
            /\ UNCHANGED <<now, local>>
       ELSE Search(u, AUTHMOD_user)

(* Mutant: an ID that has a key is given another. *)
auth_create_key_NoSearch(u, k, lifetime) ==
  /\ Ready
  /\ lifetime >= MinLifetime
  /\ dlls_size < NumElements
  /\ dlls_size' = dlls_size + 1
  /\ dlls_info' = [dlls_info EXCEPT
       ![dlls_size] = [id |-> u, mflags |-> AUTHMOD_user, EOL |-> EndOfLife(lifetime)]]
  /\ dlls_ctx' = [dlls_ctx EXCEPT ![dlls_size] = k]
  /\ granted' = [granted EXCEPT ![u] = [key |-> k, until |-> now + lifetime]]
  /\ UNCHANGED <<now, local>>

(* 254 when the ID has a key, 255 when the table is full: both after the     *)
(* search has wiped what it passed.                                         *)
auth_create_key(u, k, lifetime) ==
  /\ Ready
  /\ lifetime >= MinLifetime
  /\ IF Found(u, AUTHMOD_user) = NotFound /\ dlls_size < NumElements
       THEN /\ dlls_size' = dlls_size + 1
            /\ dlls_info' = [SweptInfo(u, AUTHMOD_user) EXCEPT
                 ![dlls_size] = [id |-> u, mflags |-> AUTHMOD_user, EOL |-> EndOfLife(lifetime)]]
            /\ dlls_ctx' = [SweptCtx(u, AUTHMOD_user) EXCEPT ![dlls_size] = k]
            /\ granted' = [granted EXCEPT ![u] = [key |-> k, until |-> now + lifetime]]
            /\ UNCHANGED <<now, local>>
       ELSE Search(u, AUTHMOD_user)

auth_refresh_key(u, lifetime) ==
  /\ Ready
  /\ lifetime >= MinLifetime
  /\ LET i == Found(u, AUTHMOD_user)
     IN IF i = NotFound
          THEN Search(u, AUTHMOD_user)
          ELSE /\ dlls_info' = [SweptInfo(u, AUTHMOD_user) EXCEPT ![i].EOL = EndOfLife(lifetime)]
               /\ dlls_ctx' = SweptCtx(u, AUTHMOD_user)
               /\ granted' = [granted EXCEPT ![u].until = now + lifetime]
               /\ UNCHANGED <<dlls_size, now, local>>

(* The same call for the user of the device; for its root, and its guest, the *)
(* search answers NotFound.                                                  *)
auth_refresh_local(lifetime) ==
  /\ Ready
  /\ lifetime >= MinLifetime
  /\ \E i \in {LocalIndex(who, WholeUser) : who \in Local} \ {NotFound} :
       dlls_info' = [dlls_info EXCEPT ![i].EOL = EndOfLife(lifetime)]
  /\ UNCHANGED <<dlls_size, dlls_ctx, now, granted, local>>

(* Whose grant a deletion ends: the user a search would send to that entry. *)
Revoked(i) == [u \in User |-> IF Found(u, AUTHMOD_user) = i THEN NoGrant ELSE granted[u]]

(* Mutant: the contexts are not moved. *)
auth_delete_key_InfoOnly(i) ==
  LET emptied == [dlls_info EXCEPT ![i].mflags = FlagInvalid]
      cleared == [dlls_ctx EXCEPT ![i] = Wiped]
      behind  == {j \in Index : i <= j /\ j < dlls_size - 1}
  IN /\ i >= 2 /\ i < dlls_size
     /\ dlls_size' = dlls_size - 1
     /\ dlls_info' = [j \in Index |-> IF j \in behind THEN emptied[j + 1] ELSE emptied[j]]
     /\ dlls_ctx' = cleared
     /\ granted' = Revoked(i)
     /\ UNCHANGED <<now, local>>

(* Mutant: the keys of the device are not refused. *)
auth_delete_key_Any(i) ==
  LET emptied == [dlls_info EXCEPT ![i].mflags = FlagInvalid]
      cleared == [dlls_ctx EXCEPT ![i] = Wiped]
      behind  == {j \in Index : i <= j /\ j < dlls_size - 1}
  IN /\ i < dlls_size
     /\ dlls_size' = dlls_size - 1
     /\ dlls_info' = [j \in Index |-> IF j \in behind THEN emptied[j + 1] ELSE emptied[j]]
     /\ dlls_ctx' = [j \in Index |-> IF j \in behind THEN cleared[j + 1] ELSE cleared[j]]
     /\ granted' = Revoked(i)
     /\ UNCHANGED <<now, local>>

(* Wipe the entry, then move the entries behind it; the last one is copied, *)
(* not cleared.                                                             *)
auth_delete_key(i) ==
  LET emptied == [dlls_info EXCEPT ![i].mflags = FlagInvalid]
      cleared == [dlls_ctx EXCEPT ![i] = Wiped]
      behind  == {j \in Index : i <= j /\ j < dlls_size - 1}
  IN /\ i >= 2 /\ i < dlls_size
     /\ dlls_size' = dlls_size - 1
     /\ dlls_info' = [j \in Index |-> IF j \in behind THEN emptied[j + 1] ELSE emptied[j]]
     /\ dlls_ctx' = [j \in Index |-> IF j \in behind THEN cleared[j + 1] ELSE cleared[j]]
     /\ granted' = Revoked(i)
     /\ UNCHANGED <<now, local>>

tick ==
  /\ now < MaxNow
  /\ now' = now + 1
  /\ UNCHANGED <<dlls_size, dlls_info, dlls_ctx, granted, local>>

Next ==
  \/ auth_init
  \/ auth_deinit
  \/ \E u \in User, mod \in Modes : auth_search_user(u, mod)
  \/ \E u \in User, req \in Modes, rw \in Modes : auth_check(u, req, rw)
  \/ \E u \in User, k \in Key, lifetime \in Lifetime : auth_create_key(u, k, lifetime)
  \/ \E u \in User, lifetime \in Lifetime : auth_refresh_key(u, lifetime)
  \/ \E lifetime \in Lifetime : auth_refresh_local(lifetime)
  \/ \E i \in Index : auth_delete_key(i)
  \/ tick

Spec == Init /\ [][Next]_vars

-----------------------------------------------------------------------------
(* Until its end of life the last key a remote user was given is the one a   *)
(* search finds, at whatever index deletions, expiries and re-loads of the   *)
(* device's keys have left it, and afterwards none is found (auth.c:572).    *)
Good(u) == granted[u] # NoGrant /\ now < granted[u].until

LookupExact ==
  \A u \in User :
    LET i == Found(u, AUTHMOD_user)
    IN IF Good(u) THEN i # NotFound /\ dlls_ctx[i] = granted[u].key
                  ELSE i = NotFound

(* No two entries are in use for one ID, though expired ones may be left     *)
(* ("ID's must be unique", auth.c:580).                                      *)
LiveUnique ==
  \A i, j \in Remote :
    /\ dlls_info[i].mflags = AUTHMOD_user
    /\ dlls_info[j].mflags = AUTHMOD_user
    /\ dlls_info[i].id = dlls_info[j].id
    => i = j

(* An entry without rights keeps no key: what an expiry took away does not   *)
(* come back when entries move (auth.c:583).                                 *)
ExpiredWiped ==
  \A i \in Remote : dlls_info[i].mflags = AUTHMOD_guest => dlls_ctx[i] = Wiped

(* The keys of the device stay as auth_init last loaded them, whatever       *)
(* remote keys come and go (auth.c:876).                                     *)
LocalKept ==
  \A i \in {0, 1} :
    /\ dlls_ctx[i] = local[i]
    /\ local[i] # Wiped => i < dlls_size /\ dlls_info[i].id = i

(* What auth_check grants a remote user is what the mode of the file gives   *)
(* the guest or, with a key that is still good, the user: no more, no less.  *)
AccessExact ==
  Ready => \A u \in User : \A req, rw \in Modes :
    Access(RemoteIndex(u, req), req, rw) =
      IF req.guest \cap rw.guest # {} THEN req.guest \cap rw.guest
      ELSE IF Good(u) THEN req.user \cap rw.user
      ELSE {}

=============================================================================
