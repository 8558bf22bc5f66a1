-------------------------------- MODULE Otfs --------------------------------
(***************************************************************************)
(* The group of filesystems (main/otfs.c over otlib/veelite_multifs.c): a   *)
(* Judy array from a 64-bit FS ID to the memory base of the filesystem, and *)
(* one context, fsram, which every file call of Veelite goes through.       *)
(*                                                                          *)
(* The Judy array keeps a cursor, the key of its last successful lookup,    *)
(* which the iterator advances and otfs_activeuid reads.  File calls are    *)
(* reduced to opening, writing one datum and closing: Veelite models them.  *)
(***************************************************************************)
EXTENDS Integers, FiniteSets

CONSTANTS
  FSID,      (* 64-bit filesystem IDs, ordered as the Judy array orders them. *)
  NoID,
  Base,      (* Blocks of memory that malloc may return.                      *)
  NullBase,
  Client,    (* The places of the application that keep a vlFILE pointer.     *)
  VLFPS,     (* Size of the table of file pointers.                           *)
  Value,     (* The data of a filesystem, as far as it is told apart.         *)
  Default    (* The data otfs_load_defaults copies into a new filesystem.     *)

Slot == 0 .. VLFPS - 1
NoFp == -1

ASSUME OtfsAssumption ==
  /\ FSID \subseteq Nat
  /\ NoID \notin FSID
  /\ NullBase \notin Base
  /\ VLFPS \in 1 .. 7
  /\ Default \in Value

VARIABLES
  ready,    (* Between otfs_init and otfs_deinit.                              *)
  fstab,    (* The Judy array: the base of each member.                        *)
  cursor,   (* The key judy_key returns; NoID before the first.                *)
  fsram,    (* The base all file calls go through.                             *)
  live,     (* The blocks allocated and not freed.                             *)
  own,      (* The blocks the application answers for: not in the group.       *)
  mem,      (* The data in each block.                                         *)
  open,     (* The entries of the table of file pointers in use.               *)
  header,   (* The entries used since vl_init, whose header is not NULL_vaddr. *)
  held,     (* The file pointer each place of the application keeps.           *)
  home,     (* The context in which it opened it.                              *)
  keys,     (* The block whose root and user key files auth.c last loaded.     *)
  ctx,      (* The member checked out, by what the calls returned.             *)
  walk,     (* The application's iteration: off, on, or done,                  *)
  visited,  (* and the IDs it was given.                                       *)
  fault     (* The undefined behaviour the program ran into, if any.           *)

group == <<ready, fstab, cursor>>
files == <<open, header, held, home>>
blocks == <<live, own>>
vars  == <<group, fsram, blocks, mem, files, keys, ctx, walk, visited, fault>>

Members == DOMAIN fstab
Bases   == {fstab[i] : i \in Members}

TypeOK ==
  /\ ready \in BOOLEAN
  /\ Members \subseteq FSID /\ Bases \subseteq Base
  /\ cursor \in FSID \cup {NoID}
  /\ fsram \in Base \cup {NullBase}
  /\ live \subseteq Base /\ own \subseteq Base
  /\ mem \in [Base -> Value]
  /\ open \subseteq Slot /\ header \subseteq Slot
  /\ held \in [Client -> Slot \cup {NoFp}]
  /\ home \in [Client -> Base \cup {NullBase}]
  /\ keys \in Base \cup {NullBase}
  /\ ctx \in FSID \cup {NoID}
  /\ walk \in {"off", "on", "done"}
  /\ visited \subseteq FSID
  /\ fault \in {"none", "use_after_free", "double_free", "wild_header"}

Init ==
  /\ ready = FALSE
  /\ fstab = <<>>
  /\ cursor = NoID
  /\ fsram = NullBase
  /\ live = {} /\ own = {}
  /\ mem = [b \in Base |-> Default]
  /\ open = {} /\ header = {}
  /\ held = [c \in Client |-> NoFp]
  /\ home = [c \in Client |-> NullBase]
  /\ keys = NullBase
  /\ ctx = NoID
  /\ walk = "off" /\ visited = {}
  /\ fault = "none"

Running == fault = "none"

(* One place of the application calls the group while others keep pointers; *)
(* it only sees to it that none is left when it deletes the context.        *)
Unheld == \A c \in Client : held[c] = NoFp

-----------------------------------------------------------------------------
(* Mutant: vl_init is not run. *)
SwitchTo_NoWipe(b) == fsram' = b /\ UNCHANGED files

(* vworm_init makes a base the context, and vl_init wipes the table of file *)
(* pointers, whoever holds them.                                            *)
SwitchTo(b) ==
  /\ fsram' = b
  /\ open' = {} /\ header' = {}
  /\ UNCHANGED <<held, home>>

(* A lookup that fails, or a deletion, leaves the cursor where Judy likes. *)
Unsettled == cursor' \in Members \cup {NoID}

EndWalk == walk' = "off" /\ visited' = {}

Abandon == IF walk = "off" THEN UNCHANGED <<walk, visited>> ELSE EndWalk

otfs_init ==
  /\ Running /\ ~ready
  /\ ready' = TRUE
  /\ fstab' = <<>>
  /\ cursor' = NoID
  /\ UNCHANGED <<fsram, blocks, mem, files, keys, ctx, walk, visited, fault>>

(* malloc, which may return a block freed before, and the default data. *)
otfs_load_defaults ==
  /\ Running
  /\ \E b \in Base \ live :
       /\ live' = live \cup {b}
       /\ own' = own \cup {b}
       /\ mem' = [mem EXCEPT ![b] = Default]
  /\ UNCHANGED <<group, fsram, files, keys, ctx, walk, visited, fault>>

(* Mutant: the context is switched although vl_multifs_add failed. *)
otfs_new_Ignores(i, b) ==
  /\ Running /\ ready
  /\ b \in own
  /\ cursor' = i
  /\ SwitchTo(b)
  /\ keys' = b
  /\ IF i \in Members
       THEN UNCHANGED <<fstab, own, ctx>>
       ELSE /\ fstab' = [j \in Members \cup {i} |-> IF j = i THEN b ELSE fstab[j]]
            /\ own' = own \ {b}
            /\ ctx' = i
  /\ Abandon
  /\ UNCHANGED <<ready, live, mem, fault>>

(* otfs_new: vl_multifs_add refuses an ID that has a base; else the new      *)
(* filesystem becomes the context and auth_init loads its keys.             *)
otfs_new(i, b) ==
  /\ Running /\ ready
  /\ b \in own
  /\ cursor' = i
  /\ IF i \in Members
       THEN UNCHANGED <<fstab, own, fsram, files, keys, ctx>>
       ELSE /\ fstab' = [j \in Members \cup {i} |-> IF j = i THEN b ELSE fstab[j]]
            /\ own' = own \ {b}
            /\ SwitchTo(b)
            /\ keys' = b
            /\ ctx' = i
  /\ Abandon
  /\ UNCHANGED <<ready, live, mem, fault>>

(* free_fn on the blocks of S. *)
Free(S) ==
  /\ live' = live \ S
  /\ fault' = IF S \subseteq live THEN fault ELSE "double_free"

(* Mutant: the base is freed although vl_multifs_del found no such ID. *)
otfs_del_FreesAnyway(i, b, free_fn) ==
  /\ Running /\ ready
  /\ i \notin Members /\ b \in own /\ free_fn
  /\ Unsettled
  /\ Free({b})
  /\ Abandon
  /\ UNCHANGED <<ready, fstab, own, ctx, fsram, mem, files, keys>>

(* otfs_del with the record of a filesystem, of ID i and base b.  Nothing   *)
(* is done about fsram when it is the context that goes.                    *)
otfs_del(i, b, free_fn) ==
  /\ Running /\ ready
  /\ Unheld \/ i # ctx
  /\ Unsettled
  /\ IF i \in Members
       THEN /\ b = fstab[i]
            /\ fstab' = [j \in Members \ {i} |-> fstab[j]]
            /\ cursor' # i
            /\ ctx' = IF ctx = i THEN NoID ELSE ctx
            /\ IF free_fn THEN Free({b}) /\ UNCHANGED own
                          ELSE own' = own \cup {b} /\ UNCHANGED <<live, fault>>
       ELSE /\ b \in own
            /\ UNCHANGED <<fstab, ctx, blocks, fault>>
  /\ Abandon
  /\ UNCHANGED <<ready, fsram, mem, files, keys>>

(* Mutant: vl_multifs_switch wipes the file pointers and leaves fsram. *)
otfs_setfs_NoSwitch(i) ==
  /\ Running /\ ready
  /\ i \in Members
  /\ cursor' = i /\ SwitchTo(fsram) /\ ctx' = i
  /\ Abandon
  /\ UNCHANGED <<ready, fstab, blocks, mem, keys, fault>>

(* otfs_setfs: vl_multifs_switch, which loads no keys. *)
otfs_setfs(i) ==
  /\ Running /\ ready
  /\ IF i \in Members
       THEN cursor' = i /\ SwitchTo(fstab[i]) /\ ctx' = i
       ELSE Unsettled /\ UNCHANGED <<fsram, files, ctx>>
  /\ Abandon
  /\ UNCHANGED <<ready, fstab, blocks, mem, keys, fault>>

(* sub_pullfs: Judy's answer is the least member that satisfies the lookup; *)
(* ID 0 is taken for no answer.                                             *)
Pull(candidates, seen) ==
  IF candidates = {}
    THEN /\ Unsettled
         /\ walk' = "done" /\ visited' = seen
         /\ UNCHANGED <<fsram, files, ctx>>
    ELSE LET i == CHOOSE i \in candidates : \A j \in candidates : i <= j IN
         /\ cursor' = i
         /\ IF i = 0
              THEN /\ walk' = "done" /\ visited' = seen
                   /\ UNCHANGED <<fsram, files, ctx>>
              ELSE /\ walk' = "on" /\ visited' = seen \cup {i}
                   /\ SwitchTo(fstab[i]) /\ ctx' = i

otfs_iterator_start ==
  /\ Running /\ ready
  /\ Pull(Members, {})
  /\ UNCHANGED <<ready, fstab, blocks, mem, keys, fault>>

(* Mutant: the Judy array is advanced twice. *)
otfs_iterator_next_Skips ==
  /\ Running /\ ready
  /\ walk = "on"
  /\ Pull({j \in Members : \E k \in Members : k > cursor /\ j > k}, visited)
  /\ UNCHANGED <<ready, fstab, blocks, mem, keys, fault>>

otfs_iterator_next ==
  /\ Running /\ ready
  /\ walk = "on"
  /\ Pull({j \in Members : j > cursor}, visited)
  /\ UNCHANGED <<ready, fstab, blocks, mem, keys, fault>>

(* otfs_deinit: with a free_fn the iterator is run to its end, each base    *)
(* freed when it is the context; then the Judy array is closed.             *)
otfs_deinit(free_fn) ==
  /\ Running /\ ready /\ Unheld
  /\ IF free_fn
       THEN /\ UNCHANGED own
            /\ IF Members = {} \/ 0 \in Members
                 THEN UNCHANGED <<fsram, live, files, fault>>
                 ELSE LET last == CHOOSE i \in Members : \A j \in Members : j <= i IN
                      Free(Bases) /\ SwitchTo(fstab[last])
       ELSE /\ own' = own \cup Bases
            /\ UNCHANGED <<fsram, live, files, fault>>
  /\ ready' = FALSE
  /\ fstab' = <<>>
  /\ cursor' = NoID
  /\ ctx' = NoID
  /\ Abandon
  /\ UNCHANGED <<mem, keys>>

-----------------------------------------------------------------------------
(* A file call reads and writes the memory fsram points to. *)
Touch == fault' = IF fsram \in live THEN "none" ELSE "use_after_free"

(* The application opens files once it has checked a filesystem out. *)
vl_open(c) ==
  /\ Running
  /\ ctx # NoID
  /\ held[c] = NoFp
  /\ \E s \in Slot \ open :
       /\ \A t \in Slot \ open : s <= t
       /\ open' = open \cup {s}
       /\ header' = header \cup {s}
       /\ held' = [held EXCEPT ![c] = s]
  /\ home' = [home EXCEPT ![c] = fsram]
  /\ Touch
  /\ UNCHANGED <<group, fsram, blocks, mem, keys, ctx, walk, visited>>

(* vl_write refuses a wiped entry: its alloc is 0. *)
vl_write(c, v) ==
  /\ Running
  /\ held[c] \in open
  /\ IF fsram \in live THEN mem' = [mem EXCEPT ![fsram] = v] ELSE UNCHANGED mem
  /\ Touch
  /\ UNCHANGED <<group, fsram, blocks, files, keys, ctx, walk, visited>>

(* vl_close writes to the header the entry names, NULL_vaddr when wiped. *)
vl_close(c) ==
  /\ Running
  /\ held[c] # NoFp
  /\ IF held[c] \in header THEN Touch ELSE fault' = "wild_header"
  /\ open' = open \ {held[c]}
  /\ held' = [held EXCEPT ![c] = NoFp]
  /\ home' = [home EXCEPT ![c] = NullBase]
  /\ UNCHANGED <<group, fsram, blocks, mem, header, keys, ctx, walk, visited>>

(* A place that hears of the switch drops a pointer that it has wiped. *)
forget(c) ==
  /\ Running
  /\ held[c] # NoFp /\ held[c] \notin open
  /\ held' = [held EXCEPT ![c] = NoFp]
  /\ home' = [home EXCEPT ![c] = NullBase]
  /\ UNCHANGED <<group, fsram, blocks, mem, open, header, keys, ctx, walk, visited, fault>>

-----------------------------------------------------------------------------
Next ==
  \/ otfs_init
  \/ otfs_load_defaults
  \/ \E i \in FSID, b \in Base : otfs_new(i, b)
  \/ \E i \in FSID, b \in Base, free_fn \in BOOLEAN : otfs_del(i, b, free_fn)
  \/ \E i \in FSID : otfs_setfs(i)
  \/ otfs_iterator_start
  \/ otfs_iterator_next
  \/ \E free_fn \in BOOLEAN : otfs_deinit(free_fn)
  \/ \E c \in Client : vl_open(c) \/ vl_close(c) \/ forget(c)
  \/ \E c \in Client, v \in Value : vl_write(c, v)

Spec == Init /\ [][Next]_vars
-----------------------------------------------------------------------------
(* What the application knows from return codes is true: the member it      *)
(* believes checked out is a member, its base is the context, and that base *)
(* is allocated.  A call that failed has not moved the context.             *)
ContextTrue ==
  ctx # NoID => ctx \in Members /\ fstab[ctx] = fsram /\ fsram \in live

(* No call touches a freed block or frees one twice, when the application   *)
(* deletes the context only with no file open: fsram dangles then, and no   *)
(* failing call and no reuse of the block makes it the context again.       *)
NoFreedAccess == fault \notin {"use_after_free", "double_free"}

(* Every block is reachable by whom must free it, and by one of them only:  *)
(* the group or the application.                                            *)
BlocksAccounted ==
  /\ live = own \cup Bases
  /\ own \cap Bases = {}
  /\ \A i, j \in Members : fstab[i] = fstab[j] => i = j

(* An iteration gives each member once, in order, file calls in between     *)
(* notwithstanding, and the one it gave last is checked out.                *)
WalkExact ==
  /\ walk = "on" => ctx = cursor /\ visited = {i \in Members : i <= cursor}
  /\ walk = "done" => visited = Members

(* A pointer kept over a change of context is dead until its entry is       *)
(* opened again: of the pointers that reach data, one was opened here.      *)
StaleIsDead ==
  \A c \in Client :
    held[c] \in open => \E d \in Client : held[d] = held[c] /\ home[d] = fsram

(* The group behaves as filesystems with data of their own, one checked out. *)
Group == INSTANCE FsGroup WITH
           data <- [i \in Members |-> mem[fstab[i]]],
           checkout <- ctx

(* Blocks freed and reused, failing calls and switches included, no call    *)
(* changes the data of a member that is not checked out.                    *)
GroupSpec == Group!Spec

=============================================================================
