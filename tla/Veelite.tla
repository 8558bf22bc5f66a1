------------------------------ MODULE Veelite ------------------------------
(***************************************************************************)
(* The veelite file layer (otlib/veelite.c) over one active filesystem: a  *)
(* table of VLFPS file pointers opened on file headers, the byte heap the  *)
(* files live in, and the table of file actions, callbacks that vl_close   *)
(* runs in the middle of closing a file.                                   *)
(*                                                                         *)
(* The build is the POSIX one (MULTIFS, VLACTIONS and VLMODTIME enabled,   *)
(* VLNEW and the RAM mirror disabled).  Calls are super-user calls         *)
(* (user_id = NULL), so no permission is checked here.                     *)
(***************************************************************************)
EXTENDS Integers, Sequences, FiniteSets

CONSTANTS
  File,        (* The files of the filesystem, each with its header.         *)
  NoFile,      (* NULL_vaddr: the header of a file pointer never used.       *)
  Base,        (* First 16-bit word of each file's data in the heap.         *)
  Alloc,       (* "max allocation" of each file, in bytes, always even.      *)
  HeapWords,   (* Size of the heap in 16-bit words.                          *)
  VLFPS,       (* Size of the table of file pointers.                        *)
  VLACTIONS,   (* Size of the table of file actions.                         *)
  U8,          (* Number of values of a user count: 256, the range of ot_u8. *)
  Action,      (* The functions an application registers as file actions.    *)
  NullAction,  (* A NULL entry of the table of file actions.                 *)
  Client,      (* The places of the application that keep a vlFILE pointer.  *)
  Licence,     (* What the application does beyond the orderly use (below).  *)
  StoreLen, AppendLen, WriteOffset, Condition, (* Arguments of the calls.    *)
  MaxDepth,    (* Bound: file actions nested in file actions.                *)
  MaxNow       (* Bound: number of ticks of the UTC clock.                   *)

(***************************************************************************)
(* The orderly application closes a file pointer once and forgets it,      *)
(* opens no file it already holds open, adds an action only to a file that *)
(* has none and removes it only from a file that has one, and re-runs      *)
(* vl_init with nothing open and no action added.  Each licence lifts one  *)
(* of these; the code enforces none of them.                               *)
(***************************************************************************)
Licences == {"share", "retain", "unpaired", "reinit"}

Flag    == {"OPENED", "MODDED", "RESIZED"}
Slot    == 0 .. VLFPS - 1
ActSlot == 0 .. VLACTIONS - 1
Word    == 0 .. HeapWords - 1
NoFp    == -1

(* The words of the heap allocated to file f. *)
Region(f) == Base[f] .. Base[f] + (Alloc[f] \div 2) - 1

ASSUME VeeliteAssumption ==
  /\ NoFile \notin File
  /\ NullAction \notin Action
  /\ Alloc \in [File -> Nat]
  /\ Base \in [File -> Nat]
  /\ HeapWords \in Nat
  /\ VLFPS \in 1 .. 7
  /\ VLACTIONS \in 1 .. 255
  /\ U8 \in 2 .. 256
  /\ \A f \in File : Alloc[f] % 2 = 0 /\ Region(f) \subseteq Word
  /\ \A f, g \in File : f # g => Region(f) \cap Region(g) = {}
  /\ Licence \subseteq Licences
  /\ StoreLen \subseteq Nat /\ AppendLen \subseteq Nat /\ WriteOffset \subseteq Nat
  /\ Condition \subseteq SUBSET Flag
  /\ MaxDepth \in Nat /\ MaxNow \in Nat

VARIABLES
  vlfile,          (* The table of file pointers (open: read # NULL).        *)
  hlen,            (* Header of each file: its length ...                    *)
  hmod,            (* ... its modification time ...                          *)
  hact,            (* ... and its actioncode, a condition and an index.      *)
  heap,            (* For each word, the file whose data was last written.   *)
  vlaction,        (* The table of file actions ...                          *)
  vlaction_users,  (* ... and the user count of each entry.                  *)
  now,             (* time_get_utc().                                        *)
  held,            (* The file pointer each place of the application keeps.  *)
  bound,           (* The files to which the application added an action.    *)
  stack,           (* Call stack: the pointers vl_close runs an action on.   *)
  fault            (* The undefined behaviour the program ran into, if any.  *)

vars == <<vlfile, hlen, hmod, hact, heap, vlaction, vlaction_users, now, held,
          bound, stack, fault>>

hdrs    == <<hlen, hmod, hact>>
actions == <<vlaction, vlaction_users>>

FilePointer == [file : File \cup {NoFile}, length : Nat, flags : SUBSET Flag, open : BOOLEAN]
ActionCode  == [cond : SUBSET Flag, select : 0 .. 255]
Faults      == {"none", "null_write", "null_action", "wild_header"}

TypeOK ==
  /\ vlfile \in [Slot -> FilePointer]
  /\ hlen \in [File -> Nat]
  /\ hmod \in [File -> Nat]
  /\ hact \in [File -> ActionCode]
  /\ heap \in [Word -> File \cup {NoFile}]
  /\ vlaction \in [ActSlot -> Action \cup {NullAction}]
  /\ vlaction_users \in [ActSlot -> 0 .. U8 - 1]
  /\ now \in Nat
  /\ held \in [Client -> Slot \cup {NoFp}]
  /\ bound \in SUBSET File
  /\ stack \in Seq(Slot)
  /\ fault \in Faults

-----------------------------------------------------------------------------
(* vl_init zeroes the three tables; the headers are data of the filesystem. *)
Cleared == [file |-> NoFile, length |-> 0, flags |-> {}, open |-> FALSE]

Owner(w) == IF \E f \in File : w \in Region(f) THEN CHOOSE f \in File : w \in Region(f)
                                               ELSE NoFile

Init ==
  /\ vlfile = [s \in Slot |-> Cleared]
  /\ hlen = [f \in File |-> 0]
  /\ hmod = [f \in File |-> 0]
  /\ hact = [f \in File |-> [cond |-> {}, select |-> 0]]
  /\ heap = [w \in Word |-> Owner(w)]
  /\ vlaction = [i \in ActSlot |-> NullAction]
  /\ vlaction_users = [i \in ActSlot |-> 0]
  /\ now = 0
  /\ held = [c \in Client |-> NoFp]
  /\ bound = {}
  /\ stack = <<>>
  /\ fault = "none"

Running == fault = "none"

-----------------------------------------------------------------------------
(* sub_new_fp: s is the first entry of the table whose read is NULL. *)
FirstFree(s) == /\ ~vlfile[s].open
                /\ \A t \in Slot : t < s => vlfile[t].open

(* vl_open_file: what a file pointer takes from the header of f. *)
Opened(f) == [file |-> f, length |-> hlen[f], flags |-> {"OPENED"}, open |-> TRUE]

(* What vl_close leaves: header, alloc and idmod stay in the entry. *)
Closed(fp) == [file |-> fp.file, length |-> 0, flags |-> {}, open |-> FALSE]

(* The words that n 16-bit writes from byte offset off of file f on reach:  *)
(* the driver rounds each address down to an even one.                      *)
WordsAt(f, off, n) ==
  IF n = 0 THEN {}
           ELSE LET first == Base[f] + (off \div 2) IN first .. first + n - 1

HalfWords(bytes) == (bytes + 1) \div 2

(* alloc of a file pointer; vl_init zeroes it. *)
AllocOf(fp) == IF fp.file = NoFile THEN 0 ELSE Alloc[fp.file]

(* The application holds a pointer on f. *)
InUse(f) == \E c \in Client : held[c] # NoFp /\ vlfile[held[c]].file = f

(* The application still keeps the pointer it passed to vl_close. *)
Forget(c) == \/ held' = [held EXCEPT ![c] = NoFp]
             \/ "retain" \in Licence /\ UNCHANGED held

-----------------------------------------------------------------------------
(* vl_open.  With no entry free it returns NULL and nothing changes. *)
vl_open(c, f) ==
  /\ Running
  /\ held[c] = NoFp \/ "retain" \in Licence
  /\ ~InUse(f) \/ "share" \in Licence
  /\ \E s \in Slot :
       /\ FirstFree(s)
       /\ vlfile' = [vlfile EXCEPT ![s] = Opened(f)]
       /\ held' = [held EXCEPT ![c] = s]
  /\ UNCHANGED <<hdrs, heap, actions, now, bound, stack, fault>>

(* The application changes its file through c: the new length, the flags    *)
(* raised, and n 16-bit writes from byte offset off on.  The first of them  *)
(* calls fp->write, which is NULL once vl_close has released the entry.     *)
Update(c, len, flags, off, n) ==
  LET fp == vlfile[held[c]] IN
  /\ IF n > 0 /\ ~fp.open
       THEN /\ fault' = "null_write"
            /\ UNCHANGED <<vlfile, heap>>
       ELSE /\ vlfile' = [vlfile EXCEPT ![held[c]] =
                            [file |-> fp.file, length |-> len,
                             flags |-> fp.flags \cup flags, open |-> fp.open]]
            /\ heap' = [w \in Word |-> IF w \in WordsAt(fp.file, off, n) THEN fp.file
                                                                      ELSE heap[w]]
            /\ UNCHANGED fault
  /\ UNCHANGED <<hdrs, actions, now, held, bound, stack>>

(* Mutant: an offset equal to alloc passes. *)
vl_write_PastEnd(c, off) ==
  /\ Running /\ held[c] # NoFp
  /\ LET fp == vlfile[held[c]] IN
       /\ off <= AllocOf(fp)
       /\ IF off >= fp.length THEN Update(c, off + 2, {"RESIZED", "MODDED"}, off, 1)
                              ELSE Update(c, fp.length, {"MODDED"}, off, 1)

(* vl_write: one 16-bit word; an offset at or past alloc is refused. *)
vl_write(c, off) ==
  /\ Running /\ held[c] # NoFp
  /\ LET fp == vlfile[held[c]] IN
       /\ off < AllocOf(fp)
       /\ IF off >= fp.length THEN Update(c, off + 2, {"RESIZED", "MODDED"}, off, 1)
                              ELSE Update(c, fp.length, {"MODDED"}, off, 1)

(* Mutants: a new length without RESIZED; a length that is not clipped. *)
vl_store_NoResized(c, len) ==
  /\ Running /\ held[c] # NoFp
  /\ LET size == IF len > AllocOf(vlfile[held[c]]) THEN AllocOf(vlfile[held[c]]) ELSE len
     IN  Update(c, size, {"MODDED"}, 0, HalfWords(size))

vl_store_NoClip(c, len) ==
  /\ Running /\ held[c] # NoFp
  /\ Update(c, len, {"RESIZED", "MODDED"}, 0, HalfWords(len))

(* vl_store: replaces the content, clipped to alloc, two bytes at a time. *)
vl_store(c, len) ==
  /\ Running /\ held[c] # NoFp
  /\ LET fp   == vlfile[held[c]]
         size == IF len > AllocOf(fp) THEN AllocOf(fp) ELSE len
     IN  Update(c, size, IF size # fp.length THEN {"RESIZED", "MODDED"} ELSE {"MODDED"},
                0, HalfWords(size))

(* Mutant: an append that does not raise MODDED. *)
vl_append_NoModded(c, len) ==
  /\ Running /\ held[c] # NoFp
  /\ LET fp    == vlfile[held[c]]
         total == fp.length + len
     IN  /\ total <= AllocOf(fp)
         /\ Update(c, total, {"RESIZED"}, fp.length, HalfWords(total))

(* vl_append: the loop runs from the old end for as many bytes as the new   *)
(* total length, not for the bytes appended (length += cursor).             *)
vl_append(c, len) ==
  /\ Running /\ held[c] # NoFp
  /\ LET fp    == vlfile[held[c]]
         total == fp.length + len
     IN  /\ total <= AllocOf(fp)
         /\ Update(c, total, {"RESIZED", "MODDED"}, fp.length, HalfWords(total))

(* vl_execute: vl_store, and the action only when vl_store failed, which it *)
(* never does here: vworm_write always returns 0.                           *)
vl_execute(c, len) == vl_store(c, len)

(* Mutant: the entry is released before its action runs. *)
RunAction_Released(s, fp) ==
  LET select == hact[fp.file].select IN
  /\ vlfile' = [vlfile EXCEPT ![s] = Closed(fp)]
  /\ vlaction[select] # NullAction
  /\ Len(stack) < MaxDepth
  /\ stack' = Append(stack, s)
  /\ UNCHANGED fault

(* sub_action calls through the table without a NULL check. *)
RunAction(s, fp) ==
  LET select == hact[fp.file].select IN
  /\ vlfile' = [vlfile EXCEPT ![s] = fp]
  /\ \/ /\ vlaction[select] # NullAction
        /\ Len(stack) < MaxDepth
        /\ stack' = Append(stack, s)
        /\ UNCHANGED fault
     \/ /\ vlaction[select] = NullAction
        /\ fault' = "null_action"
        /\ UNCHANGED stack

(* Mutant: the length is written back after the entry was cleared. *)
CloseFile_Swapped(s, fp) ==
  /\ vlfile' = [vlfile EXCEPT ![s] = Closed(fp)]
  /\ hlen' = [hlen EXCEPT ![fp.file] = Closed(fp).length]
  /\ UNCHANGED <<hmod, hact, heap, actions, now, bound, stack, fault>>

(* The body of vl_close on entry s with content fp: write the length back,  *)
(* stamp a modified file, run the action its flags ask for, then release.   *)
CloseFile(s, fp) ==
  LET code   == hact[fp.file]
      called == code.cond \cap fp.flags # {} /\ code.select < VLACTIONS
  IN
  /\ hlen' = [hlen EXCEPT ![fp.file] = fp.length]
  /\ hmod' = IF "MODDED" \in fp.flags THEN [hmod EXCEPT ![fp.file] = now] ELSE hmod
  /\ IF called THEN RunAction(s, fp)
               ELSE /\ vlfile' = [vlfile EXCEPT ![s] = Closed(fp)]
                    /\ UNCHANGED <<stack, fault>>
  /\ UNCHANGED <<hact, heap, actions, now, bound>>

(* An access through header NULL_vaddr: the pointer was opened before vl_init. *)
WildHeader ==
  /\ fault' = "wild_header"
  /\ UNCHANGED <<vlfile, hdrs, heap, actions, now, held, bound, stack>>

(* vl_close.  The only check is that the pointer is not NULL. *)
vl_close(c) ==
  /\ Running /\ held[c] # NoFp
  /\ IF vlfile[held[c]].file = NoFile
       THEN WildHeader
       ELSE CloseFile(held[c], vlfile[held[c]]) /\ Forget(c)

(* Mutant: vl_close returns with the action, the pointer not released. *)
action_return_Early ==
  /\ Running
  /\ stack # <<>>
  /\ stack' = SubSeq(stack, 1, Len(stack) - 1)
  /\ UNCHANGED <<vlfile, hdrs, heap, actions, now, held, bound, fault>>

(* The file action returns to vl_close, which releases the file pointer. *)
action_return ==
  /\ Running
  /\ stack # <<>>
  /\ LET s == stack[Len(stack)] IN vlfile' = [vlfile EXCEPT ![s] = Closed(vlfile[s])]
  /\ stack' = SubSeq(stack, 1, Len(stack) - 1)
  /\ UNCHANGED <<hdrs, heap, actions, now, held, bound, fault>>

(* vl_touch opens, masks the flags with OPENED|MODDED, which adds nothing,  *)
(* and closes: its flags argument is not used.                              *)
vl_touch(f, flags) ==
  /\ Running
  /\ \E s \in Slot :
       /\ FirstFree(s)
       /\ CloseFile(s, [Opened(f) EXCEPT !.flags = @ \cap {"OPENED", "MODDED"}])
  /\ UNCHANGED held

(* vl_setmodtime writes to the header the pointer names, open or not. *)
vl_setmodtime(c, t) ==
  /\ Running /\ held[c] # NoFp
  /\ IF vlfile[held[c]].file = NoFile
       THEN WildHeader
       ELSE /\ hmod' = [hmod EXCEPT ![vlfile[held[c]].file] = t]
            /\ UNCHANGED <<vlfile, hlen, hact, heap, actions, now, held, bound, stack,
                           fault>>

(* Mutant: the search stops at the first NULL entry. *)
Picks_FirstNull(i, a) ==
  /\ vlaction[i] \in {a, NullAction}
  /\ \A j \in ActSlot : j < i => vlaction[j] \notin {a, NullAction}

(* The entry vl_add_action picks: the first that holds the action, else the *)
(* first that is NULL.                                                      *)
Picks(i, a) ==
  \/ /\ vlaction[i] = a
     /\ \A j \in ActSlot : j < i => vlaction[j] # a
  \/ /\ \A j \in ActSlot : vlaction[j] # a
     /\ vlaction[i] = NullAction
     /\ \A j \in ActSlot : j < i => vlaction[j] # NullAction

(* Mutant: an entry shared by two files counts one user. *)
vl_add_action_OneUser(f, cond, a) ==
  /\ Running
  /\ f \notin bound \/ "unpaired" \in Licence
  /\ \E i \in ActSlot :
       /\ Picks(i, a)
       /\ vlaction' = [vlaction EXCEPT ![i] = a]
       /\ vlaction_users' = [vlaction_users EXCEPT ![i] = 1]
       /\ hact' = [hact EXCEPT ![f] = [cond |-> cond, select |-> i]]
  /\ bound' = bound \cup {f}
  /\ UNCHANGED <<vlfile, hlen, hmod, heap, now, held, stack, fault>>

vl_add_action(f, cond, a) ==
  /\ Running
  /\ f \notin bound \/ "unpaired" \in Licence
  /\ \E i \in ActSlot :
       /\ Picks(i, a)
       /\ vlaction' = [vlaction EXCEPT ![i] = a]
       /\ vlaction_users' = [vlaction_users EXCEPT ![i] = (@ + 1) % U8]
       /\ hact' = [hact EXCEPT ![f] = [cond |-> cond, select |-> i]]
  /\ bound' = bound \cup {f}
  /\ UNCHANGED <<vlfile, hlen, hmod, heap, now, held, stack, fault>>

(* Mutants: the entry is freed whatever its users; a user count of zero is  *)
(* decremented.                                                             *)
vl_remove_action_Frees(f) ==
  /\ Running
  /\ f \in bound
  /\ hact' = [hact EXCEPT ![f] = [cond |-> {}, select |-> 0]]
  /\ vlaction_users' = [vlaction_users EXCEPT ![hact[f].select] = @ - 1]
  /\ vlaction' = [vlaction EXCEPT ![hact[f].select] = NullAction]
  /\ bound' = bound \ {f}
  /\ UNCHANGED <<vlfile, hlen, hmod, heap, now, held, stack, fault>>

vl_remove_action_Underflows(f) ==
  /\ Running
  /\ hact' = [hact EXCEPT ![f] = [cond |-> {}, select |-> 0]]
  /\ vlaction_users' = [vlaction_users EXCEPT ![hact[f].select] = @ - 1]
  /\ bound' = bound \ {f}
  /\ UNCHANGED <<vlfile, hlen, hmod, heap, vlaction, now, held, stack, fault>>

(* vl_remove_action clears the actioncode, drops one user of the entry it   *)
(* named (entry 0 for a file without action) and frees an unused entry.     *)
vl_remove_action(f) ==
  /\ Running
  /\ f \in bound \/ "unpaired" \in Licence
  /\ hact' = [hact EXCEPT ![f] = [cond |-> {}, select |-> 0]]
  /\ LET i == hact[f].select IN
       IF i < VLACTIONS /\ vlaction_users[i] # 0
         THEN /\ vlaction_users' = [vlaction_users EXCEPT ![i] = @ - 1]
              /\ vlaction' = IF vlaction_users[i] = 1
                               THEN [vlaction EXCEPT ![i] = NullAction] ELSE vlaction
         ELSE UNCHANGED actions
  /\ bound' = bound \ {f}
  /\ UNCHANGED <<vlfile, hlen, hmod, heap, now, held, stack, fault>>

(* vl_init, which otfs_new, otfs_setfs and the iterator run on a switch.    *)
vl_init ==
  /\ Running
  /\ \/ "reinit" \in Licence
     \/ bound = {} /\ stack = <<>> /\ \A c \in Client : held[c] = NoFp
  /\ vlfile' = [s \in Slot |-> Cleared]
  /\ vlaction' = [i \in ActSlot |-> NullAction]
  /\ vlaction_users' = [i \in ActSlot |-> 0]
  /\ bound' = {}
  /\ UNCHANGED <<hdrs, heap, now, held, stack, fault>>

tick ==
  /\ Running
  /\ now < MaxNow
  /\ now' = now + 1
  /\ UNCHANGED <<vlfile, hdrs, heap, actions, held, bound, stack, fault>>

-----------------------------------------------------------------------------
FileCall(c) ==
  \/ \E f \in File : vl_open(c, f)
  \/ \E off \in WriteOffset : vl_write(c, off)
  \/ \E len \in StoreLen : vl_store(c, len)
  \/ \E len \in AppendLen : vl_append(c, len)
  \/ \E len \in StoreLen : vl_execute(c, len)
  \/ \E t \in 0 .. MaxNow : vl_setmodtime(c, t)
  \/ vl_close(c)

Next ==
  \/ \E c \in Client : FileCall(c)
  \/ \E f \in File, flags \in {{}, {"MODDED"}} : vl_touch(f, flags)
  \/ \E f \in File, cond \in Condition, a \in Action : vl_add_action(f, cond, a)
  \/ \E f \in File : vl_remove_action(f)
  \/ vl_init
  \/ action_return
  \/ tick

Spec == Init /\ [][Next]_vars
-----------------------------------------------------------------------------
(* Entry s is being closed: its file action is running. *)
Closing(s) == \E i \in DOMAIN stack : stack[i] = s

(* A file pointer the application holds is open, is not being closed, and   *)
(* is held once: sub_new_fp never hands out an entry that is in use, not    *)
(* even to the file action a vl_close is running.                           *)
HandleExclusive ==
  /\ \A c \in Client : held[c] # NoFp => vlfile[held[c]].open /\ ~Closing(held[c])
  /\ \A c, d \in Client : c # d /\ held[c] = held[d] => held[c] = NoFp
  /\ \A i, j \in DOMAIN stack : stack[i] = stack[j] => i = j

(* No entry of the table of VLFPS file pointers is lost: one that is open   *)
(* is held by the application or will be released by a vl_close under way.  *)
NoSlotLeak ==
  \A s \in Slot : vlfile[s].open => Closing(s) \/ \E c \in Client : held[c] = s

(* vl_close rewrites a length in a file header only for a pointer that      *)
(* resized the file: a session that read, or was idle, truncates nothing.   *)
LengthNeedsResize ==
  [][\A f \in File : hlen'[f] # hlen[f] =>
       \E s \in Slot : /\ vlfile[s].file = f
                       /\ "RESIZED" \in vlfile[s].flags
                       /\ hlen'[f] = vlfile[s].length]_vars

(* No file changes length without its modification time being the current  *)
(* one: every operation that resizes raises MODDED, and vl_close stamps it. *)
ModStamped ==
  [][\A f \in File : hlen'[f] # hlen[f] => hmod'[f] = now]_vars

(* Data written through a pointer stays inside the "max allocation" of its  *)
(* file, whatever the order of the calls.                                   *)
HeapIsolated == \A w \in Word : heap[w] = Owner(w)

(* No length, in a header or in a file pointer, exceeds the allocation.     *)
LengthWithinAlloc ==
  /\ \A f \in File : hlen[f] <= Alloc[f]
  /\ \A s \in Slot : vlfile[s].length <= AllocOf(vlfile[s])

(* A file that asks for an action names an entry that still holds one, so   *)
(* sub_action, which does not check, never calls NULL.                      *)
ActionsLive ==
  \A f \in File : hact[f].cond # {} => vlaction[hact[f].select] # NullAction

(* The user count of an entry is the number of files it is added to, and an *)
(* entry without users is free for another action.                          *)
UserCountExact ==
  \A i \in ActSlot :
    /\ vlaction_users[i] = Cardinality({f \in bound : hact[f].select = i})
    /\ vlaction_users[i] = 0 <=> vlaction[i] = NullAction

(* No function takes two of the VLACTIONS entries, however actions are      *)
(* added and removed: vl_add_action looks past a NULL entry for it.         *)
ActionUnique ==
  \A i, j \in ActSlot : vlaction[i] = vlaction[j] => i = j \/ vlaction[i] = NullAction

(* The file pointers the application holds behave as private sessions.      *)
NoSession == [file |-> NoFile, length |-> 0]
Sessions ==
  INSTANCE FileSessions WITH
    session <- [c \in Client |->
                  IF held[c] = NoFp THEN NoSession
                  ELSE [file |-> vlfile[held[c]].file, length |-> vlfile[held[c]].length]],
    committed <- hlen

(* vl_open, the calls on the pointer and vl_close implement FileSessions:   *)
(* a shared file takes the length of the session that ends last, and no     *)
(* call, action or vl_touch changes the length another session sees.        *)
SessionsSpec == Sessions!Spec

=============================================================================
