--------------------------------- MODULE Files ---------------------------------
(***************************************************************************)
(* A filesystem of one of the applications as its callers see it: files     *)
(* named by a block and an ID, looked up in the table of headers, opened    *)
(* or refused by their mode and the caller's key, stored into, loaded from  *)
(* and given another mode (otlib/veelite.c), on the image the driver loads  *)
(* (otsys_veelite_generic.c).  Rows are numbered from 1: those of the GFB   *)
(* files are in front of those of the ISF files.                            *)
(***************************************************************************)
EXTENDS FsLayout

CONSTANTS
  Apps,    (* The applications: a function from their names.                  *)
  Callers, (* Who calls, of "su", "root", "user" and "guest".                 *)
  Chmods,  (* The <<block, id, mode>> callers ask vl_chmod for,               *)
  Stores,  (* and the <<block, id, length>> they store.                       *)
  Astray   (* The <<application, row>> whose default data is known to be      *)
           (* elsewhere than its header says.                                 *)

VARIABLES
  fs,      (* The name of the application.                                    *)
  table,   (* Its table of headers.                                           *)
  heap,    (* Each byte behind the table: the row whose data it is, its place *)
           (* there, and the length of the store that put it, 0 for a default.*)
  stored,  (* The length last stored in each file, Never if none was.         *)
  lent,    (* The files su or root have stored into or changed the mode of,   *)
  taken    (* and those only user or guest have.                              *)

vars == <<fs, table, heap, stored, lent, taken>>

Never   == -1
Block   == {"gfb", "isf"}
Id      == 0 .. 255
Header  == Apps[fs].header
Row     == DOMAIN table
Mode    == [user : SUBSET RWX, guest : SUBSET RWX]
Unknown == <<0, 0, 0>>

(* vworm_fsalloc: the size of the filesystem. *)
fsalloc(h) == h.ftab + h.gfb.alloc + h.iss.alloc + h.isf.alloc

(* The default data, one file behind the other, at the start of the section.*)
Defaults(app) ==
  FlattenSeq([i \in DOMAIN app.stock |->
                [k \in 1 .. app.stock[i] |-> <<app.header.gfb.files + i, k - 1, 0>>]])

(* Where the loader puts it: behind the sections in front of it, in words.  *)
Section(app) ==
  IF app.multifs
    THEN 4 * (app.header.ftab \div 4 + app.header.gfb.alloc \div 4 + app.header.iss.alloc \div 4)
    ELSE app.start

(* vworm_fsdata_defload, vworm_init: the image of a filesystem just loaded. *)
Image(app) ==
  LET data == Defaults(app)
      at   == Section(app)
  IN [a \in app.header.ftab .. fsalloc(app.header) - 1 |->
        IF a \in at .. at + Len(data) - 1 THEN data[a - at + 1] ELSE Unknown]

(* The rows of the files of a block that the header of a filesystem counts, *)
(* of the files a search may find, and the bytes allocated to a row.        *)
Counted(app, block) ==
  IF block = "gfb" THEN 1 .. app.header.gfb.files
  ELSE app.header.gfb.files + 1 .. app.header.gfb.files + app.header.isf.files

Sought(app) ==
  IF app.multifs THEN Counted(app, "gfb") \cup Counted(app, "isf")
  ELSE DOMAIN app.table \ Counted(app, "gfb")

Extent(row) == row.base .. row.base + row.alloc - 1

(* What a search relies on: no two files of a block share an ID, and where  *)
(* rows are computed, the files are in the order of their IDs.              *)
IdsTell(app) ==
  IF app.multifs
    THEN /\ \A i \in Sought(app) : app.table[i].base \notin {0, NULL_vaddr}
         /\ \A block \in Block : \A i, j \in Counted(app, block) :
              app.table[i].id = app.table[j].id => i = j
    ELSE \A i \in Counted(app, "isf") : app.table[i].id = i - app.header.gfb.files - 1

(* What files rely on: extents are in whole words inside the filesystem, and *)
(* apart; files are not mirrored.                                           *)
ExtentsApart(app) ==
  /\ \A i \in DOMAIN app.table : app.table[i].len <= app.table[i].alloc
  /\ \A i \in Sought(app) :
       /\ app.table[i].alloc % 2 = 0
       /\ app.table[i].mirror = NULL_vaddr
       /\ Extent(app.table[i]) \subseteq app.header.ftab .. fsalloc(app.header) - 1
  /\ \A i, j \in Sought(app) :
       i # j => Extent(app.table[i]) \cap Extent(app.table[j]) = {}

(* And the loader: it puts the default data where the headers say. *)
DefaultsInPlace(name) ==
  \A i \in Sought(Apps[name]) : <<name, i>> \notin Astray =>
    LET row == Apps[name].table[i]
    IN \A k \in 0 .. row.len - 1 : Image(Apps[name])[row.base + k] = <<i, k, 0>>

ASSUME FilesAssumption ==
  /\ Callers \subseteq {"su", "root", "user", "guest"}
  /\ Chmods \subseteq Block \X Id \X Mode
  /\ Stores \subseteq Block \X Id \X Nat
  /\ \A name \in DOMAIN Apps :
       LET app == Apps[name]
           h   == app.header
       IN /\ app.multifs \in BOOLEAN
          /\ app.table \in Seq([len : Nat, alloc : Nat, id : Id, mod : Mode, base : Nat, mirror : Nat])
          /\ h.ftab \in Nat /\ fsalloc(h) \in Nat
          /\ h.gfb.files \in Nat /\ h.iss.files = 0 /\ h.isf.files \in Id
          /\ h.gfb.files + h.isf.files <= Len(app.table)
          /\ IdsTell(app)
          /\ ExtentsApart(app)
          /\ DefaultsInPlace(name)

Loaded(name) ==
  /\ table' = Apps[name].table
  /\ heap' = Image(Apps[name])
  /\ stored' = [i \in DOMAIN Apps[name].table |-> Never]
  /\ lent' = {}
  /\ taken' = {}

Init ==
  /\ fs \in DOMAIN Apps
  /\ table = Apps[fs].table
  /\ heap = Image(Apps[fs])
  /\ stored = [i \in DOMAIN Apps[fs].table |-> Never]
  /\ lent = {}
  /\ taken = {}

-----------------------------------------------------------------------------
(* sub_gfb_search and sub_isf_search of a filesystem whose parameters are in *)
(* its header: the rows that are searched,                                  *)
Window(block) ==
  IF block = "gfb" THEN 1 .. Header.gfb.files
  ELSE LET first == Header.gfb.files + Header.iss.files + 1
       IN first .. first + Header.isf.files - 1

(* and sub_header_search in them: the row at the place of the ID if it has   *)
(* it, otherwise the first that has it and is in use.                       *)
Match(block, id) ==
  {i \in Window(block) : table[i].base \notin {0, NULL_vaddr} /\ table[i].id = id}

Searched(block, id) ==
  LET quick == id + 1 + IF block = "gfb" THEN 0 ELSE Header.gfb.files + Header.iss.files
  IN IF quick \in Window(block) /\ table[quick].id = id THEN {quick}
     ELSE {i \in Match(block, id) : \A j \in Match(block, id) : i <= j}

(* Where the parameters are compiled in, a GFB file is searched for among the *)
(* files users have added, of which there are none, and the row of an ISF   *)
(* file is computed: the one file behind the stock files has the last ID.   *)
Computed(block, id) ==
  IF block = "gfb" THEN {}
  ELSE {Header.gfb.files + 1 + IF id = 255 THEN Header.isf.files ELSE id}

Find(block, id) == IF Apps[fs].multifs THEN Searched(block, id) ELSE Computed(block, id)

-----------------------------------------------------------------------------
(* The keys of root and user, loaded from their files, in otlib/auth.c.     *)
LocalKey(i) == [id |-> i, mflags |-> IF i = 0 THEN 56 ELSE 7, EOL |-> 0]

Keys == INSTANCE Auth WITH
  User <- {}, Key <- {}, Wiped <- 0, NumElements <- 2, MinLifetime <- 1, Lifetime <- {},
  Modes <- {}, TimeMod <- 2, MaxNow <- 1,
  dlls_size <- 2, dlls_info <- [i \in 0 .. 1 |-> LocalKey(i)], dlls_ctx <- <<>>,
  now <- 0, granted <- <<>>, local <- <<>>

(* Mutant: a file whose mode is 0 is taken for one without protection. *)
Granted_Zero(who, mode, want) ==
  \/ who = "su"
  \/ mode = Mod(No, No)
  \/ Keys!Access(Keys!LocalIndex(who, mode), mode, want) # {}

(* The last check of vl_getheader_vaddr: any of the rights asked for is     *)
(* enough.                                                                  *)
Granted(who, mode, want) ==
  \/ who = "su"
  \/ Keys!Access(Keys!LocalIndex(who, mode), mode, want) # {}

vl_getheader(block, id, want, who) == {i \in Find(block, id) \cap Row : Granted(who, table[i].mod, want)}

(* Who has had a hand in a file since it was loaded. *)
Touched(i, who) ==
  LET trusted == who \in {"su", "root"}
  IN /\ lent' = IF trusted THEN lent \cup {i} ELSE lent
     /\ taken' = IF trusted \/ i \in lent THEN taken ELSE taken \cup {i}

(* Mutant: the word of ID and mode is written without the ID. *)
vl_chmod_NoId(block, id, mode, who) ==
  \E i \in vl_getheader(block, id, Mod(RW, RW), who) :
    /\ table' = [table EXCEPT ![i].mod = mode, ![i].id = 0]
    /\ Touched(i, who)
    /\ UNCHANGED <<fs, heap, stored>>

(* vl_chmod: ID and mode are written to the header. *)
vl_chmod(block, id, mode, who) ==
  \E i \in vl_getheader(block, id, Mod(RW, RW), who) :
    /\ table' = [table EXCEPT ![i].mod = mode, ![i].id = id]
    /\ Touched(i, who)
    /\ UNCHANGED <<fs, heap, stored>>

(* Mutant: the data is not cut to the allocation, only the length is. *)
Store_Uncut(block, id, n, who) ==
  \E i \in vl_getheader(block, id, Mod(WO, WO), who) :
    /\ heap' = [a \in DOMAIN heap |->
                  IF a \in table[i].base .. table[i].base + Rounded(n, 2) - 1
                    THEN <<i, a - table[i].base, n>> ELSE heap[a]]
    /\ table' = [table EXCEPT ![i].len = IF n > table[i].alloc THEN table[i].alloc ELSE n]
    /\ stored' = [stored EXCEPT ![i] = n]
    /\ Touched(i, who)
    /\ UNCHANGED fs

(* vl_open for writing, vl_store and vl_close: no more than the allocation,  *)
(* in 16-bit words; the header is given the length.                         *)
Store(block, id, n, who) ==
  \E i \in vl_getheader(block, id, Mod(WO, WO), who) :
    LET length == IF n > table[i].alloc THEN table[i].alloc ELSE n
        words  == Rounded(length, 2)
        from   == table[i].base
    IN /\ heap' = [a \in DOMAIN heap |->
                     IF a \in from .. from + words - 1 THEN <<i, a - from, n>> ELSE heap[a]]
       /\ table' = [table EXCEPT ![i].len = length]
       /\ stored' = [stored EXCEPT ![i] = n]
       /\ Touched(i, who)
       /\ UNCHANGED fs

(* vl_open_file and vl_load: all of a file, a file without a mirror from its *)
(* base.                                                                    *)
vl_load(i) ==
  LET from == IF table[i].mirror = NULL_vaddr THEN table[i].base ELSE table[i].mirror + 2
  IN [k \in 0 .. table[i].len - 1 |-> IF from + k \in DOMAIN heap THEN heap[from + k] ELSE Unknown]

(* vworm_init with a header, otfs_load_defaults: the defaults again. *)
vworm_init ==
  /\ Loaded(fs)
  /\ UNCHANGED fs

Next ==
  \/ \E c \in Chmods, who \in Callers : vl_chmod(c[1], c[2], c[3], who)
  \/ \E s \in Stores, who \in Callers : Store(s[1], s[2], s[3], who)
  \/ vworm_init

Spec == Init /\ [][Next]_vars

-----------------------------------------------------------------------------
(* The files a caller can get: those a search for some ID finds. *)
Files == {i \in Row : \E block \in Block, id \in Id : i \in Find(block, id)}

(* Headers keep their type, and no length exceeds its allocation. *)
TypeOK ==
  /\ table \in Seq([len : Nat, alloc : Nat, id : Id, mod : Mode, base : Nat, mirror : Nat])
  /\ \A i \in Row : table[i].len <= table[i].alloc
  /\ stored \in [Row -> Nat \cup {Never}]
  /\ lent \subseteq Row /\ taken \subseteq Row

(* A search (sub_header_search, sub_isf_search) answers with a file of that *)
(* ID and that block; every file the header of the filesystem counts is     *)
(* found, by its ID, whatever modes vl_chmod has written beside the IDs.    *)
(* Where the row is computed this is so of the IDs that are in the table.   *)
LookupExact ==
  \A block \in Block, id \in Id :
    LET present == {i \in Counted(Apps[fs], block) : Apps[fs].table[i].id = id}
    IN IF Apps[fs].multifs
         THEN Find(block, id) = present
         ELSE block = "isf" /\ present # {} => Find(block, id) = present

(* What vl_load reads of a file is what was last stored in it through that   *)
(* file, cut to its allocation, and its own default data if nothing was:    *)
(* the bases and allocations of the headers, the arrays of default data and *)
(* the sections of the loader agree, and no two files share a byte.         *)
LoadTrue ==
  \A i \in Files :
    IF stored[i] # Never
      THEN /\ table[i].len = IF stored[i] > table[i].alloc THEN table[i].alloc ELSE stored[i]
           /\ vl_load(i) = [k \in 0 .. table[i].len - 1 |-> <<i, k, stored[i]>>]
      ELSE <<fs, i>> \notin Astray =>
             /\ table[i].len = Apps[fs].table[i].len
             /\ vl_load(i) = [k \in 0 .. table[i].len - 1 |-> <<i, k, 0>>]

(* A file whose default mode is 0, as the key of root, is root's: user and   *)
(* guest neither change its mode nor store in it, until su or root has      *)
(* (auth_check as vl_getheader_vaddr calls it).                             *)
RootOnly ==
  \A i \in taken : Apps[fs].table[i].mod # Mod(No, No)
===============================================================================
