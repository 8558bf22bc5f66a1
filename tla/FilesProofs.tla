----------------------------- MODULE FilesProofs -----------------------------
(* Theorems of module Files, for every set of applications, of callers and   *)
(* of calls that satisfies FilesAssumption.                                  *)
EXTENDS Files, TLAPS

-----------------------------------------------------------------------------
(* The inductive invariant.  Where the headers put the files never changes;  *)
(* nor does an ID where files are found by it (where rows are computed,      *)
(* vl_chmod may write the ID of another).                                    *)
App == Apps[fs]

RowsKept ==
  /\ DOMAIN table = DOMAIN App.table
  /\ DOMAIN heap = App.header.ftab .. fsalloc(App.header) - 1
  /\ \A i \in Row : /\ table[i].alloc = App.table[i].alloc
                    /\ table[i].base = App.table[i].base
                    /\ table[i].mirror = App.table[i].mirror

IdsKept == App.multifs => \A i \in Row : table[i].id = App.table[i].id

(* A file nobody has had a hand in has its default mode. *)
DefaultModes == \A i \in Row \ (lent \cup taken) : table[i].mod = App.table[i].mod

(* Every file that may be found holds what was stored in it, or its default. *)
Holds(i, n) == \A k \in 0 .. table[i].len - 1 : heap[table[i].base + k] = <<i, k, n>>

Cut(i, n) == IF n > table[i].alloc THEN table[i].alloc ELSE n

DataKept ==
  \A i \in Sought(App) :
    IF stored[i] # Never
      THEN table[i].len = Cut(i, stored[i]) /\ Holds(i, stored[i])
      ELSE table[i].len = App.table[i].len /\ (<<fs, i>> \notin Astray => Holds(i, 0))

FilesInv ==
  /\ fs \in DOMAIN Apps
  /\ TypeOK
  /\ RowsKept
  /\ IdsKept
  /\ DefaultModes
  /\ RootOnly
  /\ DataKept

HeaderType == [len : Nat, alloc : Nat, id : Id, mod : Mode, base : Nat, mirror : Nat]

-----------------------------------------------------------------------------
(* What FilesAssumption says of one application. *)
LEMMA AppFacts ==
  ASSUME NEW name \in DOMAIN Apps
  PROVE  /\ Apps[name].multifs \in BOOLEAN
         /\ Apps[name].table \in Seq(HeaderType)
         /\ Apps[name].header.ftab \in Nat /\ fsalloc(Apps[name].header) \in Nat
         /\ Apps[name].header.gfb.files \in Nat
         /\ Apps[name].header.iss.files = 0
         /\ Apps[name].header.isf.files \in Id
         /\ Apps[name].header.gfb.files + Apps[name].header.isf.files <= Len(Apps[name].table)
         /\ IdsTell(Apps[name])
         /\ ExtentsApart(Apps[name])
         /\ DefaultsInPlace(name)
BY FilesAssumption DEF HeaderType

(* The files that may be found are in the table. *)
LEMMA SoughtRows ==
  ASSUME NEW name \in DOMAIN Apps
  PROVE  /\ DOMAIN Apps[name].table = 1 .. Len(Apps[name].table)
         /\ Len(Apps[name].table) \in Nat
         /\ Sought(Apps[name]) \subseteq DOMAIN Apps[name].table
         /\ \A block \in Block : Counted(Apps[name], block) \subseteq DOMAIN Apps[name].table
<1>1. /\ DOMAIN Apps[name].table = 1 .. Len(Apps[name].table)
      /\ Len(Apps[name].table) \in Nat
  BY AppFacts
<1> DEFINE g == Apps[name].header.gfb.files
<1> DEFINE f == Apps[name].header.isf.files
<1> DEFINE n == Len(Apps[name].table)
<1>2. g \in Nat /\ f \in Nat /\ n \in Nat /\ g + f <= n
  <2>1. g \in Nat /\ f \in Id /\ n \in Nat /\ g + f <= n
    BY <1>1, AppFacts
  <2> HIDE DEF g, f, n
  <2>2. QED
    BY <2>1 DEF Id
<1>3. \A block \in Block : Counted(Apps[name], block) \subseteq 1 .. n
  <2> HIDE DEF g, f, n
  <2> TAKE block \in Block
  <2>1. Counted(Apps[name], block) = 1 .. g \/ Counted(Apps[name], block) = g + 1 .. g + f
    BY DEF Counted, g, f
  <2>2. 1 .. g \subseteq 1 .. n /\ g + 1 .. g + f \subseteq 1 .. n
    BY <1>2
  <2>3. QED
    BY <2>1, <2>2
<1>4. QED
  BY <1>1, <1>3 DEF Sought, Block

LEMMA RowFacts ==
  ASSUME FilesInv, NEW i \in Row
  PROVE  /\ table[i] \in HeaderType
         /\ Row = 1 .. Len(table) /\ Len(table) \in Nat
         /\ i \in Nat
         /\ table[i].len <= table[i].alloc
<1>1. table \in Seq(HeaderType) /\ table[i].len <= table[i].alloc
  BY DEF FilesInv, TypeOK, HeaderType
<1>2. Row = 1 .. Len(table) /\ Len(table) \in Nat
  BY <1>1 DEF Row
<1>3. table[i] \in HeaderType /\ i \in Nat
  BY <1>1, <1>2
<1>4. QED
  BY <1>1, <1>2, <1>3

(* FilesAssumption, of the application at hand. *)
LEMMA AppHere ==
  ASSUME FilesInv
  PROVE  /\ App.multifs \in BOOLEAN
         /\ App.header.ftab \in Nat /\ fsalloc(App.header) \in Nat
         /\ App.header.gfb.files \in Nat /\ App.header.iss.files = 0
         /\ App.header.isf.files \in Nat /\ App.header.isf.files <= 255
         /\ IdsTell(App) /\ ExtentsApart(App) /\ DefaultsInPlace(fs)
         /\ Sought(App) \subseteq Row
         /\ \A block \in Block : Counted(App, block) \subseteq Row
<1>1. fs \in DOMAIN Apps /\ Row = DOMAIN Apps[fs].table
  BY DEF FilesInv, RowsKept, Row, App
<1>2. Sought(App) \subseteq Row /\ \A block \in Block : Counted(App, block) \subseteq Row
  BY <1>1, SoughtRows DEF App
<1>3. App.header.isf.files \in Nat /\ App.header.isf.files <= 255
  <2>1. App.header.isf.files \in Id
    BY <1>1, AppFacts DEF App
  <2>2. QED
    BY <2>1 DEF Id
<1>4. QED
  BY <1>1, <1>2, <1>3, AppFacts DEF App

(* A search in a filesystem whose parameters are in its header looks at the  *)
(* files of the block that are counted.                                      *)
LEMMA WindowCounted ==
  ASSUME FilesInv, NEW block \in Block
  PROVE  Window(block) = Counted(App, block)
<1> DEFINE g == App.header.gfb.files
<1> DEFINE f == App.header.isf.files
<1>1. g \in Nat /\ f \in Nat /\ App.header.iss.files = 0
  BY AppHere
<1>2. Window(block) = IF block = "gfb" THEN 1 .. g ELSE g + 0 + 1 .. g + 0 + 1 + f - 1
  BY <1>1 DEF Window, Header, App
<1>3. Counted(App, block) = IF block = "gfb" THEN 1 .. g ELSE g + 1 .. g + f
  BY DEF Counted, App
<1> HIDE DEF g, f
<1>4. QED
  BY <1>1, <1>2, <1>3

(* And finds a file of that ID, the only one of the block. *)
LEMMA SearchedExact ==
  ASSUME FilesInv, App.multifs, NEW block \in Block, NEW id \in Id
  PROVE  Searched(block, id) = {i \in Counted(App, block) : App.table[i].id = id}
<1> DEFINE C == Counted(App, block)
<1> DEFINE M == {i \in C : App.table[i].id = id}
<1>1. C \subseteq Row /\ C \subseteq Nat
  BY AppHere, RowFacts
<1>2. \A i \in C : /\ table[i].id = App.table[i].id
                   /\ table[i].base \notin {0, NULL_vaddr}
  <2>1. C \subseteq Sought(App)
    BY DEF Sought, Block
  <2>2. \A i \in Sought(App) : App.table[i].base \notin {0, NULL_vaddr}
    BY AppHere DEF IdsTell
  <2>3. QED
    BY <1>1, <2>1, <2>2 DEF FilesInv, RowsKept, IdsKept
<1>3. \A i, j \in C : App.table[i].id = App.table[j].id => i = j
  BY AppHere DEF IdsTell
<1>4. Match(block, id) = M
  <2>1. Match(block, id) = {i \in C : table[i].base \notin {0, NULL_vaddr} /\ table[i].id = id}
    BY WindowCounted DEF Match
  <2> HIDE DEF C
  <2>2. QED
    BY <1>2, <2>1
<1>5. PICK quick : Searched(block, id) =
        IF quick \in C /\ table[quick].id = id THEN {quick}
        ELSE {i \in M : \A j \in M : i <= j}
  BY <1>4, WindowCounted DEF Searched
<1>6. \A i \in M, j \in M : i = j /\ i <= j
  <2> HIDE DEF C
  <2> SUFFICES ASSUME NEW i \in M, NEW j \in M PROVE i = j /\ i <= j
    OBVIOUS
  <2>1. i = j
    BY <1>3
  <2>2. i \in Nat
    BY <1>1
  <2>3. QED
    BY <2>1, <2>2
<1>7. {i \in M : \A j \in M : i <= j} = M
  <2> HIDE DEF M
  <2>1. QED
    BY <1>6
<1>8. CASE quick \in C /\ table[quick].id = id
  <2>1. quick \in M
    BY <1>2, <1>8
  <2> HIDE DEF M, C
  <2>2. {quick} = M
    BY <1>6, <2>1
  <2>3. QED
    BY <1>5, <1>8, <2>2 DEF M, C
<1>9. CASE ~(quick \in C /\ table[quick].id = id)
  <2> HIDE DEF M, C
  <2>1. Searched(block, id) = {i \in M : \A j \in M : i <= j}
    BY <1>5, <1>9
  <2>2. QED
    BY <1>7, <2>1 DEF M, C
<1>10. QED
  BY <1>8, <1>9

(* Where the row is computed, it is the row of the file that has the ID. *)
LEMMA ComputedExact ==
  ASSUME FilesInv, ~App.multifs, NEW id \in Id,
         NEW i \in Counted(App, "isf"), App.table[i].id = id
  PROVE  Computed("isf", id) = {i} /\ {j \in Counted(App, "isf") : App.table[j].id = id} = {i}
<1> DEFINE C == Counted(App, "isf")
<1> DEFINE g == App.header.gfb.files
<1> DEFINE f == App.header.isf.files
<1>1. g \in Nat /\ f \in Nat /\ f <= 255
  BY AppHere
<1>2. C = g + 1 .. g + f
  BY DEF Counted
<1>3. \A j \in C : App.table[j].id = j - g - 1
  BY AppHere DEF IdsTell
<1>4. Computed("isf", id) = {g + 1 + IF id = 255 THEN f ELSE id}
  BY DEF Computed, Header, App
<1> HIDE DEF g, f
<1>5. i \in Int /\ g + 1 <= i /\ i <= g + f /\ id = i - g - 1
  <2>1. i \in g + 1 .. g + f /\ id = i - g - 1
    BY <1>2, <1>3
  <2>2. QED
    BY <1>1, <2>1
<1>6. id # 255 /\ g + 1 + id = i
  BY <1>1, <1>5
<1>7. Computed("isf", id) = {i}
  BY <1>4, <1>6
<1>8. \A j \in C : App.table[j].id = id => j = i
  <2> HIDE DEF C
  <2> SUFFICES ASSUME NEW j \in C, App.table[j].id = id PROVE j = i
    OBVIOUS
  <2>1. j \in g + 1 .. g + f /\ id = j - g - 1
    BY <1>2, <1>3
  <2>2. QED
    BY <1>1, <1>5, <2>1
<1>9. QED
  BY <1>7, <1>8

(* The invariant makes a search answer with the file of the ID. *)
LEMMA InvLookup ==
  ASSUME FilesInv
  PROVE  LookupExact
<1> SUFFICES ASSUME NEW block \in Block, NEW id \in Id
             PROVE  LET present == {i \in Counted(Apps[fs], block) : Apps[fs].table[i].id = id}
                    IN IF Apps[fs].multifs
                         THEN Find(block, id) = present
                         ELSE block = "isf" /\ present # {} => Find(block, id) = present
  BY DEF LookupExact
<1> DEFINE present == {i \in Counted(App, block) : App.table[i].id = id}
<1>1. CASE App.multifs
  <2>1. Find(block, id) = present
    BY <1>1, SearchedExact DEF Find, App
  <2>2. QED
    BY <1>1, <2>1 DEF App
<1>2. CASE ~App.multifs
  <2>1. ASSUME block = "isf", present # {}
        PROVE  Find(block, id) = present
    <3>1. PICK i \in Counted(App, "isf") : App.table[i].id = id
      BY <2>1
    <3>2. Computed("isf", id) = {i} /\ present = {i}
      BY <1>2, <2>1, <3>1, ComputedExact
    <3>3. QED
      BY <1>2, <2>1, <3>2 DEF Find, App
  <2>2. QED
    BY <1>2, <2>1 DEF App
<1>3. QED
  BY <1>1, <1>2

(* A row that is found is one of those the extents of which are apart, and   *)
(* where files are found by their ID, it has the ID.                         *)
LEMMA FoundSought ==
  ASSUME FilesInv, NEW block \in Block, NEW id \in Id, NEW i \in Find(block, id) \cap Row
  PROVE  i \in Sought(App) /\ (App.multifs => App.table[i].id = id)
<1>1. CASE App.multifs
  <2>1. i \in Counted(App, block) /\ App.table[i].id = id
    BY <1>1, SearchedExact DEF Find, App
  <2>2. QED
    BY <1>1, <2>1 DEF Sought, Block
<1>2. CASE ~App.multifs
  <2>1. block # "gfb" /\ i \in Computed(block, id)
    BY <1>2 DEF Find, Computed, App
  <2> DEFINE g == App.header.gfb.files
  <2>2. g \in Nat /\ App.header.isf.files \in Nat /\ id \in Nat
    BY AppHere DEF Id
  <2>3. i = g + 1 + IF id = 255 THEN App.header.isf.files ELSE id
    BY <2>1 DEF Computed, Header, App
  <2>4. i \notin 1 .. g
    BY <2>2, <2>3
  <2>5. i \in DOMAIN App.table
    BY DEF FilesInv, RowsKept, Row
  <2>6. QED
    BY <1>2, <2>4, <2>5 DEF Sought, Counted
<1>3. QED
  BY <1>1, <1>2

(* Neither user nor guest is granted anything on a file that is root's. *)
LEMMA RootsRefused ==
  ASSUME NEW who, who \notin {"su", "root"}, NEW want, Granted(who, Mod(No, No), want)
  PROVE  FALSE
<1> DEFINE m == Mod(No, No)
<1>1. m.user = {} /\ m.guest = {}
  BY DEF Mod, No
<1>2. Keys!Required(m) = Keys!AUTHMOD_root
  BY <1>1 DEF Keys!Required
<1>3. Keys!LocalIndex(who, m) = Keys!NotFound
  BY <1>2 DEF Keys!LocalIndex
<1>4. Keys!Access(Keys!LocalIndex(who, m), m, want) = {}
  BY <1>1, <1>3 DEF Keys!Access
<1>5. QED
  BY <1>4 DEF Granted

-----------------------------------------------------------------------------
(* A filesystem just loaded: what its tables are makes the invariant hold. *)
Fresh ==
  /\ fs \in DOMAIN Apps
  /\ table = App.table
  /\ heap = Image(App)
  /\ stored = [i \in DOMAIN App.table |-> Never]
  /\ lent = {} /\ taken = {}

LEMMA FreshInv == Fresh => FilesInv
<1> SUFFICES ASSUME Fresh PROVE FilesInv
  OBVIOUS
<1>1. fs \in DOMAIN Apps /\ table = App.table /\ Row = DOMAIN App.table
  BY DEF Fresh, Row
<1>2. /\ App.table \in Seq(HeaderType)
      /\ ExtentsApart(App) /\ DefaultsInPlace(fs)
      /\ Sought(App) \subseteq Row
  BY <1>1, AppFacts, SoughtRows DEF App
<1>3. stored = [i \in Row |-> Never] /\ lent = {} /\ taken = {}
  BY <1>1 DEF Fresh
<1>4. TypeOK
  <2>1. \A i \in Row : table[i].len <= table[i].alloc
    BY <1>1, <1>2 DEF ExtentsApart
  <2>2. stored \in [Row -> Nat \cup {Never}]
    BY <1>3
  <2>3. lent \subseteq Row /\ taken \subseteq Row
    BY <1>3
  <2>4. QED
    BY <1>1, <1>2, <2>1, <2>2, <2>3 DEF TypeOK, HeaderType
<1>5. RowsKept
  <2>1. DOMAIN heap = App.header.ftab .. fsalloc(App.header) - 1
    BY DEF Fresh, Image
  <2>2. QED
    BY <1>1, <2>1 DEF RowsKept, Row
<1>6. IdsKept /\ DefaultModes /\ RootOnly
  BY <1>1, <1>3 DEF IdsKept, DefaultModes, RootOnly
<1>7. DataKept
  <2> SUFFICES ASSUME NEW i \in Sought(App)
               PROVE  /\ stored[i] = Never
                      /\ table[i].len = App.table[i].len
                      /\ <<fs, i>> \notin Astray => Holds(i, 0)
    BY DEF DataKept
  <2>1. stored[i] = Never /\ table[i].len = App.table[i].len
    BY <1>1, <1>2, <1>3
  <2>2. ASSUME <<fs, i>> \notin Astray
        PROVE  Holds(i, 0)
    <3>1. \A k \in 0 .. App.table[i].len - 1 : Image(App)[App.table[i].base + k] = <<i, k, 0>>
      BY <1>2, <2>2 DEF DefaultsInPlace, App
    <3>2. QED
      BY <1>1, <3>1 DEF Holds, Fresh
  <2>3. QED
    BY <2>1, <2>2
<1>8. QED
  BY <1>1, <1>4, <1>5, <1>6, <1>7 DEF FilesInv

LEMMA InitInv == Init => FilesInv
<1>1. Init => Fresh
  BY DEF Init, Fresh, App
<1>2. QED
  BY <1>1, FreshInv

LEMMA InitStep ==
  ASSUME FilesInv, vworm_init
  PROVE  FilesInv'
<1>1. fs' = fs /\ fs \in DOMAIN Apps
  BY DEF vworm_init, FilesInv
<1>2. Fresh'
  BY <1>1 DEF vworm_init, Loaded, Fresh, App
<1>3. Fresh' => FilesInv'
  BY FreshInv, PTL
<1>4. QED
  BY <1>2, <1>3

-----------------------------------------------------------------------------
(* A caller was granted something on a file: it joins those with a hand in   *)
(* it, and if it is user or guest, the file is not root's, or was handed on. *)
LEMMA TouchedKeeps ==
  ASSUME FilesInv, NEW i \in Row, NEW who \in Callers, NEW want,
         Granted(who, table[i].mod, want), Touched(i, who), fs' = fs
  PROVE  /\ lent' \subseteq Row /\ taken' \subseteq Row
         /\ i \in lent' \cup taken'
         /\ lent \cup taken \subseteq lent' \cup taken'
         /\ RootOnly'
<1>1. lent \subseteq Row /\ taken \subseteq Row /\ RootOnly /\ DefaultModes
  BY DEF FilesInv, TypeOK
<1>2. CASE who \in {"su", "root"}
  BY <1>1, <1>2 DEF Touched, RootOnly
<1>3. CASE who \notin {"su", "root"} /\ i \in lent \cup taken
  BY <1>1, <1>3 DEF Touched, RootOnly
<1>4. CASE who \notin {"su", "root"} /\ i \notin lent \cup taken
  <2>1. table[i].mod # Mod(No, No)
    BY <1>4, RootsRefused
  <2>2. App.table[i].mod # Mod(No, No)
    BY <1>1, <1>4, <2>1 DEF DefaultModes
  <2>3. lent' = lent /\ taken' = taken \cup {i}
    BY <1>4 DEF Touched
  <2>4. QED
    BY <1>1, <2>2, <2>3 DEF RootOnly, App
<1>5. QED
  BY <1>2, <1>3, <1>4

(* The headers after one of them got another record that leaves the file     *)
(* where it is. *)
LEMMA RowStep ==
  ASSUME FilesInv, fs' = fs, NEW i \in Row, NEW row \in HeaderType,
         table' = [table EXCEPT ![i] = row],
         row.alloc = table[i].alloc, row.base = table[i].base, row.mirror = table[i].mirror,
         row.len <= row.alloc, App.multifs => row.id = App.table[i].id,
         DOMAIN heap' = DOMAIN heap,
         lent \cup taken \subseteq lent' \cup taken', i \in lent' \cup taken'
  PROVE  /\ table' \in Seq(HeaderType) /\ Row' = Row
         /\ \A j \in Row : table'[j] = IF j = i THEN row ELSE table[j]
         /\ \A j \in Row : table'[j].len <= table'[j].alloc
         /\ RowsKept' /\ IdsKept' /\ DefaultModes'
<1>1. table \in Seq(HeaderType)
  BY DEF FilesInv, TypeOK, HeaderType
<1>2. table' \in Seq(HeaderType) /\ Row' = Row
  BY <1>1 DEF Row
<1>3. \A j \in Row : table'[j] = IF j = i THEN row ELSE table[j]
  BY DEF Row
<1>4. \A j \in Row : table[j].len <= table[j].alloc
  BY DEF FilesInv, TypeOK
<1>5. \A j \in Row : table'[j].len <= table'[j].alloc
  BY <1>3, <1>4
<1>6. App' = App
  BY DEF App
<1>7. RowsKept'
  <2>1. RowsKept
    BY DEF FilesInv
  <2>2. DOMAIN table' = DOMAIN App'.table
    BY <1>2, <1>6, <2>1 DEF RowsKept, Row
  <2>3. DOMAIN heap' = App'.header.ftab .. fsalloc(App'.header) - 1
    BY <1>6, <2>1 DEF RowsKept
  <2>4. \A j \in Row : /\ table'[j].alloc = App.table[j].alloc
                       /\ table'[j].base = App.table[j].base
                       /\ table'[j].mirror = App.table[j].mirror
    BY <1>3, <2>1 DEF RowsKept
  <2>5. QED
    BY <1>2, <1>6, <2>2, <2>3, <2>4 DEF RowsKept
<1>8. IdsKept'
  <2>1. IdsKept
    BY DEF FilesInv
  <2>2. QED
    BY <1>2, <1>3, <1>6, <2>1 DEF IdsKept
<1>9. DefaultModes'
  <2>1. DefaultModes
    BY DEF FilesInv
  <2>2. QED
    BY <1>2, <1>3, <1>6, <2>1 DEF DefaultModes
<1>10. QED
  BY <1>2, <1>3, <1>5, <1>7, <1>8, <1>9

(* vl_chmod. *)
LEMMA ChmodStep ==
  ASSUME FilesInv, NEW block \in Block, NEW id \in Id, NEW mode \in Mode, NEW who \in Callers,
         vl_chmod(block, id, mode, who)
  PROVE  FilesInv'
<1>1. PICK i \in vl_getheader(block, id, Mod(RW, RW), who) :
        /\ table' = [table EXCEPT ![i].mod = mode, ![i].id = id]
        /\ Touched(i, who)
        /\ UNCHANGED <<fs, heap, stored>>
  BY DEF vl_chmod
<1>2. i \in Row /\ i \in Find(block, id) /\ Granted(who, table[i].mod, Mod(RW, RW))
  BY DEF vl_getheader
<1>3. i \in Sought(App) /\ (App.multifs => App.table[i].id = id)
  BY <1>2, FoundSought
<1>4. /\ lent' \subseteq Row /\ taken' \subseteq Row
      /\ i \in lent' \cup taken'
      /\ lent \cup taken \subseteq lent' \cup taken'
      /\ RootOnly'
  BY <1>1, <1>2, TouchedKeeps
<1> DEFINE row == [table[i] EXCEPT !.mod = mode, !.id = id]
<1>5. /\ row \in HeaderType
      /\ row.alloc = table[i].alloc /\ row.base = table[i].base /\ row.mirror = table[i].mirror
      /\ row.id = id /\ row.len = table[i].len /\ row.len <= row.alloc
  BY <1>2, RowFacts DEF HeaderType
<1>6. table' = [table EXCEPT ![i] = row]
  BY <1>1
<1> HIDE DEF row
<1>7. /\ table' \in Seq(HeaderType) /\ Row' = Row
      /\ \A j \in Row : table'[j] = IF j = i THEN row ELSE table[j]
      /\ \A j \in Row : table'[j].len <= table'[j].alloc
      /\ RowsKept' /\ IdsKept' /\ DefaultModes'
  <2>1. fs' = fs /\ DOMAIN heap' = DOMAIN heap
    BY <1>1
  <2>2. App.multifs => row.id = App.table[i].id
    BY <1>3, <1>5
  <2>3. QED
    BY <1>2, <1>4, <1>5, <1>6, <2>1, <2>2, RowStep
<1>8. TypeOK'
  <2>1. stored' = stored /\ stored \in [Row -> Nat \cup {Never}]
    BY <1>1 DEF FilesInv, TypeOK
  <2>2. QED
    BY <1>4, <1>7, <2>1 DEF TypeOK, HeaderType
<1>9. DataKept'
  <2>1. App' = App /\ heap' = heap /\ stored' = stored /\ fs' = fs
    BY <1>1 DEF App
  <2> SUFFICES ASSUME NEW j \in Sought(App)
               PROVE  IF stored[j] # Never
                        THEN table'[j].len = Cut(j, stored[j])' /\ Holds(j, stored[j])'
                        ELSE table'[j].len = App.table[j].len /\ (<<fs, j>> \notin Astray => Holds(j, 0)')
    BY <2>1 DEF DataKept
  <2>2. /\ table'[j].len = table[j].len /\ table'[j].alloc = table[j].alloc
        /\ table'[j].base = table[j].base
    BY <1>5, <1>7, AppHere
  <2>3. \A n : Cut(j, n)' = Cut(j, n) /\ Holds(j, n)' = Holds(j, n)
    BY <2>1, <2>2 DEF Cut, Holds
  <2>4. DataKept
    BY DEF FilesInv
  <2>5. QED
    BY <2>1, <2>2, <2>3, <2>4 DEF DataKept
<1>10. fs' \in DOMAIN Apps
  BY <1>1 DEF FilesInv
<1>11. QED
  BY <1>4, <1>7, <1>8, <1>9, <1>10 DEF FilesInv

-----------------------------------------------------------------------------
(* The bytes of the files that may be found, as the headers say now. *)
LEMMA ExtentFacts ==
  ASSUME FilesInv, NEW i \in Sought(App)
  PROVE  /\ i \in Row
         /\ table[i].len \in Nat /\ table[i].alloc \in Nat /\ table[i].base \in Nat
         /\ table[i].len <= table[i].alloc
         /\ table[i].alloc % 2 = 0 /\ table[i].mirror = NULL_vaddr
         /\ Extent(table[i]) \subseteq DOMAIN heap
<1>1. i \in Row /\ ExtentsApart(App) /\ RowsKept
  BY AppHere DEF FilesInv
<1>2. table[i] \in HeaderType /\ table[i].len <= table[i].alloc
  BY <1>1, RowFacts
<1>3. /\ table[i].alloc = App.table[i].alloc
      /\ table[i].base = App.table[i].base
      /\ table[i].mirror = App.table[i].mirror
      /\ DOMAIN heap = App.header.ftab .. fsalloc(App.header) - 1
  BY <1>1 DEF RowsKept
<1>4. /\ App.table[i].alloc % 2 = 0 /\ App.table[i].mirror = NULL_vaddr
      /\ Extent(App.table[i]) \subseteq App.header.ftab .. fsalloc(App.header) - 1
  BY <1>1 DEF ExtentsApart
<1>5. Extent(table[i]) = Extent(App.table[i])
  BY <1>3 DEF Extent
<1>6. QED
  BY <1>1, <1>2, <1>3, <1>4, <1>5 DEF HeaderType

LEMMA ApartFacts ==
  ASSUME FilesInv, NEW i \in Sought(App), NEW j \in Sought(App), i # j
  PROVE  Extent(table[i]) \cap Extent(table[j]) = {}
<1>1. i \in Row /\ j \in Row /\ ExtentsApart(App) /\ RowsKept
  BY AppHere DEF FilesInv
<1>2. Extent(table[i]) = Extent(App.table[i]) /\ Extent(table[j]) = Extent(App.table[j])
  BY <1>1 DEF RowsKept, Extent
<1>3. Extent(App.table[i]) \cap Extent(App.table[j]) = {}
  BY <1>1 DEF ExtentsApart
<1>4. QED
  BY <1>2, <1>3

(* What is written in whole words of two bytes stays in the allocation. *)
LEMMA RoundedFits ==
  ASSUME NEW n \in Nat, NEW alloc \in Nat, alloc % 2 = 0, n <= alloc
  PROVE  Rounded(n, 2) \in Nat /\ n <= Rounded(n, 2) /\ Rounded(n, 2) <= alloc
<1>1. Rounded(n, 2) = ((n + 1) \div 2) * 2
  BY DEF Rounded
<1>2. QED
  BY <1>1

(* The heap after a store into a file: the file holds it, the others what    *)
(* they held.                                                                *)
LEMMA StoredApart ==
  ASSUME FilesInv, NEW i \in Sought(App), NEW n \in Nat, NEW length \in Nat,
         length <= table[i].alloc,
         heap' = [a \in DOMAIN heap |->
                    IF a \in table[i].base .. table[i].base + Rounded(length, 2) - 1
                      THEN <<i, a - table[i].base, n>> ELSE heap[a]]
  PROVE  /\ DOMAIN heap' = DOMAIN heap
         /\ \A k \in 0 .. length - 1 : heap'[table[i].base + k] = <<i, k, n>>
         /\ \A j \in Sought(App) \ {i} : \A k \in 0 .. table[j].len - 1 :
              heap'[table[j].base + k] = heap[table[j].base + k]
<1>1. PICK base, alloc, words :
        base = table[i].base /\ alloc = table[i].alloc /\ words = Rounded(length, 2)
  OBVIOUS
<1>2. base \in Nat /\ alloc \in Nat /\ words \in Nat /\ length <= words /\ words <= alloc
  BY <1>1, ExtentFacts, RoundedFits
<1>3. Extent(table[i]) = base .. base + alloc - 1 /\ Extent(table[i]) \subseteq DOMAIN heap
  BY <1>1, ExtentFacts DEF Extent
<1>4. heap' = [a \in DOMAIN heap |->
                 IF a \in base .. base + words - 1 THEN <<i, a - base, n>> ELSE heap[a]]
  BY <1>1
<1>5. ASSUME NEW k \in 0 .. length - 1
      PROVE  heap'[table[i].base + k] = <<i, k, n>>
  <2>1. /\ base + k \in base .. base + alloc - 1
        /\ base + k \in base .. base + words - 1
        /\ (base + k) - base = k
    BY <1>2
  <2>2. base + k \in DOMAIN heap
    BY <1>3, <2>1
  <2>3. QED
    BY <1>1, <1>4, <2>1, <2>2
<1>6. ASSUME NEW j \in Sought(App) \ {i}, NEW k \in 0 .. table[j].len - 1
      PROVE  heap'[table[j].base + k] = heap[table[j].base + k]
  <2>1. PICK b, l, z : b = table[j].base /\ l = table[j].len /\ z = table[j].alloc
    OBVIOUS
  <2>2. b \in Nat /\ l \in Nat /\ z \in Nat /\ l <= z
    BY <2>1, ExtentFacts
  <2>3. Extent(table[j]) = b .. b + z - 1 /\ Extent(table[j]) \subseteq DOMAIN heap
    BY <2>1, ExtentFacts DEF Extent
  <2>4. b + k \in b .. b + z - 1
    BY <2>1, <2>2
  <2>5. b + k \notin Extent(table[i]) /\ b + k \in DOMAIN heap
    BY <2>3, <2>4, ApartFacts
  <2>6. b + k \notin base .. base + words - 1
    BY <1>2, <1>3, <2>5
  <2>7. QED
    BY <1>4, <2>1, <2>5, <2>6
<1>7. QED
  BY <1>4, <1>5, <1>6

(* A store. *)
LEMMA StoreStep ==
  ASSUME FilesInv, NEW block \in Block, NEW id \in Id, NEW n \in Nat, NEW who \in Callers,
         Store(block, id, n, who)
  PROVE  FilesInv'
<1>1. PICK i \in vl_getheader(block, id, Mod(WO, WO), who) :
        /\ heap' = [a \in DOMAIN heap |->
             IF a \in table[i].base .. table[i].base + Rounded(Cut(i, n), 2) - 1
               THEN <<i, a - table[i].base, n>> ELSE heap[a]]
        /\ table' = [table EXCEPT ![i].len = Cut(i, n)]
        /\ stored' = [stored EXCEPT ![i] = n]
        /\ Touched(i, who)
        /\ UNCHANGED fs
  BY DEF Store, Cut
<1>2. i \in Row /\ i \in Find(block, id) /\ Granted(who, table[i].mod, Mod(WO, WO))
  BY DEF vl_getheader
<1>3. i \in Sought(App)
  BY <1>2, FoundSought
<1>4. /\ lent' \subseteq Row /\ taken' \subseteq Row
      /\ i \in lent' \cup taken'
      /\ lent \cup taken \subseteq lent' \cup taken'
      /\ RootOnly'
  BY <1>1, <1>2, TouchedKeeps
<1>5. PICK length : length = Cut(i, n)
  OBVIOUS
<1>6. length \in Nat /\ length <= table[i].alloc
  BY <1>3, <1>5, ExtentFacts DEF Cut
<1> DEFINE row == [table[i] EXCEPT !.len = length]
<1>7. /\ row \in HeaderType
      /\ row.alloc = table[i].alloc /\ row.base = table[i].base /\ row.mirror = table[i].mirror
      /\ row.id = table[i].id /\ row.len = length /\ row.len <= row.alloc
  BY <1>2, <1>6, RowFacts DEF HeaderType
<1>8. table' = [table EXCEPT ![i] = row]
  BY <1>1, <1>5
<1> HIDE DEF row
<1>9. /\ DOMAIN heap' = DOMAIN heap
      /\ \A k \in 0 .. length - 1 : heap'[table[i].base + k] = <<i, k, n>>
      /\ \A j \in Sought(App) \ {i} : \A k \in 0 .. table[j].len - 1 :
           heap'[table[j].base + k] = heap[table[j].base + k]
  <2>1. heap' = [a \in DOMAIN heap |->
                   IF a \in table[i].base .. table[i].base + Rounded(length, 2) - 1
                     THEN <<i, a - table[i].base, n>> ELSE heap[a]]
    BY <1>1, <1>5
  <2>2. QED
    BY ONLY FilesInv, <1>3, <1>6, <2>1, n \in Nat, StoredApart
<1>10. /\ table' \in Seq(HeaderType) /\ Row' = Row
       /\ \A j \in Row : table'[j] = IF j = i THEN row ELSE table[j]
       /\ \A j \in Row : table'[j].len <= table'[j].alloc
       /\ RowsKept' /\ IdsKept' /\ DefaultModes'
  <2>1. App.multifs => row.id = App.table[i].id
    BY <1>2, <1>7 DEF FilesInv, IdsKept
  <2>2. QED
    BY <1>1, <1>2, <1>4, <1>7, <1>8, <1>9, <2>1, RowStep
<1>11. TypeOK'
  <2>1. stored' \in [Row -> Nat \cup {Never}]
    BY <1>1, <1>2 DEF FilesInv, TypeOK
  <2>2. QED
    BY <1>4, <1>10, <2>1 DEF TypeOK, HeaderType
<1>12. DataKept'
  <2>1. App' = App /\ fs' = fs
    BY <1>1 DEF App
  <2>2. stored \in [Row -> Nat \cup {Never}] /\ n # Never
    BY DEF FilesInv, TypeOK, Never
  <2> SUFFICES ASSUME NEW j \in Sought(App)
               PROVE  IF stored'[j] # Never
                        THEN table'[j].len = Cut(j, stored[j])' /\ Holds(j, stored[j])'
                        ELSE table'[j].len = App.table[j].len /\ (<<fs, j>> \notin Astray => Holds(j, 0)')
    BY <2>1 DEF DataKept
  <2>3. j \in Row
    BY AppHere
  <2>4. CASE j = i
    <3>1. stored'[j] = n /\ table'[j] = row
      BY <1>1, <1>2, <1>10, <2>2, <2>4
    <3>2. table'[j].len = Cut(j, stored[j])'
      BY <1>5, <1>7, <2>4, <3>1 DEF Cut
    <3>3. Holds(j, stored[j])'
      BY <1>7, <1>9, <2>4, <3>1 DEF Holds
    <3>4. QED
      BY <2>2, <3>1, <3>2, <3>3
  <2>5. CASE j # i
    <3>1. stored'[j] = stored[j] /\ table'[j] = table[j]
      BY <1>1, <1>10, <2>2, <2>3, <2>5
    <3>2. Cut(j, stored[j])' = Cut(j, stored[j])
      BY <3>1 DEF Cut
    <3>3. \A k \in 0 .. table[j].len - 1 : heap'[table[j].base + k] = heap[table[j].base + k]
      BY <1>9, <2>5
    <3>4. /\ Holds(j, stored[j]) => Holds(j, stored[j])'
          /\ Holds(j, 0) => Holds(j, 0)'
      BY <3>1, <3>3 DEF Holds
    <3>5. DataKept
      BY DEF FilesInv
    <3>6. QED
      BY <3>1, <3>2, <3>4, <3>5 DEF DataKept
  <2>6. QED
    BY <2>4, <2>5
<1>13. fs' \in DOMAIN Apps
  BY <1>1 DEF FilesInv
<1>14. QED
  BY <1>4, <1>10, <1>11, <1>12, <1>13 DEF FilesInv

-----------------------------------------------------------------------------
(* What the invariant says of the bytes is what vl_load reads. *)
LEMMA InvLoad ==
  ASSUME FilesInv
  PROVE  LoadTrue
<1>1. ASSUME NEW i \in Sought(App), NEW n, Holds(i, n)
      PROVE  vl_load(i) = [k \in 0 .. table[i].len - 1 |-> <<i, k, n>>]
  <2>1. table[i].mirror = NULL_vaddr /\ Extent(table[i]) \subseteq DOMAIN heap
    BY ExtentFacts
  <2>2. PICK base, len, alloc : base = table[i].base /\ len = table[i].len /\ alloc = table[i].alloc
    OBVIOUS
  <2>3. base \in Nat /\ len \in Nat /\ alloc \in Nat /\ len <= alloc
    BY <2>2, ExtentFacts
  <2>4. \A k \in 0 .. len - 1 : base + k \in DOMAIN heap /\ heap[base + k] = <<i, k, n>>
    <3> SUFFICES ASSUME NEW k \in 0 .. len - 1
                 PROVE  base + k \in DOMAIN heap /\ heap[base + k] = <<i, k, n>>
      OBVIOUS
    <3>1. base + k \in base .. base + alloc - 1
      BY <2>3
    <3>2. base + k \in DOMAIN heap
      BY <2>1, <2>2, <3>1 DEF Extent
    <3>3. heap[base + k] = <<i, k, n>>
      BY <1>1, <2>2 DEF Holds
    <3>4. QED
      BY <3>2, <3>3
  <2>5. vl_load(i) = [k \in 0 .. len - 1 |->
                        IF base + k \in DOMAIN heap THEN heap[base + k] ELSE Unknown]
    BY <2>1, <2>2 DEF vl_load
  <2>6. QED
    BY <2>2, <2>4, <2>5
<1>2. Files \subseteq Sought(App)
  BY FoundSought DEF Files
<1>3. DataKept
  BY DEF FilesInv
<1> SUFFICES ASSUME NEW i \in Files
             PROVE  IF stored[i] # Never
                      THEN /\ table[i].len = Cut(i, stored[i])
                           /\ vl_load(i) = [k \in 0 .. table[i].len - 1 |-> <<i, k, stored[i]>>]
                      ELSE <<fs, i>> \notin Astray =>
                             /\ table[i].len = App.table[i].len
                             /\ vl_load(i) = [k \in 0 .. table[i].len - 1 |-> <<i, k, 0>>]
  BY DEF LoadTrue, Cut, App
<1>4. QED
  BY <1>1, <1>2, <1>3 DEF DataKept

LEMMA FilesInvariant == Spec => []FilesInv
<1>1. Init => FilesInv
  BY InitInv
<1>2. FilesInv /\ [Next]_vars => FilesInv'
  <2> SUFFICES ASSUME FilesInv, [Next]_vars
               PROVE  FilesInv'
    OBVIOUS
  <2>1. ASSUME NEW c \in Chmods, NEW who \in Callers, vl_chmod(c[1], c[2], c[3], who)
        PROVE  FilesInv'
    <3>1. c[1] \in Block /\ c[2] \in Id /\ c[3] \in Mode
      BY FilesAssumption
    <3>2. QED
      BY <2>1, <3>1, ChmodStep
  <2>2. ASSUME NEW s \in Stores, NEW who \in Callers, Store(s[1], s[2], s[3], who)
        PROVE  FilesInv'
    <3>1. s[1] \in Block /\ s[2] \in Id /\ s[3] \in Nat
      BY FilesAssumption
    <3>2. QED
      BY <2>2, <3>1, StoreStep
  <2>3. CASE vworm_init
    BY <2>3, InitStep
  <2>4. CASE UNCHANGED vars
    <3>1. /\ App' = App /\ fs' = fs /\ table' = table /\ heap' = heap /\ stored' = stored
          /\ lent' = lent /\ taken' = taken
      BY <2>4 DEF vars, App
    <3>2. FilesInv
      OBVIOUS
    <3>3. TypeOK' /\ RootOnly' /\ RowsKept' /\ IdsKept' /\ DefaultModes'
      BY <3>1, <3>2 DEF FilesInv, TypeOK, Row, RootOnly, RowsKept, IdsKept, DefaultModes
    <3>4. DataKept'
      BY <3>1, <3>2 DEF FilesInv, DataKept, Cut, Holds
    <3>5. QED
      BY <3>1, <3>2, <3>3, <3>4 DEF FilesInv
  <2>5. QED
    BY <2>1, <2>2, <2>3, <2>4 DEF Next
<1>3. QED
  BY <1>1, <1>2, PTL DEF Spec

(* Headers keep their type and lengths their allocation, in whatever order   *)
(* modes are changed, data is stored and the defaults are loaded again.      *)
THEOREM HeadersTyped == Spec => []TypeOK
<1>1. FilesInv => TypeOK
  BY DEF FilesInv
<1>2. QED
  BY <1>1, FilesInvariant, PTL

(* sub_header_search and sub_isf_search answer with the file of the block    *)
(* that has the ID, and find every file that is counted: vl_chmod, which     *)
(* writes an ID with the mode, writes the one that is there.                 *)
THEOREM SearchesAreExact == Spec => []LookupExact
<1>1. FilesInv => LookupExact
  BY InvLookup
<1>2. QED
  BY <1>1, FilesInvariant, PTL

(* vl_load reads what was last stored in the file, whatever was stored in    *)
(* others, and its default data if nothing was.                              *)
THEOREM LoadsAreTrue == Spec => []LoadTrue
<1>1. FilesInv => LoadTrue
  BY InvLoad
<1>2. QED
  BY <1>1, FilesInvariant, PTL

(* User and guest get no hand in a file of root's until su or root has had   *)
(* one in it (auth_check as vl_getheader_vaddr calls it).                    *)
THEOREM RootsFilesKept == Spec => []RootOnly
<1>1. FilesInv => RootOnly
  BY DEF FilesInv
<1>2. QED
  BY <1>1, FilesInvariant, PTL
==============================================================================
