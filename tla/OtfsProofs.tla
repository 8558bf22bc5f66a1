------------------------------ MODULE OtfsProofs ------------------------------
(* Theorems of module Otfs, for any sets of filesystem IDs, blocks, places   *)
(* of the application and data, and any table of file pointers, that satisfy *)
(* OtfsAssumption.                                                           *)
EXTENDS Otfs, WellFoundedInduction, TLAPS

-----------------------------------------------------------------------------
(* Judy's least member exists.                                               *)
LEMMA Least ==
  ASSUME NEW S, S \subseteq Nat, S # {}
  PROVE  \E i \in S : \A j \in S : i <= j
<1> DEFINE R == OpToRel(<, Nat)
<1>1. \A i, j \in Nat : <<j, i>> \in R <=> j < i
  BY DEF OpToRel
<1>2. IsWellFoundedOn(R, Nat)
  BY NatLessThanWellFounded
<1> HIDE DEF R
<1>3. PICK i \in S : \A j \in S : ~(<<j, i>> \in R)
  BY <1>2, WFMin
<1>4. ASSUME NEW j \in S
      PROVE  i <= j
  <2>1. i \in Nat /\ j \in Nat
    OBVIOUS
  <2>2. ~(j < i)
    BY <1>1, <1>3, <2>1, Zenon
  <2>3. QED
    BY <2>1, <2>2
<1>5. QED
  BY <1>4

(* The two outcomes of sub_pullfs.                                           *)
LEMMA PullCases ==
  ASSUME NEW S, S \subseteq Members, Members \subseteq FSID, NEW seen, Pull(S, seen)
  PROVE  \/ /\ S = {} \/ 0 \in S
            /\ walk' = "done" /\ visited' = seen
            /\ UNCHANGED <<fsram, files, ctx>>
         \/ \E i \in S :
              /\ i # 0 /\ \A j \in S : i <= j
              /\ cursor' = i
              /\ walk' = "on" /\ visited' = seen \cup {i}
              /\ SwitchTo(fstab[i]) /\ ctx' = i
<1>1. CASE S = {}
  BY <1>1 DEF Pull
<1>2. CASE S # {}
  <2> DEFINE i == CHOOSE i \in S : \A j \in S : i <= j
  <2>1. S \subseteq Nat
    BY OtfsAssumption
  <2>2. i \in S /\ \A j \in S : i <= j
    BY <1>2, <2>1, Least
  <2>3. /\ cursor' = i
        /\ IF i = 0
             THEN /\ walk' = "done" /\ visited' = seen
                  /\ UNCHANGED <<fsram, files, ctx>>
             ELSE /\ walk' = "on" /\ visited' = seen \cup {i}
                  /\ SwitchTo(fstab[i]) /\ ctx' = i
    BY <1>2 DEF Pull
  <2> HIDE DEF i
  <2>4. QED
    BY <2>2, <2>3
<1>3. QED
  BY <1>1, <1>2

-----------------------------------------------------------------------------
(* ContextTrue is not inductive: a freed block could be the context's, a     *)
(* call could fault, and a closed group could have a context.                *)
MemberTypes ==
  /\ Members \subseteq FSID
  /\ live \subseteq Base
  /\ fault = "none" \/ fault = "wild_header"

(* What must be freed by someone is still allocated, and has one owner.      *)
BlocksKept ==
  /\ own \cup Bases \subseteq live
  /\ own \cap Bases = {}
  /\ \A i, j \in Members : fstab[i] = fstab[j] => i = j

Closed == ~ready => ctx = NoID /\ Members = {}

(* The application holds no file pointer once its context is gone.           *)
Parted == ctx = NoID => Unheld

OtfsInv == MemberTypes /\ BlocksKept /\ ContextTrue /\ Closed /\ Parted

(* Calls that leave the group and its blocks alone, or switch to a member.   *)
LEMMA SwitchStep ==
  ASSUME OtfsInv, ready, UNCHANGED <<ready, fstab, blocks, fault>>,
         \/ UNCHANGED <<fsram, files, ctx>>
         \/ \E i \in Members : SwitchTo(fstab[i]) /\ ctx' = i
  PROVE  OtfsInv'
<1>1. UNCHANGED <<ready, fstab, live, own, fault>>
  BY DEF blocks
<1>2. MemberTypes' /\ BlocksKept' /\ Closed'
  BY <1>1 DEF OtfsInv, MemberTypes, BlocksKept, Closed, Members, Bases
<1>3. CASE UNCHANGED <<fsram, files, ctx>>
  BY <1>1, <1>2, <1>3 DEF OtfsInv, ContextTrue, Parted, Unheld, Members, files
<1>4. ASSUME NEW i \in Members, SwitchTo(fstab[i]), ctx' = i
      PROVE  OtfsInv'
  <2>1. fstab[i] \in live
    BY DEF OtfsInv, BlocksKept, Bases
  <2>2. ContextTrue'
    BY <1>1, <1>4, <2>1 DEF ContextTrue, Members, SwitchTo
  <2>3. Parted'
    BY <1>4, OtfsAssumption DEF Parted, OtfsInv, MemberTypes
  <2>4. QED
    BY <1>2, <2>2, <2>3 DEF OtfsInv
<1>5. QED
  BY <1>3, <1>4

(* File calls: the member checked out is allocated when one is made.         *)
LEMMA FileStep ==
  ASSUME OtfsInv, UNCHANGED <<group, fsram, blocks, ctx>>,
         fault' \in {"none", "wild_header"},
         Unheld => Unheld' \/ ctx # NoID
  PROVE  OtfsInv'
<1>1. UNCHANGED <<ready, fstab, fsram, live, own, ctx>>
  BY DEF group, blocks
<1>2. QED
  BY <1>1 DEF OtfsInv, MemberTypes, BlocksKept, ContextTrue, Closed, Parted, Members, Bases

LEMMA NewStep ==
  ASSUME OtfsInv, NEW i \in FSID, NEW b \in Base, otfs_new(i, b)
  PROVE  OtfsInv'
<1>1. ready /\ b \in own /\ UNCHANGED <<ready, live, fault>>
  BY DEF otfs_new
<1>2. CASE i \in Members
  BY <1>1, <1>2, SwitchStep DEF otfs_new, blocks
<1>3. CASE i \notin Members
  <2>1. /\ fstab' = [j \in Members \cup {i} |-> IF j = i THEN b ELSE fstab[j]]
        /\ own' = own \ {b} /\ fsram' = b /\ ctx' = i
    BY <1>3 DEF otfs_new, SwitchTo
  <2>2. Members' = Members \cup {i}
    BY <2>1 DEF Members
  <2>3. Bases' = Bases \cup {b}
    BY <1>3, <2>1, <2>2 DEF Bases
  <2>4. b \notin Bases /\ b \in live
    BY <1>1 DEF OtfsInv, BlocksKept
  <2>5. \A j, k \in Members' : fstab'[j] = fstab'[k] => j = k
    BY <1>3, <2>1, <2>2, <2>4 DEF OtfsInv, BlocksKept, Bases
  <2>6. MemberTypes' /\ Closed'
    BY <1>1, <2>2 DEF OtfsInv, MemberTypes, Closed
  <2>7. BlocksKept'
    BY <1>1, <2>1, <2>3, <2>4, <2>5 DEF OtfsInv, BlocksKept
  <2>8. ContextTrue'
    BY <1>1, <2>1, <2>2, <2>4 DEF ContextTrue
  <2>9. Parted'
    BY <2>1, OtfsAssumption DEF Parted
  <2>10. QED
    BY <2>6, <2>7, <2>8, <2>9 DEF OtfsInv
<1>4. QED
  BY <1>2, <1>3

(* The base of the member that goes is no other member's.                    *)
LEMMA DelBases ==
  ASSUME BlocksKept, NEW i \in Members, fstab' = [j \in Members \ {i} |-> fstab[j]]
  PROVE  /\ Members' = Members \ {i}
         /\ Bases' = Bases \ {fstab[i]}
         /\ \A j \in Members' : fstab'[j] = fstab[j]
<1>1. Members' = Members \ {i} /\ \A j \in Members' : fstab'[j] = fstab[j]
  BY DEF Members
<1>2. QED
  BY <1>1 DEF Bases, BlocksKept

LEMMA DelStep ==
  ASSUME OtfsInv, NEW i \in FSID, NEW b \in Base, NEW free_fn \in BOOLEAN,
         otfs_del(i, b, free_fn)
  PROVE  OtfsInv'
<1>1. ready /\ UNCHANGED <<ready, fsram, files>> /\ (Unheld \/ i # ctx)
  BY DEF otfs_del
<1>2. CASE i \notin Members
  BY <1>1, <1>2, SwitchStep DEF otfs_del
<1>3. CASE i \in Members
  <2>1. /\ b = fstab[i] /\ fstab' = [j \in Members \ {i} |-> fstab[j]]
        /\ ctx' = IF ctx = i THEN NoID ELSE ctx
        /\ IF free_fn THEN Free({b}) /\ UNCHANGED own
                      ELSE own' = own \cup {b} /\ UNCHANGED <<live, fault>>
    BY <1>3 DEF otfs_del
  <2>2. /\ Members' = Members \ {i} /\ Bases' = Bases \ {b}
        /\ \A j \in Members' : fstab'[j] = fstab[j]
    BY <1>3, <2>1, DelBases DEF OtfsInv
  <2>3. b \in Bases /\ b \in live /\ b \notin own
    BY <1>3, <2>1 DEF Bases, OtfsInv, BlocksKept
  <2>4. \/ live' = live \ {b} /\ own' = own /\ fault' = fault
        \/ live' = live /\ own' = own \cup {b} /\ fault' = fault
    BY <2>1, <2>3 DEF Free
  <2>5. MemberTypes' /\ Closed'
    BY <1>1, <2>2, <2>4 DEF OtfsInv, MemberTypes, Closed
  <2>6. BlocksKept'
    BY <2>2, <2>3, <2>4 DEF OtfsInv, BlocksKept
  <2>7. ContextTrue'
    <3>1. SUFFICES ASSUME ctx' # NoID
                   PROVE  ctx' \in Members' /\ fstab'[ctx'] = fsram' /\ fsram' \in live'
      BY DEF ContextTrue
    <3>2. ctx' = ctx /\ ctx # i /\ ctx # NoID
      BY <2>1, <3>1
    <3>3. ctx \in Members /\ fstab[ctx] = fsram /\ fsram \in live
      BY <3>2 DEF OtfsInv, ContextTrue
    <3>4. fsram # b
      BY <1>3, <2>1, <3>2, <3>3 DEF OtfsInv, BlocksKept
    <3>5. QED
      BY <1>1, <2>2, <2>4, <3>2, <3>3, <3>4
  <2>8. Parted'
    BY <1>1, <2>1 DEF OtfsInv, Parted, Unheld, files
  <2>9. QED
    BY <2>5, <2>6, <2>7, <2>8 DEF OtfsInv
<1>4. QED
  BY <1>2, <1>3

LEMMA DeinitStep ==
  ASSUME OtfsInv, NEW free_fn \in BOOLEAN, otfs_deinit(free_fn)
  PROVE  OtfsInv'
<1>1. ~ready' /\ fstab' = <<>> /\ ctx' = NoID /\ Unheld
  BY DEF otfs_deinit
<1>2. Members' = {} /\ Bases' = {}
  BY <1>1 DEF Members, Bases
<1>3. UNCHANGED held
  BY DEF otfs_deinit, files, SwitchTo
<1>4. own' \subseteq live' /\ live' \subseteq live /\ fault' = fault
  <2>1. own \subseteq live /\ Bases \subseteq live /\ own \cap Bases = {}
    BY DEF OtfsInv, BlocksKept
  <2>2. \/ own' = own /\ live' = live /\ fault' = fault
        \/ own' = own /\ Free(Bases)
        \/ own' = own \cup Bases /\ live' = live /\ fault' = fault
    BY DEF otfs_deinit
  <2>3. QED
    BY <2>1, <2>2 DEF Free
<1>5. QED
  BY <1>1, <1>2, <1>3, <1>4
     DEF OtfsInv, MemberTypes, BlocksKept, ContextTrue, Closed, Parted, Unheld, Members

LEMMA OtfsInvStep ==
  ASSUME OtfsInv, open \subseteq Slot, [Next]_vars
  PROVE  OtfsInv'
<1>1. CASE UNCHANGED vars
  BY <1>1 DEF vars, group, blocks, files, OtfsInv, MemberTypes, BlocksKept, ContextTrue,
              Closed, Parted, Unheld, Members, Bases
<1>2. CASE otfs_init
  <2>1. Members' = {} /\ Bases' = {}
    BY <1>2 DEF otfs_init, Members, Bases
  <2>2. /\ ctx = NoID /\ Members = {} /\ ready'
        /\ UNCHANGED <<live, own, held, ctx, fault>>
    BY <1>2 DEF otfs_init, OtfsInv, Closed, blocks, files
  <2>3. QED
    BY <2>1, <2>2 DEF OtfsInv, MemberTypes, BlocksKept, ContextTrue, Closed, Parted, Unheld,
                      Members
<1>3. CASE otfs_load_defaults
  <2>1. PICK b \in Base \ live : live' = live \cup {b} /\ own' = own \cup {b}
    BY <1>3 DEF otfs_load_defaults
  <2>2. UNCHANGED <<ready, fstab, fsram, held, ctx, fault>>
    BY <1>3 DEF otfs_load_defaults, group, files
  <2>3. BlocksKept'
    BY <2>1, <2>2 DEF OtfsInv, BlocksKept, Members, Bases
  <2>4. QED
    BY <2>1, <2>2, <2>3 DEF OtfsInv, MemberTypes, ContextTrue, Closed, Parted, Unheld, Members
<1>4. ASSUME NEW i \in FSID, NEW b \in Base, otfs_new(i, b)
      PROVE  OtfsInv'
  BY <1>4, NewStep
<1>5. ASSUME NEW i \in FSID, NEW b \in Base, NEW free_fn \in BOOLEAN, otfs_del(i, b, free_fn)
      PROVE  OtfsInv'
  BY <1>5, DelStep
<1>6. ASSUME NEW i \in FSID, otfs_setfs(i)
      PROVE  OtfsInv'
  BY <1>6, SwitchStep DEF otfs_setfs
<1>7. ASSUME NEW S, S \subseteq Members, NEW seen, Pull(S, seen), ready,
             UNCHANGED <<ready, fstab, blocks, fault>>
      PROVE  OtfsInv'
  <2>1. Members \subseteq FSID
    BY DEF OtfsInv, MemberTypes
  <2>2. \/ UNCHANGED <<fsram, files, ctx>>
        \/ \E i \in Members : SwitchTo(fstab[i]) /\ ctx' = i
    BY <1>7, <2>1, PullCases
  <2>3. QED
    BY <1>7, <2>2, SwitchStep
<1>8. CASE otfs_iterator_start
  BY <1>7, <1>8 DEF otfs_iterator_start
<1>9. CASE otfs_iterator_next
  <2>1. {j \in Members : j > cursor} \subseteq Members
    OBVIOUS
  <2>2. QED
    BY <1>7, <1>9, <2>1 DEF otfs_iterator_next
<1>10. ASSUME NEW free_fn \in BOOLEAN, otfs_deinit(free_fn)
       PROVE  OtfsInv'
  BY <1>10, DeinitStep
<1>11. ASSUME NEW c \in Client, vl_open(c)
       PROVE  OtfsInv'
  <2>1. ctx # NoID /\ UNCHANGED <<group, fsram, blocks, ctx>> /\ Touch
    BY <1>11 DEF vl_open
  <2>2. fault' = "none"
    BY <2>1 DEF Touch, OtfsInv, ContextTrue
  <2>3. QED
    BY <2>1, <2>2, FileStep
<1>12. ASSUME NEW c \in Client, NEW v \in Value, vl_write(c, v)
       PROVE  OtfsInv'
  <2>1. held[c] # NoFp
    BY <1>12 DEF Slot, NoFp, vl_write
  <2>2. ctx # NoID
    BY <2>1 DEF OtfsInv, Parted, Unheld
  <2>3. UNCHANGED <<group, fsram, blocks, files, ctx>> /\ Touch
    BY <1>12 DEF vl_write
  <2>4. fault' = "none"
    BY <2>2, <2>3 DEF Touch, OtfsInv, ContextTrue
  <2>5. QED
    BY <2>2, <2>3, <2>4, FileStep
<1>13. ASSUME NEW c \in Client, vl_close(c)
       PROVE  OtfsInv'
  <2>1. ctx # NoID
    BY <1>13 DEF vl_close, OtfsInv, Parted, Unheld
  <2>2. UNCHANGED <<group, fsram, blocks, ctx>> /\ (Touch \/ fault' = "wild_header")
    BY <1>13 DEF vl_close
  <2>3. fault' \in {"none", "wild_header"}
    BY <2>1, <2>2 DEF Touch, OtfsInv, ContextTrue
  <2>4. QED
    BY <2>1, <2>2, <2>3, FileStep
<1>14. ASSUME NEW c \in Client, forget(c)
       PROVE  OtfsInv'
  <2>1. ctx # NoID
    BY <1>14 DEF forget, OtfsInv, Parted, Unheld
  <2>2. UNCHANGED <<group, fsram, blocks, ctx, fault>>
    BY <1>14 DEF forget
  <2>3. QED
    BY <2>1, <2>2, FileStep DEF OtfsInv, MemberTypes
<1>15. QED
  BY <1>1, <1>2, <1>3, <1>4, <1>5, <1>6, <1>8, <1>9, <1>10, <1>11, <1>12, <1>13, <1>14 DEF Next

-----------------------------------------------------------------------------
(* The places of the application and the table of file pointers.             *)
HandleTypes ==
  /\ open \subseteq Slot
  /\ held \in [Client -> Slot \cup {NoFp}]
  /\ home \in [Client -> Base \cup {NullBase}]

HandleInv == HandleTypes /\ StaleIsDead

(* A switch leaves no entry open, and other calls leave entries and context. *)
LEMMA HandleSwitch ==
  ASSUME HandleInv,
         UNCHANGED <<fsram, files>> \/ \E b : SwitchTo(b)
  PROVE  HandleInv'
<1>1. CASE UNCHANGED <<fsram, files>>
  BY <1>1 DEF files, HandleInv, HandleTypes, StaleIsDead
<1>2. CASE \E b : SwitchTo(b)
  BY <1>2 DEF SwitchTo, HandleInv, HandleTypes, StaleIsDead
<1>3. QED
  BY <1>1, <1>2

LEMMA HandleOpen ==
  ASSUME OtfsInv, HandleInv, NEW c \in Client, vl_open(c)
  PROVE  HandleInv'
<1>1. PICK s \in Slot \ open :
        open' = open \cup {s} /\ held' = [held EXCEPT ![c] = s]
  BY DEF vl_open
<1>2. home' = [home EXCEPT ![c] = fsram] /\ UNCHANGED fsram /\ ctx # NoID /\ held[c] = NoFp
  BY DEF vl_open
<1>3. fsram \in Base
  BY <1>2 DEF OtfsInv, ContextTrue, MemberTypes
<1>4. HandleTypes'
  BY <1>1, <1>2, <1>3 DEF HandleInv, HandleTypes
<1>5. ASSUME NEW d \in Client, held'[d] \in open'
      PROVE  \E e \in Client : held'[e] = held'[d] /\ home'[e] = fsram'
  <2>1. held'[c] = s /\ home'[c] = fsram'
    BY <1>1, <1>2 DEF HandleInv, HandleTypes
  <2>2. CASE held'[d] = s
    BY <2>1, <2>2
  <2>3. CASE held'[d] # s
    <3>1. d # c /\ held'[d] = held[d] /\ held[d] \in open
      BY <1>1, <1>5, <2>1, <2>3 DEF HandleInv, HandleTypes
    <3>2. PICK e \in Client : held[e] = held[d] /\ home[e] = fsram
      BY <3>1 DEF HandleInv, StaleIsDead
    <3>3. e # c
      BY <1>2, <3>1, <3>2 DEF HandleInv, HandleTypes, Slot, NoFp
    <3>4. held'[e] = held[e] /\ home'[e] = home[e]
      BY <1>1, <1>2, <3>3 DEF HandleInv, HandleTypes
    <3>5. QED
      BY <1>2, <3>1, <3>2, <3>4
  <2>4. QED
    BY <2>2, <2>3
<1>6. QED
  BY <1>4, <1>5 DEF HandleInv, StaleIsDead

(* A pointer that is given up, closed or not.                                *)
LEMMA HandleDrop ==
  ASSUME HandleInv, NEW c \in Client, open' = open \ {held[c]}, UNCHANGED fsram,
         held' = [held EXCEPT ![c] = NoFp], home' = [home EXCEPT ![c] = NullBase]
  PROVE  HandleInv'
<1>1. HandleTypes'
  BY DEF HandleInv, HandleTypes
<1>2. ASSUME NEW d \in Client, held'[d] \in open'
      PROVE  \E e \in Client : held'[e] = held'[d] /\ home'[e] = fsram'
  <2>1. d # c
    BY <1>2 DEF HandleInv, HandleTypes, Slot, NoFp
  <2>2. held'[d] = held[d] /\ held[d] \in open /\ held[d] # held[c]
    BY <1>2, <2>1 DEF HandleInv, HandleTypes
  <2>3. PICK e \in Client : held[e] = held[d] /\ home[e] = fsram
    BY <2>2 DEF HandleInv, StaleIsDead
  <2>4. e # c
    BY <2>2, <2>3
  <2>5. held'[e] = held[e] /\ home'[e] = home[e]
    BY <2>4 DEF HandleInv, HandleTypes
  <2>6. QED
    BY <2>2, <2>3, <2>5
<1>3. QED
  BY <1>1, <1>2 DEF HandleInv, StaleIsDead

LEMMA HandleInvStep ==
  ASSUME OtfsInv, HandleInv, [Next]_vars
  PROVE  HandleInv'
<1>1. CASE UNCHANGED vars
  BY <1>1, HandleSwitch DEF vars
<1>2. CASE otfs_init \/ otfs_load_defaults
  BY <1>2, HandleSwitch DEF otfs_init, otfs_load_defaults
<1>3. ASSUME NEW i \in FSID, NEW b \in Base, otfs_new(i, b)
      PROVE  HandleInv'
  BY <1>3, HandleSwitch DEF otfs_new
<1>4. ASSUME NEW i \in FSID, NEW b \in Base, NEW free_fn \in BOOLEAN, otfs_del(i, b, free_fn)
      PROVE  HandleInv'
  BY <1>4, HandleSwitch DEF otfs_del
<1>5. ASSUME NEW i \in FSID, otfs_setfs(i)
      PROVE  HandleInv'
  BY <1>5, HandleSwitch DEF otfs_setfs
<1>6. ASSUME NEW S, S \subseteq Members, NEW seen, Pull(S, seen)
      PROVE  HandleInv'
  BY <1>6, HandleSwitch, PullCases DEF OtfsInv, MemberTypes
<1>7. CASE otfs_iterator_start
  BY <1>6, <1>7 DEF otfs_iterator_start
<1>8. CASE otfs_iterator_next
  <2>1. {j \in Members : j > cursor} \subseteq Members
    OBVIOUS
  <2>2. QED
    BY <1>6, <1>8, <2>1 DEF otfs_iterator_next
<1>9. ASSUME NEW free_fn \in BOOLEAN, otfs_deinit(free_fn)
      PROVE  HandleInv'
  BY <1>9, HandleSwitch DEF otfs_deinit
<1>10. ASSUME NEW c \in Client, vl_open(c)
       PROVE  HandleInv'
  BY <1>10, HandleOpen
<1>11. ASSUME NEW c \in Client, NEW v \in Value, vl_write(c, v)
       PROVE  HandleInv'
  BY <1>11, HandleSwitch DEF vl_write
<1>12. ASSUME NEW c \in Client, vl_close(c)
       PROVE  HandleInv'
  BY <1>12, HandleDrop DEF vl_close
<1>13. ASSUME NEW c \in Client, forget(c)
       PROVE  HandleInv'
  <2>1. open' = open \ {held[c]}
    BY <1>13 DEF forget
  <2>2. QED
    BY <1>13, <2>1, HandleDrop DEF forget
<1>14. QED
  BY <1>1, <1>2, <1>3, <1>4, <1>5, <1>7, <1>8, <1>9, <1>10, <1>11, <1>12, <1>13 DEF Next

GroupInv == OtfsInv /\ HandleInv

LEMMA GroupInvInit == Init => GroupInv
BY OtfsAssumption
   DEF Init, GroupInv, OtfsInv, MemberTypes, BlocksKept, ContextTrue, Closed, Parted, Unheld,
       Members, Bases, HandleInv, HandleTypes, StaleIsDead, NoFp

LEMMA GroupInvStep == GroupInv /\ [Next]_vars => GroupInv'
BY OtfsInvStep, HandleInvStep DEF GroupInv, HandleInv, HandleTypes

LEMMA GroupInvariant == Spec => []GroupInv
<1>1. QED
  BY GroupInvInit, GroupInvStep, PTL DEF Spec

(* The context is the one the last successful call made it, and allocated,   *)
(* whatever calls failed and whatever was deleted since.                     *)
THEOREM ContextKept == Spec => []ContextTrue
<1>1. GroupInv => ContextTrue
  BY DEF GroupInv, OtfsInv
<1>2. QED
  BY <1>1, GroupInvariant, PTL

(* No file call reaches a freed block and none is freed twice, provided the  *)
(* application deletes the context with no file open only.                   *)
THEOREM NeverFreed == Spec => []NoFreedAccess
<1>1. GroupInv => NoFreedAccess
  BY DEF GroupInv, OtfsInv, MemberTypes, NoFreedAccess
<1>2. QED
  BY <1>1, GroupInvariant, PTL

(* A pointer from before a switch reaches no data of the new context, unless *)
(* its entry was opened again there.                                         *)
THEOREM StaleDead == Spec => []StaleIsDead
<1>1. GroupInv => StaleIsDead
  BY DEF GroupInv, HandleInv
<1>2. QED
  BY <1>1, GroupInvariant, PTL

-----------------------------------------------------------------------------
(* That no block is lost needs that no member has ID 0, at which an          *)
(* otfs_deinit that frees stops.                                             *)
LiveOwned == live = own \cup Bases

LEMMA OwnedStep ==
  ASSUME 0 \notin FSID, OtfsInv, LiveOwned, [Next]_vars
  PROVE  LiveOwned'
<1>1. CASE UNCHANGED <<fstab, live, own>>
  BY <1>1 DEF LiveOwned, Bases, Members
<1>2. CASE otfs_init
  <2>1. Members' = {} /\ Bases' = {} /\ Bases = {} /\ UNCHANGED <<live, own>>
    BY <1>2 DEF otfs_init, Members, Bases, OtfsInv, Closed, blocks
  <2>2. QED
    BY <2>1 DEF LiveOwned
<1>3. CASE otfs_load_defaults
  BY <1>3 DEF otfs_load_defaults, group, LiveOwned, Bases, Members
<1>4. ASSUME NEW i \in FSID, NEW b \in Base, otfs_new(i, b)
      PROVE  LiveOwned'
  <2>1. CASE i \in Members
    BY <1>1, <1>4, <2>1 DEF otfs_new
  <2>2. CASE i \notin Members
    <3>1. /\ fstab' = [j \in Members \cup {i} |-> IF j = i THEN b ELSE fstab[j]]
          /\ own' = own \ {b} /\ b \in own /\ UNCHANGED live
      BY <1>4, <2>2 DEF otfs_new
    <3>2. Members' = Members \cup {i}
      BY <3>1 DEF Members
    <3>3. Bases' = Bases \cup {b}
      BY <2>2, <3>1, <3>2 DEF Bases
    <3>4. QED
      BY <3>1, <3>3 DEF LiveOwned
  <2>3. QED
    BY <2>1, <2>2
<1>5. ASSUME NEW i \in FSID, NEW b \in Base, NEW free_fn \in BOOLEAN, otfs_del(i, b, free_fn)
      PROVE  LiveOwned'
  <2>1. CASE i \notin Members
    BY <1>1, <1>5, <2>1 DEF otfs_del, blocks
  <2>2. CASE i \in Members
    <3>1. Bases' = Bases \ {b} /\ b \in Bases /\ b \notin own
      BY <1>5, <2>2, DelBases DEF otfs_del, OtfsInv, BlocksKept, Bases
    <3>2. \/ live' = live \ {b} /\ own' = own
          \/ live' = live /\ own' = own \cup {b}
      BY <1>5, <2>2 DEF otfs_del, Free
    <3>3. QED
      BY <3>1, <3>2 DEF LiveOwned
  <2>3. QED
    BY <2>1, <2>2
<1>6. ASSUME NEW i \in FSID, otfs_setfs(i)
      PROVE  LiveOwned'
  BY <1>1, <1>6 DEF otfs_setfs, blocks
<1>7. CASE otfs_iterator_start \/ otfs_iterator_next
  BY <1>1, <1>7 DEF otfs_iterator_start, otfs_iterator_next, blocks
<1>8. ASSUME NEW free_fn \in BOOLEAN, otfs_deinit(free_fn)
      PROVE  LiveOwned'
  <2>1. Bases' = {}
    BY <1>8 DEF otfs_deinit, Bases, Members
  <2>2. own \cap Bases = {} /\ 0 \notin Members
    BY DEF OtfsInv, BlocksKept, MemberTypes
  <2>3. \/ Members = {} /\ own' = own /\ live' = live
        \/ own' = own /\ live' = live \ Bases
        \/ own' = own \cup Bases /\ live' = live
    BY <1>8, <2>2 DEF otfs_deinit, Free
  <2>4. Members = {} => Bases = {}
    BY DEF Bases
  <2>5. QED
    BY <2>1, <2>2, <2>3, <2>4 DEF LiveOwned
<1>9. ASSUME NEW c \in Client, vl_open(c) \/ vl_close(c) \/ forget(c)
      PROVE  LiveOwned'
  BY <1>1, <1>9 DEF vl_open, vl_close, forget, group, blocks
<1>10. ASSUME NEW c \in Client, NEW v \in Value, vl_write(c, v)
       PROVE  LiveOwned'
  BY <1>1, <1>10 DEF vl_write, group, blocks
<1>11. CASE UNCHANGED vars
  BY <1>1, <1>11 DEF vars, group, blocks
<1>12. QED
  BY <1>2, <1>3, <1>4, <1>5, <1>6, <1>7, <1>8, <1>9, <1>10, <1>11 DEF Next

(* No block is lost and none has two owners, whatever calls fail, unless a   *)
(* filesystem has ID 0.                                                      *)
THEOREM NothingLost == 0 \notin FSID /\ Spec => []BlocksAccounted
<1> DEFINE Inv == 0 \notin FSID /\ LiveOwned /\ GroupInv
<1>1. 0 \notin FSID /\ Init => Inv
  BY GroupInvInit DEF Init, LiveOwned, Bases, Members
<1>2. Inv /\ [Next]_vars => Inv'
  BY GroupInvStep, OwnedStep DEF GroupInv
<1>3. Inv => BlocksAccounted
  BY DEF BlocksAccounted, LiveOwned, GroupInv, OtfsInv, BlocksKept
<1> HIDE DEF Inv
<1>4. QED
  BY <1>1, <1>2, <1>3, PTL DEF Spec

-----------------------------------------------------------------------------
(* The iterator's cursor is a member's, and no iteration outlives the group. *)
WalkInv ==
  /\ walk = "on" => cursor \in FSID
  /\ ~ready => walk = "off"
  /\ WalkExact

LEMMA WalkOff ==
  ASSUME walk' = "off"
  PROVE  WalkInv'
BY DEF WalkInv, WalkExact

LEMMA WalkKept ==
  ASSUME WalkInv, UNCHANGED <<group, ctx, walk, visited>>
  PROVE  WalkInv'
BY DEF WalkInv, WalkExact, group, Members

LEMMA WalkStart ==
  ASSUME 0 \notin FSID, OtfsInv, otfs_iterator_start
  PROVE  WalkInv'
<1>1. ready' /\ Members' = Members /\ Pull(Members, {}) /\ Members \subseteq FSID
  BY DEF otfs_iterator_start, Members, OtfsInv, MemberTypes
<1>2. CASE Members = {} /\ walk' = "done" /\ visited' = {}
  BY <1>1, <1>2 DEF WalkInv, WalkExact
<1>3. ASSUME NEW i \in Members, \A j \in Members : i <= j,
             cursor' = i, walk' = "on", visited' = {} \cup {i}, ctx' = i
      PROVE  WalkInv'
  <2>1. Members \subseteq Nat
    BY <1>1, OtfsAssumption
  <2>2. \A j \in Members : j <= i <=> j = i
    <3>1. \A j \in Members : j \in Nat /\ i \in Nat /\ i <= j
      BY <1>3, <2>1
    <3>2. QED
      BY <3>1
  <2>3. {j \in Members : j <= i} = {i}
    BY <2>2
  <2>4. QED
    BY <1>1, <1>3, <2>3 DEF WalkInv, WalkExact
<1>4. QED
  BY <1>1, <1>2, <1>3, PullCases

LEMMA WalkNext ==
  ASSUME 0 \notin FSID, OtfsInv, WalkInv, otfs_iterator_next
  PROVE  WalkInv'
<1> DEFINE S == {j \in Members : j > cursor}
<1>1. /\ ready' /\ Members' = Members /\ Pull(S, visited) /\ Members \subseteq FSID
      /\ S \subseteq Members /\ 0 \notin S
  BY DEF otfs_iterator_next, Members, OtfsInv, MemberTypes
<1>2. cursor \in Nat /\ Members \subseteq Nat /\ visited = {j \in Members : j <= cursor}
  BY <1>1, OtfsAssumption DEF otfs_iterator_next, WalkInv, WalkExact
<1>3. CASE S = {} /\ walk' = "done" /\ visited' = visited
  <2>1. \A j \in Members : j <= cursor
    BY <1>2, <1>3
  <2>2. QED
    BY <1>1, <1>2, <1>3, <2>1 DEF WalkInv, WalkExact
<1>4. ASSUME NEW i \in S, \A j \in S : i <= j,
             cursor' = i, walk' = "on", visited' = visited \cup {i}, ctx' = i
      PROVE  WalkInv'
  <2>1. \A j \in Members : j <= i <=> j <= cursor \/ j = i
    BY <1>2, <1>4
  <2>2. {j \in Members : j <= i} = visited \cup {i}
    BY <1>2, <2>1
  <2>3. QED
    BY <1>1, <1>4, <2>2 DEF WalkInv, WalkExact
<1> HIDE DEF S
<1>5. QED
  BY <1>1, <1>3, <1>4, PullCases

LEMMA WalkInvStep ==
  ASSUME 0 \notin FSID, OtfsInv, WalkInv, [Next]_vars
  PROVE  WalkInv'
<1>1. CASE UNCHANGED vars
  BY <1>1, WalkKept DEF vars
<1>2. CASE otfs_init
  BY <1>2, WalkOff DEF otfs_init, WalkInv
<1>3. CASE otfs_load_defaults
  BY <1>3, WalkKept DEF otfs_load_defaults
<1>4. ASSUME Abandon
      PROVE  WalkInv'
  BY <1>4, WalkOff DEF Abandon, EndWalk
<1>5. ASSUME NEW i \in FSID, NEW b \in Base, otfs_new(i, b)
      PROVE  WalkInv'
  BY <1>4, <1>5 DEF otfs_new
<1>6. ASSUME NEW i \in FSID, NEW b \in Base, NEW free_fn \in BOOLEAN, otfs_del(i, b, free_fn)
      PROVE  WalkInv'
  BY <1>4, <1>6 DEF otfs_del
<1>7. ASSUME NEW i \in FSID, otfs_setfs(i)
      PROVE  WalkInv'
  BY <1>4, <1>7 DEF otfs_setfs
<1>8. ASSUME NEW free_fn \in BOOLEAN, otfs_deinit(free_fn)
      PROVE  WalkInv'
  BY <1>4, <1>8 DEF otfs_deinit
<1>9. ASSUME NEW c \in Client, vl_open(c) \/ vl_close(c) \/ forget(c)
      PROVE  WalkInv'
  BY <1>9, WalkKept DEF vl_open, vl_close, forget
<1>10. ASSUME NEW c \in Client, NEW v \in Value, vl_write(c, v)
       PROVE  WalkInv'
  BY <1>10, WalkKept DEF vl_write
<1>11. QED
  BY <1>1, <1>2, <1>3, <1>5, <1>6, <1>7, <1>8, <1>9, <1>10, WalkStart, WalkNext DEF Next

(* An iteration gives every member once, file calls in between               *)
(* notwithstanding, unless a filesystem has ID 0.                            *)
THEOREM WalkComplete == 0 \notin FSID /\ Spec => []WalkExact
<1> DEFINE Inv == 0 \notin FSID /\ WalkInv /\ GroupInv
<1>1. 0 \notin FSID /\ Init => Inv
  BY GroupInvInit DEF Init, WalkInv, WalkExact
<1>2. Inv /\ [Next]_vars => Inv'
  BY GroupInvStep, WalkInvStep DEF GroupInv
<1>3. Inv => WalkExact
  BY DEF WalkInv
<1> HIDE DEF Inv
<1>4. QED
  BY <1>1, <1>2, <1>3, PTL DEF Spec

-----------------------------------------------------------------------------
(* The group as FsGroup has it: the data of each member, one checked out.    *)
MemType == mem \in [Base -> Value]

LEMMA MemStep ==
  ASSUME MemType, [Next]_vars
  PROVE  MemType'
<1>1. CASE UNCHANGED mem
  BY <1>1 DEF MemType
<1>2. CASE otfs_load_defaults
  BY <1>2, OtfsAssumption DEF otfs_load_defaults, MemType
<1>3. ASSUME NEW c \in Client, NEW v \in Value, vl_write(c, v)
      PROVE  MemType'
  BY <1>3 DEF vl_write, MemType
<1>4. ASSUME [Next]_vars, ~otfs_load_defaults, \A c \in Client, v \in Value : ~vl_write(c, v)
      PROVE  UNCHANGED mem
  BY <1>4 DEF Next, vars, otfs_init, otfs_new, otfs_del, otfs_setfs, otfs_iterator_start,
              otfs_iterator_next, otfs_deinit, vl_open, vl_close, forget
<1>5. QED
  BY <1>1, <1>2, <1>3, <1>4

Data == [i \in Members |-> mem[fstab[i]]]

(* A step that leaves the data of the members maps to a step of FsGroup if   *)
(* it checks a member out, and to a stutter if it leaves that, too.          *)
LEMMA MapsToCheckout ==
  ASSUME OtfsInv, UNCHANGED fstab,
         \A i \in Members : mem'[fstab[i]] = mem[fstab[i]],
         UNCHANGED ctx \/ ctx' \in Members
  PROVE  [Group!Next]_(Group!vars)
<1>1. Data' = Data
  BY DEF Data, Members
<1>2. CASE UNCHANGED ctx
  BY <1>1, <1>2 DEF Group!vars, Data
<1>3. CASE ctx' \in Members
  <2>1. ctx' \in FSID /\ ctx' \in DOMAIN Data
    BY <1>3 DEF OtfsInv, MemberTypes, Data
  <2>2. Group!Checkout(ctx')
    BY <1>1, <2>1 DEF Group!Checkout, Data
  <2>3. QED
    BY <2>1, <2>2 DEF Group!Next
<1>4. QED
  BY <1>2, <1>3

LEMMA MapsToAdd ==
  ASSUME OtfsInv, MemType, NEW i \in FSID, NEW b \in Base, otfs_new(i, b)
  PROVE  [Group!Next]_(Group!vars)
<1>1. CASE i \in Members
  BY <1>1, MapsToCheckout DEF otfs_new
<1>2. CASE i \notin Members
  <2>1. /\ fstab' = [j \in Members \cup {i} |-> IF j = i THEN b ELSE fstab[j]]
        /\ ctx' = i /\ UNCHANGED mem
    BY <1>2 DEF otfs_new
  <2>2. Members' = Members \cup {i}
    BY <2>1 DEF Members
  <2>3. Data' = [j \in Members \cup {i} |-> IF j = i THEN mem[b] ELSE mem[fstab[j]]]
    BY <1>2, <2>1, <2>2 DEF Data
  <2>4. Data' = [j \in DOMAIN Data \cup {i} |-> IF j = i THEN mem[b] ELSE Data[j]]
    BY <1>2, <2>3 DEF Data
  <2>5. i \notin DOMAIN Data /\ mem[b] \in Value
    BY <1>2 DEF Data, MemType
  <2>6. PICK v \in Value : v = mem[b]
    BY <2>5
  <2>7. Group!Add(i, v)
    BY <2>1, <2>4, <2>5, <2>6 DEF Group!Add, Data
  <2>8. QED
    BY <2>7, Zenon DEF Group!Next
<1>3. QED
  BY <1>1, <1>2

LEMMA MapsToRemove ==
  ASSUME OtfsInv, NEW i \in FSID, NEW b \in Base, NEW free_fn \in BOOLEAN,
         otfs_del(i, b, free_fn)
  PROVE  [Group!Next]_(Group!vars)
<1>1. CASE i \notin Members
  BY <1>1, MapsToCheckout DEF otfs_del
<1>2. CASE i \in Members
  <2>1. /\ fstab' = [j \in Members \ {i} |-> fstab[j]]
        /\ ctx' = (IF ctx = i THEN NoID ELSE ctx) /\ UNCHANGED mem
    BY <1>2 DEF otfs_del
  <2>2. Members' = Members \ {i} /\ \A j \in Members' : fstab'[j] = fstab[j]
    BY <1>2, <2>1, DelBases DEF OtfsInv
  <2>3. Data' = [j \in DOMAIN Data \ {i} |-> Data[j]]
    BY <2>1, <2>2 DEF Data
  <2>4. Group!Remove({i})
    BY <2>1, <2>3 DEF Group!Remove, Group!Without, Data
  <2>5. QED
    BY <2>4 DEF Group!Next
<1>3. QED
  BY <1>1, <1>2

LEMMA MapsToRemoveAll ==
  ASSUME OtfsInv, NEW free_fn \in BOOLEAN, otfs_deinit(free_fn)
  PROVE  [Group!Next]_(Group!vars)
<1>1. fstab' = <<>> /\ ctx' = NoID
  BY DEF otfs_deinit
<1>2. Members' = {} /\ DOMAIN Data = Members
  BY <1>1 DEF Members, Data
<1>3. Data' = [j \in DOMAIN Data \ DOMAIN Data |-> Data[j]]
  BY <1>2 DEF Data
<1>4. ctx' = IF ctx \in DOMAIN Data THEN NoID ELSE ctx
  BY <1>1, <1>2 DEF OtfsInv, ContextTrue
<1>5. Group!Remove(DOMAIN Data)
  BY <1>3, <1>4 DEF Group!Remove, Group!Without, Data
<1>6. QED
  BY <1>5 DEF Group!Next, Data

(* A write changes the data of the member checked out, and of no other: no   *)
(* two members have one base.                                                *)
LEMMA MapsToWrite ==
  ASSUME OtfsInv, HandleInv, MemType, NEW c \in Client, NEW v \in Value, vl_write(c, v)
  PROVE  [Group!Next]_(Group!vars)
<1>1. ctx # NoID
  BY DEF vl_write, OtfsInv, Parted, Unheld, HandleInv, HandleTypes, Slot, NoFp
<1>2. ctx \in Members /\ fstab[ctx] = fsram /\ fsram \in live /\ fsram \in Base
  BY <1>1 DEF OtfsInv, ContextTrue, MemberTypes
<1>3. mem' = [mem EXCEPT ![fsram] = v] /\ UNCHANGED <<fstab, ctx>>
  BY <1>2 DEF vl_write, group
<1>4. \A i \in Members : fstab[i] \in Base /\ (fstab[i] = fsram <=> i = ctx)
  BY <1>2 DEF OtfsInv, BlocksKept, Bases, MemberTypes
<1>5. Data' = [i \in Members |-> mem'[fstab[i]]]
  BY <1>3 DEF Data, Members
<1>6. \A i \in Members : mem'[fstab[i]] = IF i = ctx THEN v ELSE mem[fstab[i]]
  BY <1>3, <1>4 DEF MemType
<1>7. Data' = [Data EXCEPT ![ctx] = v]
  BY <1>2, <1>5, <1>6 DEF Data
<1>8. Group!Write(v)
  BY <1>1, <1>3, <1>7 DEF Group!Write, Data
<1>9. QED
  BY <1>8 DEF Group!Next

LEMMA MapsStep ==
  ASSUME GroupInv, MemType, [Next]_vars
  PROVE  [Group!Next]_(Group!vars)
<1> USE DEF GroupInv
<1>1. CASE UNCHANGED vars
  BY <1>1, MapsToCheckout DEF vars, group
<1>2. CASE otfs_init
  <2>1. Members' = {} /\ Members = {} /\ UNCHANGED ctx
    BY <1>2 DEF otfs_init, Members, OtfsInv, Closed
  <2>2. Data' = Data
    BY <2>1 DEF Data
  <2>3. QED
    BY <2>1, <2>2 DEF Group!vars, Data
<1>3. CASE otfs_load_defaults
  <2>1. PICK b \in Base \ live : mem' = [mem EXCEPT ![b] = Default]
    BY <1>3 DEF otfs_load_defaults
  <2>2. \A i \in Members : fstab[i] \in live /\ fstab[i] \in Base
    BY DEF OtfsInv, BlocksKept, Bases, MemberTypes
  <2>3. \A i \in Members : mem'[fstab[i]] = mem[fstab[i]]
    BY <2>1, <2>2 DEF MemType
  <2>4. QED
    BY <1>3, <2>3, MapsToCheckout DEF otfs_load_defaults, group
<1>4. ASSUME NEW i \in FSID, NEW b \in Base, otfs_new(i, b)
      PROVE  [Group!Next]_(Group!vars)
  BY <1>4, MapsToAdd
<1>5. ASSUME NEW i \in FSID, NEW b \in Base, NEW free_fn \in BOOLEAN, otfs_del(i, b, free_fn)
      PROVE  [Group!Next]_(Group!vars)
  BY <1>5, MapsToRemove
<1>6. ASSUME NEW i \in FSID, otfs_setfs(i)
      PROVE  [Group!Next]_(Group!vars)
  BY <1>6, MapsToCheckout DEF otfs_setfs
<1>7. ASSUME NEW S, S \subseteq Members, NEW seen, Pull(S, seen), UNCHANGED <<fstab, mem>>
      PROVE  [Group!Next]_(Group!vars)
  <2>1. UNCHANGED ctx \/ ctx' \in Members
    BY <1>7, PullCases DEF OtfsInv, MemberTypes
  <2>2. QED
    BY <1>7, <2>1, MapsToCheckout
<1>8. CASE otfs_iterator_start
  BY <1>7, <1>8 DEF otfs_iterator_start
<1>9. CASE otfs_iterator_next
  <2>1. {j \in Members : j > cursor} \subseteq Members
    OBVIOUS
  <2>2. QED
    BY <1>7, <1>9, <2>1 DEF otfs_iterator_next
<1>10. ASSUME NEW free_fn \in BOOLEAN, otfs_deinit(free_fn)
       PROVE  [Group!Next]_(Group!vars)
  BY <1>10, MapsToRemoveAll
<1>11. ASSUME NEW c \in Client, vl_open(c) \/ vl_close(c) \/ forget(c)
       PROVE  [Group!Next]_(Group!vars)
  BY <1>11, MapsToCheckout DEF vl_open, vl_close, forget, group
<1>12. ASSUME NEW c \in Client, NEW v \in Value, vl_write(c, v)
       PROVE  [Group!Next]_(Group!vars)
  BY <1>12, MapsToWrite
<1>13. QED
  BY <1>1, <1>2, <1>3, <1>4, <1>5, <1>6, <1>8, <1>9, <1>10, <1>11, <1>12 DEF Next

(* Each filesystem keeps its data but for writes while it is checked out,    *)
(* through failing calls, deletions and reuse of freed blocks.               *)
THEOREM Isolation == Spec => GroupSpec
<1>1. Init => Group!Init /\ MemType
  <2>1. Init => Data = <<>>
    BY DEF Init, Data, Members
  <2>2. QED
    BY <2>1, OtfsAssumption DEF Init, Group!Init, MemType, Data
<1>2. MemType /\ [Next]_vars => MemType'
  BY MemStep
<1>3. GroupInv /\ MemType /\ [Next]_vars => [Group!Next]_(Group!vars)
  BY MapsStep
<1>4. QED
  BY <1>1, <1>2, <1>3, GroupInvariant, PTL DEF Spec, GroupSpec, Group!Spec
=============================================================================
