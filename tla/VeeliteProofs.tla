--------------------------- MODULE VeeliteProofs ---------------------------
(* Theorems of module Veelite, for every filesystem, table size, application *)
(* and set of arguments that satisfies VeeliteAssumption.                    *)
EXTENDS Veelite, FiniteSetTheorems, TLAPS

-----------------------------------------------------------------------------
(* What the records built by the operations are. *)
LEMMA OpenedType ==
  ASSUME TypeOK, NEW f \in File
  PROVE  Opened(f) \in FilePointer
BY DEF TypeOK, Opened, FilePointer, Flag

LEMMA ClosedType ==
  ASSUME NEW fp \in FilePointer
  PROVE  Closed(fp) \in FilePointer
BY DEF Closed, FilePointer, Flag

LEMMA AllocOfType ==
  ASSUME NEW fp \in FilePointer
  PROVE  AllocOf(fp) \in Nat
BY VeeliteAssumption DEF AllocOf, FilePointer

(* Every operation on an open pointer that goes through Update keeps types. *)
LEMMA UpdateType ==
  ASSUME TypeOK, NEW c \in Client, held[c] # NoFp,
         NEW len \in Nat, NEW flags \in SUBSET Flag, NEW off \in Nat, NEW n \in Nat,
         Update(c, len, flags, off, n)
  PROVE  TypeOK'
<1> DEFINE fp == vlfile[held[c]]
<1>1. held[c] \in Slot /\ fp \in FilePointer
  BY DEF TypeOK
<1>2. vlfile' \in [Slot -> FilePointer]
  <2>1. [file |-> fp.file, length |-> len, flags |-> fp.flags \cup flags, open |-> fp.open]
          \in FilePointer
    BY <1>1 DEF FilePointer
  <2>2. QED
    BY <1>1, <2>1 DEF Update, TypeOK
<1>3. heap' \in [Word -> File \cup {NoFile}]
  BY <1>1 DEF Update, TypeOK, FilePointer
<1>4. fault' \in Faults
  BY DEF Update, TypeOK, Faults
<1>5. QED
  BY <1>2, <1>3, <1>4 DEF Update, TypeOK, hdrs, actions

(* So does the common body of vl_close and vl_touch. *)
LEMMA CloseFileType ==
  ASSUME TypeOK, NEW s \in Slot, NEW fp \in FilePointer, fp.file # NoFile,
         CloseFile(s, fp), held' \in [Client -> Slot \cup {NoFp}]
  PROVE  TypeOK'
<1>1. fp.file \in File /\ fp.length \in Nat
  BY DEF FilePointer
<1>2. hlen' \in [File -> Nat] /\ hmod' \in [File -> Nat]
  BY <1>1 DEF CloseFile, TypeOK
<1> DEFINE code   == hact[fp.file]
           called == code.cond \cap fp.flags # {} /\ code.select < VLACTIONS
<1>3. CASE called
  <2>1. RunAction(s, fp)
    BY <1>3 DEF CloseFile
  <2>2. vlfile' \in [Slot -> FilePointer]
    BY <2>1 DEF RunAction, TypeOK
  <2>3. stack' \in Seq(Slot)
    <3>1. stack' = stack \/ stack' = Append(stack, s)
      BY <2>1 DEF RunAction
    <3>2. stack \in Seq(Slot)
      BY DEF TypeOK
    <3>3. Append(stack, s) \in Seq(Slot)
      BY <3>2
    <3>4. QED
      BY <3>1, <3>2, <3>3
  <2>4. fault' \in Faults
    BY <2>1 DEF RunAction, TypeOK, Faults
  <2>5. QED
    BY <1>2, <2>2, <2>3, <2>4 DEF CloseFile, TypeOK, actions
<1>4. CASE ~called
  <2>1. vlfile' = [vlfile EXCEPT ![s] = Closed(fp)] /\ UNCHANGED <<stack, fault>>
    BY <1>4 DEF CloseFile
  <2>2. vlfile' \in [Slot -> FilePointer]
    BY <2>1, ClosedType DEF TypeOK
  <2>3. QED
    BY <1>2, <2>1, <2>2 DEF CloseFile, TypeOK, actions
<1>5. QED
  BY <1>3, <1>4

LEMMA TypeStep == TypeOK /\ [Next]_vars => TypeOK'
<1> SUFFICES ASSUME TypeOK, [Next]_vars PROVE TypeOK'
  OBVIOUS
<1>1. ASSUME NEW c \in Client, FileCall(c) PROVE TypeOK'
  <2>1. ASSUME NEW f \in File, vl_open(c, f) PROVE TypeOK'
    BY <2>1, OpenedType DEF vl_open, TypeOK, hdrs, actions
  <2>2. ASSUME NEW off \in WriteOffset, vl_write(c, off) PROVE TypeOK'
    <3>1. off \in Nat /\ held[c] # NoFp /\ vlfile[held[c]].length \in Nat
      BY <2>2, VeeliteAssumption DEF vl_write, TypeOK, FilePointer, Slot, NoFp
    <3>2. \/ Update(c, off + 2, {"RESIZED", "MODDED"}, off, 1)
          \/ Update(c, vlfile[held[c]].length, {"MODDED"}, off, 1)
      BY <2>2 DEF vl_write
    <3>3. QED
      BY <3>1, <3>2, UpdateType DEF Flag
  <2>3. ASSUME NEW len \in StoreLen, vl_store(c, len) PROVE TypeOK'
    <3> DEFINE fp   == vlfile[held[c]]
               size == IF len > AllocOf(fp) THEN AllocOf(fp) ELSE len
               raised == IF size # fp.length THEN {"RESIZED", "MODDED"} ELSE {"MODDED"}
    <3>1. held[c] # NoFp /\ fp \in FilePointer
      BY <2>3 DEF vl_store, TypeOK
    <3>2. size \in Nat /\ HalfWords(size) \in Nat /\ raised \in SUBSET Flag
      BY <3>1, AllocOfType, VeeliteAssumption DEF HalfWords, Flag
    <3>3. Update(c, size, raised, 0, HalfWords(size))
      BY <2>3 DEF vl_store
    <3>4. QED
      BY <3>1, <3>2, <3>3, UpdateType
  <2>4. ASSUME NEW len \in AppendLen, vl_append(c, len) PROVE TypeOK'
    <3> DEFINE fp    == vlfile[held[c]]
               total == fp.length + len
    <3>1. held[c] # NoFp /\ fp \in FilePointer
      BY <2>4 DEF vl_append, TypeOK
    <3>2. fp.length \in Nat /\ total \in Nat /\ HalfWords(total) \in Nat
      BY <3>1, VeeliteAssumption DEF HalfWords, FilePointer
    <3>3. Update(c, total, {"RESIZED", "MODDED"}, fp.length, HalfWords(total))
      BY <2>4 DEF vl_append
    <3>4. QED
      BY <3>1, <3>2, <3>3, UpdateType DEF Flag
  <2>5. ASSUME NEW len \in StoreLen, vl_execute(c, len) PROVE TypeOK'
    BY <2>3, <2>5 DEF vl_execute
  <2>6. ASSUME NEW t \in 0 .. MaxNow, vl_setmodtime(c, t) PROVE TypeOK'
    <3>1. t \in Nat
      BY VeeliteAssumption
    <3>2. QED
      BY <2>6, <3>1 DEF vl_setmodtime, WildHeader, TypeOK, hdrs, actions, Faults
  <2>7. ASSUME vl_close(c) PROVE TypeOK'
    <3>1. CASE vlfile[held[c]].file = NoFile
      BY <2>7, <3>1 DEF vl_close, WildHeader, TypeOK, hdrs, actions, Faults
    <3>2. CASE vlfile[held[c]].file # NoFile
      <4>1. held[c] \in Slot /\ vlfile[held[c]] \in FilePointer
        BY <2>7 DEF vl_close, TypeOK
      <4>2. held' \in [Client -> Slot \cup {NoFp}]
        BY <2>7, <3>2 DEF vl_close, Forget, TypeOK
      <4>3. QED
        BY <2>7, <3>2, <4>1, <4>2, CloseFileType DEF vl_close
    <3>3. QED
      BY <3>1, <3>2
  <2>8. QED
    BY <1>1, <2>1, <2>2, <2>3, <2>4, <2>5, <2>6, <2>7 DEF FileCall
<1>2. ASSUME NEW f \in File, NEW flags \in {{}, {"MODDED"}}, vl_touch(f, flags) PROVE TypeOK'
  <2> DEFINE fp == [Opened(f) EXCEPT !.flags = @ \cap {"OPENED", "MODDED"}]
  <2>1. fp \in FilePointer /\ fp.file # NoFile
    BY OpenedType, VeeliteAssumption DEF FilePointer, Opened, TypeOK, Flag
  <2>2. held' \in [Client -> Slot \cup {NoFp}]
    BY <1>2 DEF vl_touch, TypeOK
  <2>3. QED
    BY <1>2, <2>1, <2>2, CloseFileType DEF vl_touch
<1>3. ASSUME NEW f \in File, NEW cond \in Condition, NEW a \in Action,
             vl_add_action(f, cond, a)
      PROVE  TypeOK'
  <2>1. PICK i \in ActSlot :
          /\ vlaction' = [vlaction EXCEPT ![i] = a]
          /\ vlaction_users' = [vlaction_users EXCEPT ![i] = (@ + 1) % U8]
          /\ hact' = [hact EXCEPT ![f] = [cond |-> cond, select |-> i]]
    BY <1>3 DEF vl_add_action
  <2>2. (vlaction_users[i] + 1) % U8 \in 0 .. U8 - 1
    BY VeeliteAssumption DEF TypeOK
  <2>3. [cond |-> cond, select |-> i] \in ActionCode
    BY VeeliteAssumption DEF ActionCode, ActSlot
  <2>4. QED
    BY <1>3, <2>1, <2>2, <2>3 DEF vl_add_action, TypeOK
<1>4. ASSUME NEW f \in File, vl_remove_action(f) PROVE TypeOK'
  <2>1. [cond |-> {}, select |-> 0] \in ActionCode
    BY DEF ActionCode
  <2>2. vlaction_users' \in [ActSlot -> 0 .. U8 - 1]
    <3> DEFINE i == hact[f].select
    <3>1. CASE i < VLACTIONS /\ vlaction_users[i] # 0
      <4>1. i \in ActSlot
        <5>1. hact[f] \in ActionCode /\ VLACTIONS \in Int
          BY VeeliteAssumption DEF TypeOK
        <5>2. i \in Int /\ 0 <= i
          BY <5>1 DEF ActionCode
        <5>3. QED
          BY <3>1, <5>1, <5>2 DEF ActSlot
      <4>2. vlaction_users[i] - 1 \in 0 .. U8 - 1
        <5>1. vlaction_users[i] \in 0 .. U8 - 1 /\ U8 \in Int
          BY <4>1, VeeliteAssumption DEF TypeOK
        <5>2. QED
          BY <3>1, <5>1
      <4>3. vlaction_users' = [vlaction_users EXCEPT ![i] = vlaction_users[i] - 1]
        BY <1>4, <3>1 DEF vl_remove_action
      <4>4. QED
        BY <4>1, <4>2, <4>3 DEF TypeOK
    <3>2. CASE ~(i < VLACTIONS /\ vlaction_users[i] # 0)
      BY <1>4, <3>2 DEF vl_remove_action, TypeOK, actions
    <3>3. QED
      BY <3>1, <3>2
  <2>3. vlaction' \in [ActSlot -> Action \cup {NullAction}]
    BY <1>4 DEF vl_remove_action, TypeOK, actions
  <2>4. QED
    BY <1>4, <2>1, <2>2, <2>3 DEF vl_remove_action, TypeOK
<1>5. ASSUME vl_init PROVE TypeOK'
  BY <1>5, VeeliteAssumption DEF vl_init, TypeOK, hdrs, Cleared, FilePointer, Flag
<1>6. ASSUME action_return PROVE TypeOK'
  <2>1. stack[Len(stack)] \in Slot
    BY <1>6 DEF action_return, TypeOK
  <2>2. stack' \in Seq(Slot)
    BY <1>6 DEF action_return, TypeOK
  <2>3. vlfile' \in [Slot -> FilePointer]
    BY <1>6, <2>1, ClosedType DEF action_return, TypeOK
  <2>4. QED
    BY <1>6, <2>2, <2>3 DEF action_return, TypeOK, hdrs, actions
<1>7. ASSUME tick PROVE TypeOK'
  BY <1>7, VeeliteAssumption DEF tick, TypeOK, hdrs, actions
<1>8. CASE UNCHANGED vars
  BY <1>8 DEF vars, TypeOK
<1>9. QED
  BY <1>1, <1>2, <1>3, <1>4, <1>5, <1>6, <1>7, <1>8 DEF Next

LEMMA TypeInit == Init => TypeOK
<1> SUFFICES ASSUME Init PROVE TypeOK
  OBVIOUS
<1>1. \A w \in Word : Owner(w) \in File \cup {NoFile}
  BY DEF Owner
<1>2. Cleared \in FilePointer
  BY DEF Cleared, FilePointer, Flag
<1>3. [cond |-> {}, select |-> 0] \in ActionCode
  BY DEF ActionCode
<1>4. QED
  BY <1>1, <1>2, <1>3, VeeliteAssumption DEF Init, TypeOK, Faults

(* The tables, the headers and the heap hold values of their types in every *)
(* state, whatever the application does.                                    *)
THEOREM TypeCorrect == Spec => []TypeOK
BY TypeInit, TypeStep, PTL DEF Spec

-----------------------------------------------------------------------------
(* Only the calls that go through Update write to the heap. *)
LEMMA OthersKeepHeap ==
  ASSUME Next
  PROVE  \/ heap' = heap
         \/ \E c \in Client :
              \/ \E off \in WriteOffset : vl_write(c, off)
              \/ \E len \in StoreLen : vl_store(c, len)
              \/ \E len \in AppendLen : vl_append(c, len)
BY DEF Next, FileCall, vl_open, vl_execute, vl_setmodtime, vl_close, WildHeader, CloseFile,
       vl_touch, vl_add_action, vl_remove_action, vl_init, action_return, tick

(* A word of a file's region has that file for owner: regions are disjoint. *)
LEMMA OwnerOfRegion ==
  ASSUME NEW f \in File, NEW w \in Region(f)
  PROVE  Owner(w) = f
BY VeeliteAssumption DEF Owner

(* One 16-bit write at an offset below alloc stays in the region. *)
LEMMA WriteInRegion ==
  ASSUME NEW f \in File, NEW off \in Nat, off < Alloc[f]
  PROVE  WordsAt(f, off, 1) \subseteq Region(f)
<1>1. Alloc[f] \in Nat /\ Base[f] \in Nat /\ Alloc[f] % 2 = 0
  BY VeeliteAssumption
<1>2. off \div 2 < Alloc[f] \div 2 /\ off \div 2 \in Nat
  BY <1>1
<1>3. QED
  BY <1>1, <1>2 DEF WordsAt, Region

(* So does a store from offset 0 of at most alloc bytes, odd or even. *)
LEMMA StoreInRegion ==
  ASSUME NEW f \in File, NEW size \in Nat, size <= Alloc[f]
  PROVE  WordsAt(f, 0, HalfWords(size)) \subseteq Region(f)
<1>1. Alloc[f] \in Nat /\ Base[f] \in Nat /\ Alloc[f] % 2 = 0
  BY VeeliteAssumption
<1>2. HalfWords(size) <= Alloc[f] \div 2 /\ HalfWords(size) \in Nat
  BY <1>1 DEF HalfWords
<1>3. QED
  BY <1>1, <1>2 DEF WordsAt, Region

(* A call whose words stay in the region of the pointer's file, if it has   *)
(* any word to write, keeps every word with its owner.                      *)
LEMMA UpdateIsolated ==
  ASSUME TypeOK, HeapIsolated, NEW c \in Client, held[c] # NoFp,
         NEW len, NEW flags, NEW off \in Nat, NEW n \in Nat,
         LET f == vlfile[held[c]].file IN
           WordsAt(f, off, n) = {} \/ (f \in File /\ WordsAt(f, off, n) \subseteq Region(f)),
         Update(c, len, flags, off, n)
  PROVE  HeapIsolated'
<1> DEFINE f == vlfile[held[c]].file
<1>1. CASE heap' = heap
  BY <1>1 DEF HeapIsolated, Owner
<1>2. CASE heap' = [w \in Word |-> IF w \in WordsAt(f, off, n) THEN f ELSE heap[w]]
  <2>1. SUFFICES ASSUME NEW w \in Word PROVE heap'[w] = Owner(w)
    BY DEF HeapIsolated
  <2>2. CASE w \in WordsAt(f, off, n)
    BY <1>2, <2>2, OwnerOfRegion
  <2>3. CASE w \notin WordsAt(f, off, n)
    BY <1>2, <2>3 DEF HeapIsolated
  <2>4. QED
    BY <2>2, <2>3
<1>3. QED
  BY <1>1, <1>2 DEF Update

LEMMA HeapStep ==
  ASSUME AppendLen = {}, TypeOK, HeapIsolated, [Next]_vars
  PROVE  HeapIsolated'
<1>1. CASE heap' = heap
  BY <1>1 DEF HeapIsolated, Owner
<1>2. ASSUME NEW c \in Client, NEW off \in WriteOffset, vl_write(c, off) PROVE HeapIsolated'
  <2> DEFINE fp == vlfile[held[c]]
  <2>1. held[c] # NoFp /\ fp \in FilePointer /\ off \in Nat /\ off < AllocOf(fp)
    BY <1>2, VeeliteAssumption DEF vl_write, TypeOK
  <2>2. fp.file \in File /\ off < Alloc[fp.file]
    BY <2>1 DEF AllocOf, FilePointer
  <2>3. WordsAt(fp.file, off, 1) \subseteq Region(fp.file)
    BY <2>1, <2>2, WriteInRegion
  <2>4. \E len, flags : Update(c, len, flags, off, 1)
    BY <1>2 DEF vl_write
  <2>5. QED
    BY <2>1, <2>2, <2>3, <2>4, UpdateIsolated
<1>3. ASSUME NEW c \in Client, NEW len \in StoreLen, vl_store(c, len) PROVE HeapIsolated'
  <2> DEFINE fp   == vlfile[held[c]]
             size == IF len > AllocOf(fp) THEN AllocOf(fp) ELSE len
  <2>1. held[c] # NoFp /\ fp \in FilePointer /\ len \in Nat
    BY <1>3, VeeliteAssumption DEF vl_store, TypeOK
  <2>2. size \in Nat /\ HalfWords(size) \in Nat /\ size <= AllocOf(fp)
    BY <2>1, AllocOfType DEF HalfWords
  <2>3. CASE fp.file = NoFile
    <3>1. size = 0
      BY <2>2, <2>3 DEF AllocOf
    <3>2. WordsAt(fp.file, 0, HalfWords(size)) = {}
      BY <3>1 DEF WordsAt, HalfWords
    <3>3. \E flags : Update(c, size, flags, 0, HalfWords(size))
      BY <1>3 DEF vl_store
    <3>4. QED
      BY <2>1, <2>2, <3>2, <3>3, UpdateIsolated
  <2>4. CASE fp.file # NoFile
    <3>1. fp.file \in File /\ size <= Alloc[fp.file]
      BY <2>1, <2>2, <2>4 DEF AllocOf, FilePointer
    <3>2. WordsAt(fp.file, 0, HalfWords(size)) \subseteq Region(fp.file)
      BY <2>2, <3>1, StoreInRegion
    <3>3. \E flags : Update(c, size, flags, 0, HalfWords(size))
      BY <1>3 DEF vl_store
    <3>4. QED
      BY <2>1, <2>2, <3>1, <3>2, <3>3, UpdateIsolated
  <2>5. QED
    BY <2>3, <2>4
<1>4. QED
  BY <1>1, <1>2, <1>3, OthersKeepHeap DEF vars

(* An application that does not append never has data written outside the   *)
(* allocation of its file, whatever else it does: closed, retained, shared  *)
(* and stale pointers included.  (vl_append does write outside.)            *)
THEOREM HeapIsolation ==
  ASSUME AppendLen = {}
  PROVE  Spec => []HeapIsolated
<1>1. Init => HeapIsolated
  BY DEF Init, HeapIsolated
<1>2. TypeOK /\ HeapIsolated /\ [Next]_vars => HeapIsolated'
  BY HeapStep
<1>3. QED
  BY <1>1, <1>2, TypeCorrect, PTL DEF Spec

-----------------------------------------------------------------------------
(* A call that leaves the length of its pointer within alloc keeps the bound. *)
LEMMA UpdateBounded ==
  ASSUME TypeOK, LengthWithinAlloc, NEW c \in Client, held[c] # NoFp,
         NEW len \in Nat, len <= AllocOf(vlfile[held[c]]), NEW flags, NEW off, NEW n,
         Update(c, len, flags, off, n)
  PROVE  LengthWithinAlloc'
<1>1. held[c] \in Slot
  BY DEF TypeOK
<1>2. hlen' = hlen
  BY DEF Update, hdrs
<1>3. CASE vlfile' = vlfile
  BY <1>2, <1>3 DEF LengthWithinAlloc, AllocOf
<1>4. CASE vlfile' # vlfile
  BY <1>1, <1>2, <1>4 DEF Update, LengthWithinAlloc, AllocOf, TypeOK
<1>5. QED
  BY <1>3, <1>4

(* So does the common body of vl_close and vl_touch. *)
LEMMA CloseBounded ==
  ASSUME TypeOK, LengthWithinAlloc, NEW s \in Slot, NEW fp \in FilePointer,
         fp.file # NoFile, fp.length <= Alloc[fp.file], CloseFile(s, fp)
  PROVE  LengthWithinAlloc'
<1>1. fp.file \in File /\ Alloc[fp.file] \in Nat
  BY VeeliteAssumption DEF FilePointer
<1>2. \A f \in File : hlen'[f] <= Alloc[f]
  BY <1>1 DEF CloseFile, LengthWithinAlloc, TypeOK
<1>3. vlfile' = [vlfile EXCEPT ![s] = fp] \/ vlfile' = [vlfile EXCEPT ![s] = Closed(fp)]
  BY DEF CloseFile, RunAction
<1>4. fp.length <= AllocOf(fp) /\ Closed(fp).length <= AllocOf(Closed(fp))
  BY <1>1 DEF AllocOf, Closed
<1>5. \A t \in Slot : vlfile'[t].length <= AllocOf(vlfile'[t])
  BY <1>3, <1>4 DEF LengthWithinAlloc, TypeOK
<1>6. QED
  BY <1>2, <1>5 DEF LengthWithinAlloc, AllocOf

LEMMA LengthStep ==
  ASSUME \A off \in WriteOffset : off % 2 = 0, TypeOK, LengthWithinAlloc, [Next]_vars
  PROVE  LengthWithinAlloc'
<1>1. ASSUME NEW c \in Client, FileCall(c) PROVE LengthWithinAlloc'
  <2> DEFINE fp == vlfile[held[c]]
  <2>1. ASSUME NEW f \in File, vl_open(c, f) PROVE LengthWithinAlloc'
    <3>1. PICK s \in Slot : vlfile' = [vlfile EXCEPT ![s] = Opened(f)]
      BY <2>1 DEF vl_open
    <3>2. Opened(f).length <= AllocOf(Opened(f))
      BY VeeliteAssumption DEF Opened, AllocOf, LengthWithinAlloc
    <3>3. hlen' = hlen
      BY <2>1 DEF vl_open, hdrs
    <3>4. QED
      BY <3>1, <3>2, <3>3 DEF LengthWithinAlloc, TypeOK, AllocOf
  <2>2. ASSUME NEW off \in WriteOffset, vl_write(c, off) PROVE LengthWithinAlloc'
    <3>1. /\ held[c] # NoFp /\ held[c] \in Slot /\ fp \in FilePointer
          /\ off \in Nat /\ off < AllocOf(fp)
      BY <2>2, VeeliteAssumption DEF vl_write, TypeOK
    <3>2. AllocOf(fp) \in Nat /\ AllocOf(fp) % 2 = 0
      BY <3>1, VeeliteAssumption DEF AllocOf, FilePointer
    <3>3. off + 2 <= AllocOf(fp)
      BY <3>1, <3>2
    <3>4. fp.length \in Nat /\ fp.length <= AllocOf(fp)
      BY <3>1 DEF FilePointer, LengthWithinAlloc
    <3>5. \E len \in {off + 2, fp.length} : \E flags : Update(c, len, flags, off, 1)
      BY <2>2 DEF vl_write
    <3>6. QED
      BY <3>1, <3>3, <3>4, <3>5, UpdateBounded
  <2>3. ASSUME NEW len \in StoreLen, vl_store(c, len) PROVE LengthWithinAlloc'
    <3> DEFINE size == IF len > AllocOf(fp) THEN AllocOf(fp) ELSE len
    <3>1. held[c] # NoFp /\ fp \in FilePointer /\ len \in Nat
      BY <2>3, VeeliteAssumption DEF vl_store, TypeOK
    <3>2. size \in Nat /\ size <= AllocOf(fp)
      BY <3>1, AllocOfType
    <3>3. \E flags : Update(c, size, flags, 0, HalfWords(size))
      BY <2>3 DEF vl_store
    <3>4. QED
      BY <3>1, <3>2, <3>3, UpdateBounded
  <2>4. ASSUME NEW len \in AppendLen, vl_append(c, len) PROVE LengthWithinAlloc'
    <3> DEFINE total == fp.length + len
    <3>1. /\ held[c] # NoFp /\ fp \in FilePointer /\ len \in Nat
          /\ total <= AllocOf(fp)
      BY <2>4, VeeliteAssumption DEF vl_append, TypeOK
    <3>2. total \in Nat
      BY <3>1 DEF FilePointer
    <3>3. Update(c, total, {"RESIZED", "MODDED"}, fp.length, HalfWords(total))
      BY <2>4 DEF vl_append
    <3>4. QED
      BY <3>1, <3>2, <3>3, UpdateBounded
  <2>5. ASSUME NEW len \in StoreLen, vl_execute(c, len) PROVE LengthWithinAlloc'
    BY <2>3, <2>5 DEF vl_execute
  <2>6. ASSUME NEW t \in 0 .. MaxNow, vl_setmodtime(c, t) PROVE LengthWithinAlloc'
    BY <2>6 DEF vl_setmodtime, WildHeader, LengthWithinAlloc, AllocOf, hdrs
  <2>7. ASSUME vl_close(c) PROVE LengthWithinAlloc'
    <3>1. CASE fp.file = NoFile
      BY <2>7, <3>1 DEF vl_close, WildHeader, LengthWithinAlloc, AllocOf, hdrs
    <3>2. CASE fp.file # NoFile
      <4>1. held[c] \in Slot /\ fp \in FilePointer
        BY <2>7 DEF vl_close, TypeOK
      <4>2. fp.length <= Alloc[fp.file]
        BY <3>2, <4>1 DEF LengthWithinAlloc, AllocOf
      <4>3. QED
        BY <2>7, <3>2, <4>1, <4>2, CloseBounded DEF vl_close
    <3>3. QED
      BY <3>1, <3>2
  <2>8. QED
    BY <1>1, <2>1, <2>2, <2>3, <2>4, <2>5, <2>6, <2>7 DEF FileCall
<1>2. ASSUME NEW f \in File, NEW flags, vl_touch(f, flags) PROVE LengthWithinAlloc'
  <2> DEFINE fp == [Opened(f) EXCEPT !.flags = @ \cap {"OPENED", "MODDED"}]
  <2>1. fp \in FilePointer /\ fp.file = f /\ f # NoFile /\ fp.length = hlen[f]
    BY OpenedType, VeeliteAssumption DEF FilePointer, Opened, TypeOK, Flag
  <2>2. fp.length <= Alloc[fp.file]
    BY <2>1 DEF LengthWithinAlloc
  <2>3. QED
    BY <1>2, <2>1, <2>2, CloseBounded DEF vl_touch
<1>3. CASE vlfile' = vlfile /\ hlen' = hlen
  BY <1>3 DEF LengthWithinAlloc, AllocOf
<1>4. ASSUME vl_init PROVE LengthWithinAlloc'
  BY <1>4 DEF vl_init, LengthWithinAlloc, AllocOf, Cleared, hdrs
<1>5. ASSUME action_return PROVE LengthWithinAlloc'
  <2> DEFINE s == stack[Len(stack)]
  <2>1. s \in Slot /\ vlfile' = [vlfile EXCEPT ![s] = Closed(vlfile[s])]
    BY <1>5 DEF action_return, TypeOK
  <2>2. Closed(vlfile[s]).length <= AllocOf(Closed(vlfile[s]))
    <3>1. Closed(vlfile[s]) \in FilePointer /\ Closed(vlfile[s]).length = 0
      BY <2>1, ClosedType DEF Closed, TypeOK
    <3>2. QED
      BY <3>1, AllocOfType
  <2>3. hlen' = hlen
    BY <1>5 DEF action_return, hdrs
  <2>4. QED
    BY <2>1, <2>2, <2>3 DEF LengthWithinAlloc, TypeOK, AllocOf
<1>6. CASE UNCHANGED vars
  BY <1>3, <1>6 DEF vars
<1>7. QED
  BY <1>1, <1>2, <1>3, <1>4, <1>5, <1>6
     DEF Next, vl_add_action, vl_remove_action, tick, hdrs

(* Where every vl_write is at an even offset no length, in a header or in a  *)
(* pointer, ever exceeds the allocation.  (An odd offset at the end does.)   *)
THEOREM LengthBound ==
  ASSUME \A off \in WriteOffset : off % 2 = 0
  PROVE  Spec => []LengthWithinAlloc
<1>1. Init => LengthWithinAlloc
  BY VeeliteAssumption DEF Init, LengthWithinAlloc, AllocOf, Cleared
<1>2. TypeOK /\ LengthWithinAlloc /\ [Next]_vars => LengthWithinAlloc'
  BY LengthStep
<1>3. QED
  BY <1>1, <1>2, TypeCorrect, PTL DEF Spec

-----------------------------------------------------------------------------
(* vl_add_action enters a function once, the other calls enter none. *)
LEMMA UniqueStep ==
  ASSUME TypeOK, ActionUnique, [Next]_vars
  PROVE  ActionUnique'
<1>1. CASE vlaction' = vlaction
  BY <1>1 DEF ActionUnique
<1>2. ASSUME NEW f \in File, NEW cond, NEW a \in Action, vl_add_action(f, cond, a)
      PROVE  ActionUnique'
  <2>1. PICK i \in ActSlot : Picks(i, a) /\ vlaction' = [vlaction EXCEPT ![i] = a]
    BY <1>2 DEF vl_add_action
  <2>2. \A j \in ActSlot : j # i => vlaction[j] # a \/ vlaction[i] = a
    BY <2>1 DEF Picks
  <2>3. QED
    BY <2>1, <2>2 DEF ActionUnique, TypeOK
<1>3. ASSUME NEW f \in File, vl_remove_action(f) PROVE ActionUnique'
  <2>1. \A i \in ActSlot : vlaction'[i] \in {vlaction[i], NullAction}
    BY <1>3 DEF vl_remove_action, actions, TypeOK
  <2>2. QED
    BY <2>1 DEF ActionUnique
<1>4. ASSUME vl_init PROVE ActionUnique'
  BY <1>4 DEF vl_init, ActionUnique
<1>5. ASSUME NEW c \in Client, FileCall(c) PROVE ActionUnique'
  <2>1. \A f \in File : vl_open(c, f) => vlaction' = vlaction
    BY DEF vl_open, actions
  <2>2. \A len, flags, off, n : Update(c, len, flags, off, n) => vlaction' = vlaction
    BY DEF Update, actions
  <2>3. vl_close(c) => vlaction' = vlaction
    BY DEF vl_close, WildHeader, CloseFile, actions
  <2>4. \A t : vl_setmodtime(c, t) => vlaction' = vlaction
    BY DEF vl_setmodtime, WildHeader, actions
  <2>5. QED
    BY <1>1, <1>5, <2>1, <2>2, <2>3, <2>4
       DEF FileCall, vl_write, vl_store, vl_append, vl_execute
<1>6. ASSUME NEW f \in File, NEW flags, vl_touch(f, flags) PROVE ActionUnique'
  BY <1>1, <1>6 DEF vl_touch, CloseFile, actions
<1>7. CASE action_return \/ tick \/ UNCHANGED vars
  BY <1>1, <1>7 DEF action_return, tick, actions, vars
<1>8. QED
  BY <1>2, <1>3, <1>4, <1>5, <1>6, <1>7 DEF Next

(* No function is entered twice in the table of actions, whatever the order  *)
(* of vl_add_action, vl_remove_action and vl_init.                           *)
THEOREM ActionsUnique == Spec => []ActionUnique
<1>1. Init => ActionUnique
  BY DEF Init, ActionUnique
<1>2. QED
  BY <1>1, UniqueStep, TypeCorrect, PTL DEF Spec

-----------------------------------------------------------------------------
(* The inductive invariant of the file pointers: besides HandleExclusive, an *)
(* entry being closed is still open, so that vl_open cannot hand it out.     *)
HandleInv ==
  /\ HandleExclusive
  /\ \A i \in DOMAIN stack : vlfile[stack[i]].open

(* A call through Update leaves every entry open or not, as it was. *)
LEMMA UpdateHandles ==
  ASSUME TypeOK, HandleInv, NEW c \in Client, NEW len, NEW flags, NEW off, NEW n,
         held[c] # NoFp, Update(c, len, flags, off, n)
  PROVE  HandleInv'
<1> DEFINE fp == vlfile[held[c]]
<1>1. \A s \in Slot : vlfile'[s].open = vlfile[s].open
  <2>1. CASE vlfile' = vlfile
    BY <2>1
  <2>2. CASE vlfile' = [vlfile EXCEPT ![held[c]] =
                          [file |-> fp.file, length |-> len,
                           flags |-> fp.flags \cup flags, open |-> fp.open]]
    BY <2>2 DEF TypeOK
  <2>3. QED
    BY <2>1, <2>2 DEF Update
<1>2. held' = held /\ stack' = stack
  BY DEF Update
<1>3. (\A d \in Client : held[d] \in Slot \cup {NoFp}) /\ \A i \in DOMAIN stack : stack[i] \in Slot
  BY DEF TypeOK
<1>4. QED
  BY <1>1, <1>2, <1>3 DEF HandleInv, HandleExclusive, Closing

(* vl_close and vl_touch close an entry that nobody holds afterwards and     *)
(* that was not being closed.                                                *)
LEMMA CloseHandles ==
  ASSUME TypeOK, HandleInv, NEW s \in Slot, NEW fp \in FilePointer,
         fp.open, ~Closing(s), CloseFile(s, fp),
         held' \in [Client -> Slot \cup {NoFp}],
         \A c \in Client : held'[c] # s /\ held'[c] \in {held[c], NoFp}
  PROVE  HandleInv'
<1>1. stack \in Seq(Slot)
  BY DEF TypeOK
<1>2. \A t \in Slot : t # s => vlfile'[t] = vlfile[t]
  BY DEF CloseFile, RunAction, TypeOK
<1>3. CASE stack' = stack
  BY <1>1, <1>2, <1>3 DEF HandleInv, HandleExclusive, Closing, TypeOK
<1>4. CASE stack' = Append(stack, s) /\ vlfile' = [vlfile EXCEPT ![s] = fp]
  <2>1. /\ DOMAIN stack = 1 .. Len(stack) /\ Len(stack) \in Nat
        /\ DOMAIN stack' = 1 .. Len(stack) + 1
        /\ stack'[Len(stack) + 1] = s
        /\ \A i \in 1 .. Len(stack) : stack'[i] = stack[i] /\ stack[i] \in Slot /\ stack[i] # s
    BY <1>1, <1>4 DEF Closing
  <2>2. \A i \in DOMAIN stack' : vlfile'[stack'[i]].open
    BY <1>2, <1>4, <2>1 DEF HandleInv, TypeOK
  <2>3. \A i, j \in DOMAIN stack' : stack'[i] = stack'[j] => i = j
    BY <2>1 DEF HandleInv, HandleExclusive
  <2>4. (\A c \in Client : held[c] # NoFp => vlfile[held[c]].open /\ ~Closing(held[c]))'
    <3>1. SUFFICES ASSUME NEW c \in Client, held'[c] # NoFp
                   PROVE  vlfile'[held'[c]].open /\ \A i \in DOMAIN stack' : stack'[i] # held'[c]
      BY DEF Closing
    <3>2. held'[c] = held[c] /\ held[c] \in Slot /\ held[c] # s
      BY <3>1 DEF TypeOK
    <3>3. vlfile[held[c]].open /\ \A i \in DOMAIN stack : stack[i] # held[c]
      BY <3>1, <3>2 DEF HandleInv, HandleExclusive, Closing
    <3>4. QED
      BY <1>2, <2>1, <3>2, <3>3
  <2>5. \A c, d \in Client : c # d /\ held'[c] = held'[d] => held'[c] = NoFp
    BY DEF HandleInv, HandleExclusive
  <2>6. QED
    BY <2>2, <2>3, <2>4, <2>5 DEF HandleInv, HandleExclusive
<1>5. QED
  BY <1>3, <1>4 DEF CloseFile, RunAction

LEMMA HandleStep ==
  ASSUME "retain" \notin Licence, "reinit" \notin Licence, TypeOK, HandleInv, [Next]_vars
  PROVE  HandleInv'
<1>0. /\ \A c \in Client : held[c] \in Slot \cup {NoFp}
      /\ stack \in Seq(Slot)
      /\ \A i \in DOMAIN stack : stack[i] \in Slot
      /\ NoFp \notin Slot
  <2>1. NoFp \notin Slot
    BY DEF NoFp, Slot
  <2>2. QED
    BY <2>1 DEF TypeOK
<1>1. ASSUME NEW c \in Client, NEW f \in File, vl_open(c, f) PROVE HandleInv'
  <2>1. PICK s \in Slot : /\ FirstFree(s)
                          /\ vlfile' = [vlfile EXCEPT ![s] = Opened(f)]
                          /\ held' = [held EXCEPT ![c] = s]
    BY <1>1 DEF vl_open
  <2>2. ~vlfile[s].open /\ Opened(f).open /\ stack' = stack /\ held[c] = NoFp
    BY <1>1, <2>1 DEF vl_open, FirstFree, Opened
  <2>3. ~Closing(s) /\ \A d \in Client : held[d] # s
    BY <1>0, <2>2 DEF HandleInv, HandleExclusive, Closing
  <2>4. QED
    BY <1>0, <2>1, <2>2, <2>3 DEF HandleInv, HandleExclusive, Closing, TypeOK
<1>2. ASSUME NEW c \in Client, FileCall(c), \A f \in File : ~vl_open(c, f), ~vl_close(c)
      PROVE  HandleInv'
  <2>1. CASE \E len, flags, off, n : held[c] # NoFp /\ Update(c, len, flags, off, n)
    BY <2>1, UpdateHandles
  <2>2. CASE vlfile' = vlfile /\ held' = held /\ stack' = stack
    BY <2>2 DEF HandleInv, HandleExclusive, Closing
  <2>3. QED
    BY <1>2, <2>1, <2>2 DEF FileCall, vl_write, vl_store, vl_append, vl_execute,
                            vl_setmodtime, WildHeader
<1>3. ASSUME NEW c \in Client, vl_close(c) PROVE HandleInv'
  <2>1. CASE vlfile' = vlfile /\ held' = held /\ stack' = stack
    BY <2>1 DEF HandleInv, HandleExclusive, Closing
  <2>2. CASE CloseFile(held[c], vlfile[held[c]]) /\ held' = [held EXCEPT ![c] = NoFp]
    <3>1. held[c] \in Slot /\ vlfile[held[c]] \in FilePointer
      BY <1>0, <1>3 DEF vl_close, TypeOK
    <3>2. vlfile[held[c]].open /\ ~Closing(held[c])
      BY <1>0, <3>1 DEF HandleInv, HandleExclusive
    <3>3. held' \in [Client -> Slot \cup {NoFp}]
      BY <2>2 DEF TypeOK
    <3>4. \A d \in Client : held'[d] # held[c] /\ held'[d] \in {held[d], NoFp}
      BY <1>0, <2>2, <3>1 DEF HandleInv, HandleExclusive, TypeOK
    <3>5. QED
      BY <2>2, <3>1, <3>2, <3>3, <3>4, CloseHandles
  <2>3. QED
    BY <1>3, <2>1, <2>2 DEF vl_close, WildHeader, Forget
<1>4. ASSUME NEW f \in File, NEW flags, vl_touch(f, flags) PROVE HandleInv'
  <2> DEFINE fp == [Opened(f) EXCEPT !.flags = @ \cap {"OPENED", "MODDED"}]
  <2>1. PICK s \in Slot : FirstFree(s) /\ CloseFile(s, fp)
    BY <1>4 DEF vl_touch
  <2>2. fp \in FilePointer /\ fp.open
    BY OpenedType DEF FilePointer, Opened, Flag
  <2>3. ~Closing(s) /\ \A d \in Client : held[d] # s
    BY <1>0, <2>1 DEF HandleInv, HandleExclusive, Closing, FirstFree
  <2>4. held' = held
    BY <1>4 DEF vl_touch
  <2>5. QED
    BY <2>1, <2>2, <2>3, <2>4, CloseHandles DEF TypeOK
<1>5. ASSUME vl_init PROVE HandleInv'
  <2>1. stack = <<>> /\ (\A c \in Client : held[c] = NoFp) /\ stack' = stack /\ held' = held
    BY <1>5 DEF vl_init
  <2>2. QED
    BY <2>1 DEF HandleInv, HandleExclusive, Closing
<1>6. ASSUME action_return PROVE HandleInv'
  <2> DEFINE n == Len(stack)
             s == stack[n]
  <2>1. /\ n \in Nat \ {0} /\ s \in Slot /\ DOMAIN stack = 1 .. n
        /\ DOMAIN stack' = 1 .. n - 1
        /\ \A i \in 1 .. n - 1 : stack'[i] = stack[i]
        /\ held' = held
    BY <1>0, <1>6 DEF action_return
  <2>2. \A t \in Slot : t # s => vlfile'[t] = vlfile[t]
    BY <1>6, <2>1 DEF action_return, TypeOK
  <2>3. \A i \in 1 .. n - 1 : stack[i] # s
    BY <2>1 DEF HandleInv, HandleExclusive
  <2>4. \A c \in Client : held[c] # s
    BY <1>0, <2>1 DEF HandleInv, HandleExclusive, Closing
  <2>5. \A i \in DOMAIN stack' : vlfile'[stack'[i]].open
    BY <1>0, <2>1, <2>2, <2>3 DEF HandleInv
  <2>6. \A i, j \in DOMAIN stack' : stack'[i] = stack'[j] => i = j
    BY <2>1 DEF HandleInv, HandleExclusive
  <2>7. (\A c \in Client : held[c] # NoFp => vlfile[held[c]].open /\ ~Closing(held[c]))'
    BY <1>0, <2>1, <2>2, <2>4 DEF HandleInv, HandleExclusive, Closing
  <2>8. \A c, d \in Client : c # d /\ held'[c] = held'[d] => held'[c] = NoFp
    BY <2>1 DEF HandleInv, HandleExclusive
  <2>9. QED
    BY <2>5, <2>6, <2>7, <2>8 DEF HandleInv, HandleExclusive
<1>7. CASE vlfile' = vlfile /\ held' = held /\ stack' = stack
  BY <1>7 DEF HandleInv, HandleExclusive, Closing
<1>8. QED
  BY <1>1, <1>2, <1>3, <1>4, <1>5, <1>6, <1>7
     DEF Next, vl_add_action, vl_remove_action, tick, vars

(* However calls, file actions and the actions they nest interleave, the     *)
(* application's pointers are open, its own, and not being closed, as long   *)
(* as it forgets what it closed and re-runs vl_init with nothing open.       *)
THEOREM HandlesExclusive ==
  ASSUME "retain" \notin Licence, "reinit" \notin Licence
  PROVE  Spec => []HandleExclusive
<1>1. Init => HandleInv
  BY DEF Init, HandleInv, HandleExclusive, Closing
<1>2. TypeOK /\ HandleInv /\ [Next]_vars => HandleInv'
  BY HandleStep
<1>3. HandleInv => HandleExclusive
  BY DEF HandleInv
<1>4. QED
  BY <1>1, <1>2, <1>3, TypeCorrect, PTL DEF Spec

-----------------------------------------------------------------------------
(* The rest is about an application that forgets the pointers it closed and  *)
(* re-runs vl_init with nothing open: each theorem states the licences it    *)
(* excludes, and no more.                                                    *)

(* The table of file actions, and the headers that refer to it, as an        *)
(* application leaves them that pairs vl_add_action with vl_remove_action.   *)
UsersOf(i) == {f \in bound : hact[f].select = i}

ActionInv ==
  /\ \A i \in ActSlot : /\ vlaction_users[i] = Cardinality(UsersOf(i))
                        /\ vlaction_users[i] = 0 <=> vlaction[i] = NullAction
  /\ \A f \in File : IF f \in bound THEN hact[f].select \in ActSlot ELSE hact[f].cond = {}

(* A count of users is below its 8 bits: vl_add_action does not wrap it. *)
FewFiles == IsFiniteSet(File) /\ Cardinality(File) < U8

LEMMA SmallMod ==
  ASSUME NEW a \in Nat, NEW b \in Nat, a < b
  PROVE  a % b = a
OBVIOUS

LEMMA UsersFinite ==
  ASSUME FewFiles, TypeOK, NEW i \in ActSlot
  PROVE  IsFiniteSet(UsersOf(i)) /\ Cardinality(UsersOf(i)) \in Nat
<1>1. UsersOf(i) \in SUBSET File
  BY DEF UsersOf, TypeOK
<1>2. IsFiniteSet(UsersOf(i))
  BY <1>1, FS_Subset DEF FewFiles
<1>3. QED
  BY <1>2, FS_CardinalityType

(* A file without action gets one: its entry gains a user, the others none. *)
LEMMA AddCounts ==
  ASSUME FewFiles, TypeOK, ActionInv,
         NEW f \in File, NEW cond, NEW a \in Action, f \notin bound, vl_add_action(f, cond, a)
  PROVE  ActionInv'
<1>1. PICK i \in ActSlot :
        /\ Picks(i, a)
        /\ vlaction' = [vlaction EXCEPT ![i] = a]
        /\ vlaction_users' = [vlaction_users EXCEPT ![i] = (@ + 1) % U8]
        /\ hact' = [hact EXCEPT ![f] = [cond |-> cond, select |-> i]]
  BY DEF vl_add_action
<1>2. bound' = bound \cup {f} /\ bound \subseteq File
  BY DEF vl_add_action, TypeOK
<1>3. UsersOf(i)' = UsersOf(i) \cup {f} /\ f \notin UsersOf(i)
  BY <1>1, <1>2 DEF UsersOf, TypeOK
<1>4. \A j \in ActSlot : j # i => UsersOf(j)' = UsersOf(j)
  BY <1>1, <1>2 DEF UsersOf, TypeOK
<1>5. Cardinality(UsersOf(i)') = Cardinality(UsersOf(i)) + 1
  BY <1>3, UsersFinite, FS_AddElement
<1>6. Cardinality(UsersOf(i)') < U8
  <2>1. UsersOf(i)' \in SUBSET File
    BY <1>2, <1>3 DEF UsersOf
  <2>2. Cardinality(UsersOf(i)') <= Cardinality(File)
    BY <2>1, FS_Subset DEF FewFiles
  <2>3. Cardinality(File) \in Nat /\ Cardinality(UsersOf(i)') \in Nat /\ U8 \in Nat
    BY <1>5, UsersFinite, FS_CardinalityType, VeeliteAssumption DEF FewFiles
  <2>4. QED
    BY <2>2, <2>3 DEF FewFiles
<1>7. /\ vlaction_users'[i] = Cardinality(UsersOf(i)')
      /\ vlaction_users'[i] # 0
      /\ vlaction'[i] = a /\ a # NullAction
  <2>1. vlaction_users'[i] = (vlaction_users[i] + 1) % U8
    BY <1>1 DEF TypeOK
  <2>2. vlaction_users[i] = Cardinality(UsersOf(i)) /\ Cardinality(UsersOf(i)) \in Nat
    BY UsersFinite DEF ActionInv
  <2>3. (vlaction_users[i] + 1) % U8 = vlaction_users[i] + 1
    <3>1. vlaction_users[i] + 1 \in Nat /\ vlaction_users[i] + 1 < U8 /\ U8 \in Nat
      BY <1>5, <1>6, <2>2, VeeliteAssumption
    <3>2. QED
      BY <3>1, SmallMod
  <2>4. QED
    BY <1>1, <1>5, <2>1, <2>2, <2>3, VeeliteAssumption DEF TypeOK
<1>8. \A j \in ActSlot : j # i => /\ vlaction_users'[j] = Cardinality(UsersOf(j)')
                                  /\ vlaction_users'[j] = 0 <=> vlaction'[j] = NullAction
  BY <1>1, <1>4 DEF ActionInv, TypeOK
<1>9. \A g \in File : IF g \in bound' THEN hact'[g].select \in ActSlot ELSE hact'[g].cond = {}
  BY <1>1, <1>2 DEF ActionInv, TypeOK
<1>10. QED
  BY <1>7, <1>8, <1>9 DEF ActionInv

(* The action of a file that has one is removed: its entry loses a user. *)
LEMMA RemoveCounts ==
  ASSUME FewFiles, TypeOK, ActionInv, NEW f \in File, f \in bound, vl_remove_action(f)
  PROVE  ActionInv'
<1>1. PICK i \in ActSlot : i = hact[f].select
  BY DEF ActionInv
<1>2. bound' = bound \ {f} /\ hact' = [hact EXCEPT ![f] = [cond |-> {}, select |-> 0]]
  BY DEF vl_remove_action
<1>3. f \in UsersOf(i) /\ UsersOf(i)' = UsersOf(i) \ {f}
  BY <1>1, <1>2 DEF UsersOf, TypeOK
<1>4. ASSUME NEW j \in ActSlot, j # i PROVE UsersOf(j)' = UsersOf(j)
  <2>1. f \notin UsersOf(j) /\ \A g \in File : g # f => hact'[g] = hact[g]
    BY <1>1, <1>2, <1>4 DEF UsersOf, TypeOK
  <2>2. bound' = bound \ {f} /\ bound \subseteq File
    BY <1>2 DEF TypeOK
  <2>3. QED
    BY <2>1, <2>2 DEF UsersOf
<1>5. Cardinality(UsersOf(i)') = Cardinality(UsersOf(i)) - 1
  <2>1. IsFiniteSet(UsersOf(i))
    BY <1>1, UsersFinite
  <2>2. Cardinality(UsersOf(i) \ {f}) = Cardinality(UsersOf(i)) - 1
    BY <1>3, <2>1, FS_RemoveElement
  <2>3. QED
    BY <1>3, <2>2
<1>6. vlaction_users[i] = Cardinality(UsersOf(i)) /\ vlaction_users[i] \in Nat \ {0}
  <2>1. UsersOf(i) # {}
    BY <1>3
  <2>2. Cardinality(UsersOf(i)) # 0
    BY <1>1, <2>1, UsersFinite, FS_EmptySet
  <2>3. QED
    BY <1>1, <2>2, UsersFinite DEF ActionInv
<1>7. i < VLACTIONS
  BY <1>1, VeeliteAssumption DEF ActSlot
<1>8. /\ vlaction_users' = [vlaction_users EXCEPT ![i] = @ - 1]
      /\ vlaction' = IF vlaction_users[i] = 1
                       THEN [vlaction EXCEPT ![i] = NullAction] ELSE vlaction
  BY <1>1, <1>6, <1>7 DEF vl_remove_action
<1>9. /\ vlaction_users'[i] = Cardinality(UsersOf(i)')
      /\ vlaction_users'[i] = 0 <=> vlaction'[i] = NullAction
  <2>1. vlaction_users'[i] = vlaction_users[i] - 1
    BY <1>1, <1>8 DEF TypeOK
  <2>2. vlaction[i] # NullAction
    BY <1>1, <1>6 DEF ActionInv
  <2>3. QED
    BY <1>1, <1>5, <1>6, <1>8, <2>1, <2>2 DEF TypeOK
<1>10. \A j \in ActSlot : j # i => /\ vlaction_users'[j] = Cardinality(UsersOf(j)')
                                   /\ vlaction_users'[j] = 0 <=> vlaction'[j] = NullAction
  BY <1>4, <1>8 DEF ActionInv, TypeOK
<1>11. \A g \in File : IF g \in bound' THEN hact'[g].select \in ActSlot ELSE hact'[g].cond = {}
  BY <1>2 DEF ActionInv, TypeOK
<1>12. QED
  BY <1>9, <1>10, <1>11 DEF ActionInv

LEMMA ActionStep ==
  ASSUME "unpaired" \notin Licence, "reinit" \notin Licence, FewFiles,
         TypeOK, ActionInv, [Next]_vars
  PROVE  ActionInv'
<1>1. CASE UNCHANGED <<vlaction, vlaction_users, hact, bound>>
  BY <1>1 DEF ActionInv, UsersOf
<1>2. ASSUME NEW f \in File, NEW cond, NEW a \in Action, vl_add_action(f, cond, a)
      PROVE  ActionInv'
  <2>1. f \notin bound
    BY <1>2 DEF vl_add_action
  <2>2. QED
    BY <1>2, <2>1, AddCounts
<1>3. ASSUME NEW f \in File, vl_remove_action(f) PROVE ActionInv'
  <2>1. f \in bound
    BY <1>3 DEF vl_remove_action
  <2>2. QED
    BY <1>3, <2>1, RemoveCounts
<1>4. ASSUME vl_init PROVE ActionInv'
  <2>1. bound = {} /\ bound' = {} /\ hact' = hact
    BY <1>4 DEF vl_init, hdrs
  <2>2. \A i \in ActSlot : UsersOf(i)' = {} /\ vlaction_users'[i] = 0 /\ vlaction'[i] = NullAction
    BY <1>4, <2>1 DEF vl_init, UsersOf
  <2>3. QED
    BY <2>1, <2>2, FS_EmptySet DEF ActionInv
<1>5. ASSUME NEW c \in Client, FileCall(c) PROVE ActionInv'
  <2>1. \A f \in File : vl_open(c, f) => UNCHANGED <<hact, bound, vlaction, vlaction_users>>
    BY DEF vl_open, hdrs, actions
  <2>2. \A len, flags, off, n : Update(c, len, flags, off, n)
                                => UNCHANGED <<hact, bound, vlaction, vlaction_users>>
    BY DEF Update, hdrs, actions
  <2>3. vl_close(c) => UNCHANGED <<hact, bound, vlaction, vlaction_users>>
    BY DEF vl_close, WildHeader, CloseFile, hdrs, actions
  <2>4. \A t : vl_setmodtime(c, t) => UNCHANGED <<hact, bound, vlaction, vlaction_users>>
    BY DEF vl_setmodtime, WildHeader, hdrs, actions
  <2>5. QED
    BY <1>1, <1>5, <2>1, <2>2, <2>3, <2>4
       DEF FileCall, vl_write, vl_store, vl_append, vl_execute
<1>6. ASSUME NEW f \in File, NEW flags, vl_touch(f, flags) PROVE ActionInv'
  BY <1>1, <1>6 DEF vl_touch, CloseFile, actions
<1>7. CASE action_return \/ tick \/ UNCHANGED vars
  BY <1>1, <1>7 DEF action_return, tick, hdrs, actions, vars
<1>8. QED
  BY <1>2, <1>3, <1>4, <1>5, <1>6, <1>7 DEF Next

LEMMA ActionInit == Init => ActionInv
<1> SUFFICES ASSUME Init PROVE ActionInv
  OBVIOUS
<1>1. \A i \in ActSlot : UsersOf(i) = {}
  BY DEF Init, UsersOf
<1>2. QED
  BY <1>1, FS_EmptySet DEF Init, ActionInv

LEMMA InvIsLive ==
  ASSUME FewFiles, TypeOK, ActionInv
  PROVE  ActionsLive
<1> SUFFICES ASSUME NEW f \in File, hact[f].cond # {}
             PROVE  vlaction[hact[f].select] # NullAction
  BY DEF ActionsLive
<1>1. f \in bound /\ hact[f].select \in ActSlot
  BY DEF ActionInv
<1>2. UsersOf(hact[f].select) # {}
  BY <1>1 DEF UsersOf
<1>3. Cardinality(UsersOf(hact[f].select)) # 0
  BY <1>1, <1>2, UsersFinite, FS_EmptySet
<1>4. QED
  BY <1>1, <1>3 DEF ActionInv

(* With paired actions and fewer files than a user count has values, the     *)
(* count of each entry is the number of files that refer to it.              *)
THEOREM CountsExact ==
  ASSUME "unpaired" \notin Licence, "reinit" \notin Licence, FewFiles
  PROVE  Spec => []UserCountExact
<1>1. ActionInv => UserCountExact
  BY DEF ActionInv, UserCountExact, UsersOf
<1>2. TypeOK /\ ActionInv /\ [Next]_vars => ActionInv'
  BY ActionStep
<1>3. QED
  BY <1>1, <1>2, ActionInit, TypeCorrect, PTL DEF Spec

(* sub_action, which does not check, then never calls NULL. *)
THEOREM ActionsStayLive ==
  ASSUME "unpaired" \notin Licence, "reinit" \notin Licence, FewFiles
  PROVE  Spec => []ActionsLive
<1>1. TypeOK /\ ActionInv => ActionsLive
  BY InvIsLive
<1>2. TypeOK /\ ActionInv /\ [Next]_vars => ActionInv'
  BY ActionStep
<1>3. QED
  BY <1>1, <1>2, ActionInit, TypeCorrect, PTL DEF Spec

-----------------------------------------------------------------------------
(* The steps of Next, as what they do to the pointers, for an application    *)
(* that forgets the pointers it closed.                                      *)
Opens(c, f, s) ==
  /\ held[c] = NoFp /\ (~InUse(f) \/ "share" \in Licence)
  /\ FirstFree(s)
  /\ vlfile' = [vlfile EXCEPT ![s] = Opened(f)]
  /\ held' = [held EXCEPT ![c] = s]
  /\ UNCHANGED <<hlen, hmod, stack>>

(* What Update is called with: a length that differs comes with RESIZED, and *)
(* RESIZED with MODDED.                                                      *)
Honest(c, len, flags) ==
  /\ len \in Nat /\ flags \in SUBSET Flag
  /\ "RESIZED" \in flags \/ len = vlfile[held[c]].length
  /\ "RESIZED" \in flags => "MODDED" \in flags

Updated(c, len, flags) ==
  /\ held[c] # NoFp /\ Honest(c, len, flags)
  /\ \/ vlfile' = [vlfile EXCEPT ![held[c]] = [file |-> vlfile[held[c]].file, length |-> len,
                       flags |-> vlfile[held[c]].flags \cup flags,
                       open |-> vlfile[held[c]].open]]
     \/ UNCHANGED vlfile
  /\ UNCHANGED <<held, hlen, hmod, stack>>

Updates(c) == \E len, flags : Updated(c, len, flags)

Closes(c) ==
  /\ held[c] # NoFp /\ vlfile[held[c]].file # NoFile
  /\ CloseFile(held[c], vlfile[held[c]])
  /\ held' = [held EXCEPT ![c] = NoFp]

Touched(f) == [Opened(f) EXCEPT !.flags = @ \cap {"OPENED", "MODDED"}]

Touches(s, f) == FirstFree(s) /\ CloseFile(s, Touched(f)) /\ UNCHANGED held

Idle == UNCHANGED <<vlfile, held, hlen, stack>>

LEMMA CallKinds ==
  ASSUME "retain" \notin Licence, TypeOK, NEW c \in Client, FileCall(c)
  PROVE  \/ \E f \in File, s \in Slot : Opens(c, f, s)
         \/ Updates(c)
         \/ Closes(c)
         \/ Idle
<1>1. ASSUME NEW f \in File, vl_open(c, f) PROVE \E s \in Slot : Opens(c, f, s)
  BY <1>1 DEF vl_open, Opens, hdrs
<1> DEFINE fp == vlfile[held[c]]
<1>2. ASSUME held[c] # NoFp, NEW len, NEW flags, NEW off, NEW n,
             Update(c, len, flags, off, n), Honest(c, len, flags)
      PROVE  Updates(c)
  BY <1>2 DEF Update, Updates, Updated, hdrs
<1>3. ASSUME NEW off \in WriteOffset, vl_write(c, off)
      PROVE  Updates(c)
  <2>1. held[c] # NoFp /\ fp.length \in Nat /\ off \in Nat
    BY <1>3, VeeliteAssumption DEF vl_write, TypeOK, FilePointer
  <2>2. /\ Honest(c, off + 2, {"RESIZED", "MODDED"})
        /\ Honest(c, fp.length, {"MODDED"})
    BY <2>1 DEF Honest, Flag
  <2>3. QED
    BY <1>2, <1>3, <2>1, <2>2 DEF vl_write
<1>4. ASSUME NEW len \in StoreLen, vl_store(c, len)
      PROVE  Updates(c)
  <2> DEFINE size   == IF len > AllocOf(fp) THEN AllocOf(fp) ELSE len
             raised == IF size # fp.length THEN {"RESIZED", "MODDED"} ELSE {"MODDED"}
  <2>1. held[c] # NoFp /\ fp \in FilePointer
    BY <1>4 DEF vl_store, TypeOK
  <2>2. size \in Nat
    BY <2>1, AllocOfType, VeeliteAssumption
  <2>3. Honest(c, size, raised)
    BY <2>2 DEF Honest, Flag
  <2>4. Update(c, size, raised, 0, HalfWords(size))
    BY <1>4 DEF vl_store
  <2>5. QED
    BY <1>2, <2>1, <2>3, <2>4
<1>5. ASSUME NEW len \in AppendLen, vl_append(c, len)
      PROVE  Updates(c)
  <2>1. held[c] # NoFp /\ fp.length \in Nat /\ len \in Nat
    BY <1>5, VeeliteAssumption DEF vl_append, TypeOK, FilePointer
  <2>2. Honest(c, fp.length + len, {"RESIZED", "MODDED"})
    BY <2>1 DEF Honest, Flag
  <2>3. QED
    BY <1>2, <1>5, <2>1, <2>2 DEF vl_append
<1>6. ASSUME NEW t, vl_setmodtime(c, t) PROVE Idle
  BY <1>6 DEF vl_setmodtime, WildHeader, Idle, hdrs
<1>7. ASSUME vl_close(c) PROVE Closes(c) \/ Idle
  BY <1>7 DEF vl_close, Closes, Forget, WildHeader, Idle, hdrs
<1>8. ASSUME NEW len \in StoreLen, vl_execute(c, len) PROVE Updates(c)
  BY <1>4, <1>8 DEF vl_execute
<1>9. QED
  BY <1>1, <1>3, <1>4, <1>5, <1>6, <1>7, <1>8 DEF FileCall

LEMMA StepKinds ==
  ASSUME "retain" \notin Licence, TypeOK, [Next]_vars
  PROVE  \/ \E c \in Client, f \in File, s \in Slot : Opens(c, f, s)
         \/ \E c \in Client : Updates(c)
         \/ \E c \in Client : Closes(c)
         \/ \E s \in Slot, f \in File : Touches(s, f)
         \/ action_return
         \/ vl_init
         \/ Idle
<1>1. ASSUME NEW f \in File, NEW flags, vl_touch(f, flags) PROVE \E s \in Slot : Touches(s, f)
  BY <1>1 DEF vl_touch, Touches, Touched
<1>2. ASSUME NEW f \in File, NEW cond, NEW a, vl_add_action(f, cond, a) PROVE Idle
  BY <1>2 DEF vl_add_action, Idle
<1>3. ASSUME NEW f \in File, vl_remove_action(f) PROVE Idle
  BY <1>3 DEF vl_remove_action, Idle
<1>4. CASE tick \/ UNCHANGED vars
  BY <1>4 DEF tick, vars, hdrs, Idle
<1>5. ASSUME NEW c \in Client, FileCall(c)
      PROVE  \/ \E f \in File, s \in Slot : Opens(c, f, s)
             \/ Updates(c)
             \/ Closes(c)
             \/ Idle
  BY <1>5, CallKinds
<1>6. QED
  BY <1>1, <1>2, <1>3, <1>4, <1>5 DEF Next

LEMMA HandleInvariant ==
  ASSUME "retain" \notin Licence, "reinit" \notin Licence
  PROVE  Spec => [](TypeOK /\ HandleInv)
<1>1. Init => HandleInv
  BY DEF Init, HandleInv, HandleExclusive, Closing
<1>2. TypeOK /\ HandleInv /\ [Next]_vars => HandleInv'
  BY HandleStep
<1>3. QED
  BY <1>1, <1>2, TypeCorrect, PTL DEF Spec

(* What HandleInv says of the entries: those the application holds, and      *)
(* those being closed, are open, and they are not the same.                  *)
LEMMA EntriesApart ==
  ASSUME TypeOK, HandleInv, NEW c \in Client, held[c] # NoFp
  PROVE  /\ held[c] \in Slot
         /\ vlfile[held[c]].open /\ ~Closing(held[c])
         /\ \A d \in Client : d # c => held[d] # held[c]
BY DEF TypeOK, HandleInv, HandleExclusive

(* A write, store or append changes the entry of its pointer only, and not   *)
(* whose entry it is.                                                        *)
LEMMA UpdatesOne ==
  ASSUME TypeOK, NEW c \in Client, Updates(c)
  PROVE  /\ held[c] # NoFp /\ UNCHANGED <<held, hlen, hmod, stack>>
         /\ \A s \in Slot : s # held[c] => vlfile'[s] = vlfile[s]
         /\ \A s \in Slot : vlfile'[s].open = vlfile[s].open
         /\ \A s \in Slot : vlfile'[s].file = vlfile[s].file
<1>1. PICK len, flags : Updated(c, len, flags)
  BY DEF Updates
<1> DEFINE fp  == vlfile[held[c]]
           new == [file |-> fp.file, length |-> len, flags |-> fp.flags \cup flags,
                   open |-> fp.open]
<1>2. held[c] \in Slot /\ held[c] # NoFp
  BY <1>1 DEF Updated, TypeOK
<1>3. CASE vlfile' = [vlfile EXCEPT ![held[c]] = new]
  <2>1. vlfile'[held[c]] = new /\ \A s \in Slot : s # held[c] => vlfile'[s] = vlfile[s]
    BY <1>2, <1>3 DEF TypeOK
  <2>2. new.open = vlfile[held[c]].open /\ new.file = vlfile[held[c]].file
    OBVIOUS
  <2>3. \A s \in Slot : vlfile'[s].open = vlfile[s].open /\ vlfile'[s].file = vlfile[s].file
    <3> HIDE DEF new, fp
    <3>1. SUFFICES ASSUME NEW s \in Slot
                   PROVE  vlfile'[s].open = vlfile[s].open /\ vlfile'[s].file = vlfile[s].file
      OBVIOUS
    <3>2. CASE s = held[c]
      BY <2>1, <2>2, <3>2, Zenon
    <3>3. CASE s # held[c]
      BY <2>1, <3>3, Zenon
    <3>4. QED
      BY <3>2, <3>3
  <2>4. QED
    BY <1>1, <1>2, <2>1, <2>3 DEF Updated
<1>4. CASE vlfile' = vlfile
  BY <1>1, <1>2, <1>4 DEF Updated
<1>5. QED
  BY <1>1, <1>3, <1>4 DEF Updated

(* What a step of the last kinds leaves: the entries the application holds.  *)
LEMMA HeldUntouched ==
  ASSUME "reinit" \notin Licence, TypeOK, HandleInv, NEW c \in Client, held[c] # NoFp,
         \/ \E s \in Slot, f \in File : Touches(s, f)
         \/ action_return \/ vl_init \/ Idle
  PROVE  held' = held /\ vlfile'[held[c]] = vlfile[held[c]]
<1>1. held[c] \in Slot /\ vlfile[held[c]].open /\ ~Closing(held[c])
  BY EntriesApart
<1>2. ASSUME NEW s \in Slot, NEW f \in File, Touches(s, f)
      PROVE  held' = held /\ vlfile'[held[c]] = vlfile[held[c]]
  <2>1. s # held[c] /\ held' = held
    BY <1>1, <1>2 DEF Touches, FirstFree
  <2>2. \A t \in Slot : t # s => vlfile'[t] = vlfile[t]
    BY <1>2 DEF Touches, CloseFile, RunAction, TypeOK
  <2>3. QED
    BY <1>1, <2>1, <2>2
<1>3. ASSUME action_return PROVE held' = held /\ vlfile'[held[c]] = vlfile[held[c]]
  <2>1. stack[Len(stack)] # held[c]
    BY <1>1, <1>3 DEF action_return, Closing, TypeOK
  <2>2. QED
    BY <1>1, <1>3, <2>1 DEF action_return, TypeOK
<1>4. ~vl_init
  BY DEF vl_init
<1>5. QED
  BY <1>2, <1>3, <1>4 DEF Idle

-----------------------------------------------------------------------------
(* An entry that is closed and whose action has been run is free again; one  *)
(* whose action is not run was free at once.  That a call of NULL never ends *)
(* vl_close early needs ActionsLive.                                         *)
LEMMA LeakStep ==
  ASSUME "retain" \notin Licence, TypeOK, HandleInv, ActionsLive, NoSlotLeak, [Next]_vars
  PROVE  NoSlotLeak'
<1>0. stack \in Seq(Slot) /\ vlfile \in [Slot -> FilePointer]
  BY DEF TypeOK
<1>1. ASSUME NEW c \in Client, NEW f \in File, NEW s \in Slot, Opens(c, f, s)
      PROVE  NoSlotLeak'
  <2>1. held[c] = NoFp /\ NoFp \notin Slot
    BY <1>1 DEF Opens, NoFp, Slot
  <2>2. /\ \A t \in Slot : t # s => vlfile'[t] = vlfile[t]
        /\ held'[c] = s /\ \A d \in Client : d # c => held'[d] = held[d]
        /\ stack' = stack
    BY <1>1 DEF Opens, TypeOK
  <2>3. QED
    BY <2>1, <2>2 DEF NoSlotLeak, Closing
<1>2. ASSUME NEW c \in Client, Updates(c) PROVE NoSlotLeak'
  <2>1. held' = held /\ stack' = stack /\ \A s \in Slot : vlfile'[s].open = vlfile[s].open
    BY <1>2, UpdatesOne
  <2>2. QED
    BY <2>1 DEF NoSlotLeak, Closing
<1>3. ASSUME NEW s \in Slot, NEW fp \in FilePointer, fp.file \in File, CloseFile(s, fp),
             \A c \in Client : held[c] # s => held'[c] = held[c]
      PROVE  NoSlotLeak'
  <2>1. \A t \in Slot : t # s => vlfile'[t] = vlfile[t]
    BY <1>3 DEF CloseFile, RunAction, TypeOK
  <2>2. \A t \in Slot : Closing(t) => Closing(t)'
    <3>1. CASE stack' = stack
      BY <3>1 DEF Closing
    <3>2. CASE stack' = Append(stack, s)
      <4>1. \A i \in DOMAIN stack : i \in DOMAIN stack' /\ stack'[i] = stack[i]
        BY <1>0, <3>2
      <4>2. QED
        BY <4>1 DEF Closing
    <3>3. QED
      BY <1>3, <3>1, <3>2 DEF CloseFile, RunAction
  <2>3. ~vlfile'[s].open \/ Closing(s)'
    <3> DEFINE code   == hact[fp.file]
               called == code.cond \cap fp.flags # {} /\ code.select < VLACTIONS
    <3>1. CASE called
      <4>1. vlaction[code.select] # NullAction
        BY <1>3, <3>1 DEF ActionsLive
      <4>2. stack' = Append(stack, s)
        BY <1>3, <3>1, <4>1 DEF CloseFile, RunAction
      <4>3. Len(stack) + 1 \in DOMAIN stack' /\ stack'[Len(stack) + 1] = s
        BY <1>0, <4>2
      <4>4. QED
        BY <4>3 DEF Closing
    <3>2. CASE ~called
      BY <1>0, <1>3, <3>2 DEF CloseFile, Closed
    <3>3. QED
      BY <3>1, <3>2
  <2>4. SUFFICES ASSUME NEW t \in Slot, vlfile'[t].open, t # s
                 PROVE  Closing(t)' \/ \E c \in Client : held'[c] = t
    BY <2>3 DEF NoSlotLeak
  <2>5. Closing(t) \/ \E c \in Client : held[c] = t
    BY <2>1, <2>4 DEF NoSlotLeak
  <2>6. QED
    BY <1>3, <2>2, <2>4, <2>5
<1>4. ASSUME NEW c \in Client, Closes(c) PROVE NoSlotLeak'
  <2>1. held[c] \in Slot /\ vlfile[held[c]] \in FilePointer /\ vlfile[held[c]].file \in File
    BY <1>0, <1>4, EntriesApart DEF Closes, FilePointer
  <2>2. CloseFile(held[c], vlfile[held[c]])
    BY <1>4 DEF Closes
  <2>3. \A d \in Client : held[d] # held[c] => held'[d] = held[d]
    BY <1>4 DEF Closes, TypeOK
  <2>4. QED
    BY <1>3, <2>1, <2>2, <2>3
<1>5. ASSUME NEW s \in Slot, NEW f \in File, Touches(s, f) PROVE NoSlotLeak'
  <2>1. Touched(f) \in FilePointer /\ Touched(f).file \in File
    BY OpenedType DEF Touched, Opened, FilePointer, Flag
  <2>2. CloseFile(s, Touched(f)) /\ held' = held
    BY <1>5 DEF Touches
  <2>3. QED
    BY <1>3, <2>1, <2>2
<1>6. ASSUME action_return PROVE NoSlotLeak'
  <2> DEFINE n == Len(stack)
  <2>1. /\ n \in Nat \ {0} /\ stack[n] \in Slot
        /\ DOMAIN stack = 1 .. n /\ DOMAIN stack' = 1 .. n - 1
        /\ \A i \in 1 .. n - 1 : stack'[i] = stack[i]
        /\ held' = held
        /\ vlfile' = [vlfile EXCEPT ![stack[n]] = Closed(vlfile[stack[n]])]
    BY <1>0, <1>6 DEF action_return
  <2>2. ~vlfile'[stack[n]].open /\ \A t \in Slot : t # stack[n] => vlfile'[t] = vlfile[t]
    BY <1>0, <2>1 DEF Closed
  <2>3. \A t \in Slot : Closing(t) /\ t # stack[n] => Closing(t)'
    BY <2>1 DEF Closing
  <2>4. QED
    BY <2>1, <2>2, <2>3 DEF NoSlotLeak
<1>7. ASSUME vl_init PROVE NoSlotLeak'
  BY <1>7 DEF vl_init, NoSlotLeak, Cleared
<1>8. ASSUME Idle PROVE NoSlotLeak'
  BY <1>8 DEF Idle, NoSlotLeak, Closing
<1>9. QED
  BY <1>1, <1>2, <1>4, <1>5, <1>6, <1>7, <1>8, StepKinds

(* The orderly application never runs out of file pointers by losing them:   *)
(* each entry in use is held, or its vl_close is still running an action.    *)
THEOREM NoneLost ==
  ASSUME "retain" \notin Licence, "unpaired" \notin Licence, "reinit" \notin Licence,
         FewFiles
  PROVE  Spec => []NoSlotLeak
<1>1. Init => NoSlotLeak
  BY DEF Init, NoSlotLeak, Cleared
<1>2. TypeOK /\ HandleInv /\ ActionsLive /\ NoSlotLeak /\ [Next]_vars => NoSlotLeak'
  BY LeakStep
<1>3. QED
  BY <1>1, <1>2, HandleInvariant, ActionsStayLive, PTL DEF Spec

-----------------------------------------------------------------------------
(* A pointer the application holds is on a file, not on NULL_vaddr. *)
OnFile == \A s \in Slot : vlfile[s].open => vlfile[s].file \in File

LEMMA OnFileStep ==
  ASSUME "retain" \notin Licence, TypeOK, OnFile, [Next]_vars
  PROVE  OnFile'
<1>0. vlfile \in [Slot -> FilePointer]
  BY DEF TypeOK
<1>1. ASSUME NEW c \in Client, NEW f \in File, NEW s \in Slot, Opens(c, f, s) PROVE OnFile'
  BY <1>0, <1>1 DEF Opens, Opened, OnFile
<1>2. ASSUME NEW c \in Client, Updates(c) PROVE OnFile'
  <2>1. \A s \in Slot : vlfile'[s].open = vlfile[s].open /\ vlfile'[s].file = vlfile[s].file
    BY <1>2, UpdatesOne
  <2>2. QED
    BY <2>1 DEF OnFile
<1>3. ASSUME NEW s \in Slot, NEW fp, fp.file \in File, CloseFile(s, fp) PROVE OnFile'
  <2>1. vlfile' = [vlfile EXCEPT ![s] = fp] \/ vlfile' = [vlfile EXCEPT ![s] = Closed(fp)]
    BY <1>3 DEF CloseFile, RunAction
  <2>2. vlfile'[s].file \in File /\ \A t \in Slot : t # s => vlfile'[t] = vlfile[t]
    BY <1>0, <1>3, <2>1 DEF Closed
  <2>3. QED
    BY <2>2 DEF OnFile
<1>4. ASSUME NEW c \in Client, Closes(c) PROVE OnFile'
  <2>1. held[c] \in Slot /\ vlfile[held[c]].file \in File
    BY <1>0, <1>4 DEF Closes, TypeOK, FilePointer
  <2>2. QED
    BY <1>3, <1>4, <2>1 DEF Closes
<1>5. ASSUME NEW s \in Slot, NEW f \in File, Touches(s, f) PROVE OnFile'
  <2>1. Touched(f).file \in File
    BY DEF Touched, Opened
  <2>2. QED
    BY <1>3, <1>5, <2>1 DEF Touches
<1>6. ASSUME action_return PROVE OnFile'
  <2>1. stack[Len(stack)] \in Slot
    BY <1>6 DEF action_return, TypeOK
  <2>2. \A s \in Slot : vlfile'[s] = vlfile[s] \/ ~vlfile'[s].open
    BY <1>0, <1>6, <2>1 DEF action_return, Closed
  <2>3. QED
    BY <2>2 DEF OnFile
<1>7. ASSUME vl_init PROVE OnFile'
  BY <1>7 DEF vl_init, Cleared, OnFile
<1>8. ASSUME Idle PROVE OnFile'
  BY <1>8 DEF Idle, OnFile
<1>9. QED
  BY <1>1, <1>2, <1>4, <1>5, <1>6, <1>7, <1>8, StepKinds

LEMMA OnFileInvariant ==
  ASSUME "retain" \notin Licence, "reinit" \notin Licence
  PROVE  Spec => [](TypeOK /\ HandleInv /\ OnFile)
<1>1. Init => OnFile
  BY DEF Init, OnFile, Cleared
<1>2. TypeOK /\ OnFile /\ [Next]_vars => OnFile'
  BY OnFileStep
<1>3. QED
  BY <1>1, <1>2, HandleInvariant, PTL DEF Spec

-----------------------------------------------------------------------------
(* The refinement: the session of a client is the file and the length in the *)
(* entry it holds.  No entry is held twice, so a step on one changes one     *)
(* session; the entries being closed are nobody's session any more.          *)
session == [c \in Client |->
              IF held[c] = NoFp THEN NoSession
              ELSE [file |-> vlfile[held[c]].file, length |-> vlfile[held[c]].length]]

SessionNext == [Sessions!Next]_(Sessions!vars)

LEMMA SessionIs ==
  ASSUME TypeOK, HandleInv, OnFile, NEW c \in Client
  PROVE  /\ held[c] # NoFp => session[c] \in Sessions!Session
         /\ session[c] = NoSession <=> held[c] = NoFp
<1>1. ASSUME held[c] # NoFp PROVE session[c] \in Sessions!Session
  <2>1. vlfile[held[c]].file \in File /\ vlfile[held[c]].length \in Nat
    BY <1>1, EntriesApart DEF TypeOK, FilePointer, OnFile
  <2>2. QED
    BY <1>1, <2>1 DEF session, Sessions!Session
<1>2. NoSession \notin Sessions!Session
  BY VeeliteAssumption DEF NoSession, Sessions!Session
<1>3. held[c] = NoFp => session[c] = NoSession
  BY DEF session
<1>4. QED
  BY <1>1, <1>2, <1>3

LEMMA OneChanged ==
  ASSUME NEW F, NEW G, F = [d \in Client |-> F[d]], G = [d \in Client |-> G[d]],
         NEW c \in Client, \A d \in Client : d # c => G[d] = F[d]
  PROVE  G = [F EXCEPT ![c] = G[c]]
OBVIOUS

LEMMA SessionChanged ==
  ASSUME NEW c \in Client, \A d \in Client : d # c => session'[d] = session[d]
  PROVE  session' = [session EXCEPT ![c] = session'[c]]
<1>1. session = [d \in Client |-> session[d]] /\ session' = [d \in Client |-> session'[d]]
  BY DEF session
<1>2. QED
  BY <1>1, OneChanged

LEMMA MapsToBegin ==
  ASSUME TypeOK, HandleInv, OnFile, NEW c \in Client, NEW f \in File, NEW s \in Slot,
         Opens(c, f, s)
  PROVE  Sessions!Begin(c, f)
<1>1. held[c] = NoFp /\ NoFp \notin Slot /\ hlen' = hlen /\ ~vlfile[s].open
  BY DEF Opens, FirstFree, NoFp, Slot
<1>2. /\ held'[c] = s /\ \A d \in Client : d # c => held'[d] = held[d]
      /\ vlfile'[s] = Opened(f) /\ \A t \in Slot : t # s => vlfile'[t] = vlfile[t]
  BY DEF Opens, TypeOK
<1>3. \A d \in Client : held[d] # NoFp => held[d] \in Slot /\ held[d] # s
  BY <1>1, EntriesApart
<1>4. session' = [session EXCEPT ![c] = [file |-> f, length |-> hlen[f]]]
  <2>1. session'[c] = [file |-> f, length |-> hlen[f]]
    BY <1>1, <1>2 DEF session, Opened
  <2>2. \A d \in Client : d # c => session'[d] = session[d]
    BY <1>2, <1>3 DEF session
  <2>3. QED
    BY <2>1, <2>2, SessionChanged
<1>5. session[c] = NoSession
  BY <1>1 DEF session
<1>6. QED
  BY <1>1, <1>4, <1>5 DEF Sessions!Begin, session

LEMMA MapsToResize ==
  ASSUME TypeOK, HandleInv, OnFile, NEW c \in Client, Updates(c), TypeOK', HandleInv', OnFile'
  PROVE  Sessions!Resize(c)
<1>1. /\ held[c] # NoFp /\ held' = held /\ hlen' = hlen
      /\ \A s \in Slot : s # held[c] => vlfile'[s] = vlfile[s]
      /\ \A s \in Slot : vlfile'[s].file = vlfile[s].file
  BY UpdatesOne
<1>2. held[c] \in Slot /\ \A d \in Client : held[d] # NoFp /\ d # c =>
                            held[d] \in Slot /\ held[d] # held[c]
  BY <1>1, EntriesApart
<1>3. \A d \in Client : d # c => session'[d] = session[d]
  BY <1>1, <1>2 DEF session
<1>4. session'[c] = [file |-> session[c].file, length |-> session'[c].length]
  BY <1>1, <1>2 DEF session
<1>5. session' = [session EXCEPT ![c] = [file |-> @.file, length |-> session'[c].length]]
  BY <1>3, <1>4, SessionChanged
<1>6. session[c] # NoSession
  BY <1>1, SessionIs
<1>7. session'[c] \in Sessions!Session
  <2>1. held'[c] \in Slot /\ vlfile'[held'[c]].file \in File /\ vlfile'[held'[c]].length \in Nat
    BY <1>1, <1>2 DEF TypeOK, HandleInv, HandleExclusive, OnFile, FilePointer
  <2>2. QED
    BY <1>1, <2>1 DEF session, Sessions!Session
<1>8. QED
  BY <1>1, <1>5, <1>6, <1>7 DEF Sessions!Resize, session

LEMMA MapsToEnd ==
  ASSUME TypeOK, HandleInv, OnFile, NEW c \in Client, Closes(c)
  PROVE  Sessions!End(c)
<1>1. held[c] # NoFp /\ held' = [held EXCEPT ![c] = NoFp]
  BY DEF Closes
<1>2. held[c] \in Slot /\ \A d \in Client : held[d] # NoFp /\ d # c =>
                            held[d] \in Slot /\ held[d] # held[c]
  BY <1>1, EntriesApart
<1>3. \A t \in Slot : t # held[c] => vlfile'[t] = vlfile[t]
  BY <1>2 DEF Closes, CloseFile, RunAction, TypeOK
<1>4. session' = [session EXCEPT ![c] = NoSession]
  BY <1>1, <1>2, <1>3 DEF session, TypeOK
<1>5. hlen' = [hlen EXCEPT ![session[c].file] = session[c].length]
  BY <1>1 DEF Closes, CloseFile, session
<1>6. session[c] # NoSession
  BY <1>1, SessionIs
<1>7. QED
  BY <1>4, <1>5, <1>6 DEF Sessions!End, session

LEMMA MapsToStutter ==
  ASSUME "reinit" \notin Licence, TypeOK, HandleInv, OnFile,
         \/ \E s \in Slot, f \in File : Touches(s, f)
         \/ action_return \/ vl_init \/ Idle
  PROVE  UNCHANGED <<session, hlen>>
<1>1. hlen' = hlen
  <2>1. ASSUME NEW s \in Slot, NEW f \in File, Touches(s, f) PROVE hlen' = hlen
    BY <2>1 DEF Touches, Touched, CloseFile, Opened, TypeOK
  <2>2. QED
    BY <2>1 DEF action_return, vl_init, Idle, hdrs
<1>2. held' = held
  BY DEF Touches, action_return, vl_init, Idle
<1>3. \A c \in Client : held[c] # NoFp => vlfile'[held[c]] = vlfile[held[c]]
  BY HeldUntouched
<1>4. session' = session
  BY <1>2, <1>3 DEF session
<1>5. QED
  BY <1>1, <1>4

LEMMA SessionStep ==
  ASSUME "retain" \notin Licence, "reinit" \notin Licence,
         TypeOK, HandleInv, OnFile, TypeOK', HandleInv', OnFile', [Next]_vars
  PROVE  SessionNext
<1>1. ASSUME NEW c \in Client, NEW f \in File, NEW s \in Slot, Opens(c, f, s)
      PROVE  SessionNext
  BY <1>1, MapsToBegin DEF SessionNext, Sessions!Next
<1>2. ASSUME NEW c \in Client, Updates(c) PROVE SessionNext
  BY <1>2, MapsToResize DEF SessionNext, Sessions!Next
<1>3. ASSUME NEW c \in Client, Closes(c) PROVE SessionNext
  BY <1>3, MapsToEnd DEF SessionNext, Sessions!Next
<1>4. ASSUME NEW s \in Slot, NEW f \in File, Touches(s, f) PROVE SessionNext
  BY <1>4, MapsToStutter DEF SessionNext, Sessions!vars, session
<1>5. ASSUME action_return \/ vl_init \/ Idle PROVE SessionNext
  BY <1>5, MapsToStutter DEF SessionNext, Sessions!vars, session
<1>6. QED
  BY <1>1, <1>2, <1>3, <1>4, <1>5, StepKinds

(* The pointers of the application behave as private sessions, shared files  *)
(* included: every step of the file layer is one of FileSessions or none.    *)
THEOREM PrivateSessions ==
  ASSUME "retain" \notin Licence, "reinit" \notin Licence
  PROVE  Spec => SessionsSpec
<1>1. Init => Sessions!Init
  BY DEF Init, Sessions!Init
<1>2. /\ TypeOK /\ HandleInv /\ OnFile /\ TypeOK' /\ HandleInv' /\ OnFile' /\ [Next]_vars
      => SessionNext
  BY SessionStep
<1>3. QED
  BY <1>1, <1>2, OnFileInvariant, PTL DEF Spec, SessionsSpec, Sessions!Spec, SessionNext

-----------------------------------------------------------------------------
(* Without shared files, a pointer whose length is not that of its header    *)
(* has resized the file, and one that has resized it has modified it.        *)
LengthInv ==
  /\ \A s \in Slot : "RESIZED" \in vlfile[s].flags => "MODDED" \in vlfile[s].flags
  /\ \A c \in Client : held[c] # NoFp =>
       \/ "RESIZED" \in vlfile[held[c]].flags
       \/ vlfile[held[c]].length = hlen[vlfile[held[c]].file]
  /\ \A c, d \in Client : c # d /\ held[c] # NoFp /\ held[d] # NoFp =>
       vlfile[held[c]].file # vlfile[held[d]].file

LEMMA LengthInvStep ==
  ASSUME "share" \notin Licence, "retain" \notin Licence, "reinit" \notin Licence,
         TypeOK, HandleInv, OnFile, LengthInv, [Next]_vars
  PROVE  LengthInv'
<1>0. vlfile \in [Slot -> FilePointer] /\ NoFp \notin Slot
  BY DEF TypeOK, NoFp, Slot
<1>1. ASSUME NEW c \in Client, NEW f \in File, NEW s \in Slot, Opens(c, f, s)
      PROVE  LengthInv'
  <2>1. ~InUse(f) /\ hlen' = hlen /\ ~vlfile[s].open /\ held[c] = NoFp
    BY <1>1 DEF Opens, FirstFree
  <2>2. /\ held'[c] = s /\ \A d \in Client : d # c => held'[d] = held[d]
        /\ vlfile'[s] = Opened(f) /\ \A t \in Slot : t # s => vlfile'[t] = vlfile[t]
    BY <1>0, <1>1 DEF Opens, TypeOK
  <2>3. \A d \in Client : held[d] # NoFp =>
          held[d] \in Slot /\ held[d] # s /\ vlfile[held[d]].file # f
    BY <2>1, EntriesApart DEF InUse
  <2>4. \A t \in Slot : "RESIZED" \in vlfile'[t].flags => "MODDED" \in vlfile'[t].flags
    BY <2>2 DEF LengthInv, Opened
  <2>5. \A d \in Client : held'[d] # NoFp =>
          \/ "RESIZED" \in vlfile'[held'[d]].flags
          \/ vlfile'[held'[d]].length = hlen'[vlfile'[held'[d]].file]
    BY <2>1, <2>2, <2>3 DEF LengthInv, Opened
  <2>6. \A d, e \in Client : d # e /\ held'[d] # NoFp /\ held'[e] # NoFp =>
          vlfile'[held'[d]].file # vlfile'[held'[e]].file
    BY <2>2, <2>3 DEF LengthInv, Opened
  <2>7. QED
    BY <2>4, <2>5, <2>6 DEF LengthInv
<1>2. ASSUME NEW c \in Client, Updates(c) PROVE LengthInv'
  <2>1. /\ held[c] # NoFp /\ held' = held /\ hlen' = hlen
        /\ \A s \in Slot : s # held[c] => vlfile'[s] = vlfile[s]
        /\ \A s \in Slot : vlfile'[s].file = vlfile[s].file
    BY <1>2, UpdatesOne
  <2>2. \A d \in Client : held[d] # NoFp => held[d] \in Slot
    BY EntriesApart
  <2>3. /\ "RESIZED" \in vlfile'[held[c]].flags => "MODDED" \in vlfile'[held[c]].flags
        /\ \/ "RESIZED" \in vlfile'[held[c]].flags
           \/ vlfile'[held[c]].length = hlen[vlfile[held[c]].file]
    <3>1. PICK len, flags : Updated(c, len, flags)
      BY <1>2 DEF Updates
    <3>2. /\ "RESIZED" \in vlfile[held[c]].flags => "MODDED" \in vlfile[held[c]].flags
          /\ \/ "RESIZED" \in vlfile[held[c]].flags
             \/ vlfile[held[c]].length = hlen[vlfile[held[c]].file]
      BY <2>1, <2>2 DEF LengthInv
    <3>3. CASE UNCHANGED vlfile
      BY <3>2, <3>3
    <3>4. CASE vlfile' = [vlfile EXCEPT ![held[c]] =
                            [file |-> vlfile[held[c]].file, length |-> len,
                             flags |-> vlfile[held[c]].flags \cup flags,
                             open |-> vlfile[held[c]].open]]
      <4>1. /\ vlfile'[held[c]].flags = vlfile[held[c]].flags \cup flags
            /\ vlfile'[held[c]].length = len
        BY <1>0, <2>1, <2>2, <3>4
      <4>2. QED
        BY <3>1, <3>2, <4>1 DEF Updated, Honest
    <3>5. QED
      BY <3>1, <3>3, <3>4 DEF Updated
  <2>4. QED
    BY <2>1, <2>2, <2>3 DEF LengthInv
<1>3. ASSUME NEW c \in Client, Closes(c) PROVE LengthInv'
  <2> DEFINE fp == vlfile[held[c]]
  <2>1. /\ held[c] # NoFp /\ held'[c] = NoFp
        /\ \A d \in Client : d # c => held'[d] = held[d]
        /\ hlen' = [hlen EXCEPT ![fp.file] = fp.length]
    BY <1>3 DEF Closes, CloseFile, TypeOK
  <2>2. /\ held[c] \in Slot
        /\ \A d \in Client : held[d] # NoFp /\ d # c => held[d] \in Slot /\ held[d] # held[c]
    BY <2>1, EntriesApart
  <2>3. \A s \in Slot : s # held[c] => vlfile'[s] = vlfile[s]
    BY <1>3, <2>2 DEF Closes, CloseFile, RunAction, TypeOK
  <2>4. vlfile'[held[c]] = fp \/ vlfile'[held[c]].flags = {}
    BY <1>0, <1>3, <2>2 DEF Closes, CloseFile, RunAction, Closed
  <2>5. \A d \in Client : held[d] # NoFp /\ d # c => vlfile[held[d]].file # fp.file
    BY <2>1 DEF LengthInv
  <2>6. \A s \in Slot : "RESIZED" \in vlfile'[s].flags => "MODDED" \in vlfile'[s].flags
    BY <2>3, <2>4 DEF LengthInv
  <2>7. \A d \in Client : held'[d] # NoFp =>
          \/ "RESIZED" \in vlfile'[held'[d]].flags
          \/ vlfile'[held'[d]].length = hlen'[vlfile'[held'[d]].file]
    <3>1. SUFFICES ASSUME NEW d \in Client, held'[d] # NoFp
                   PROVE  \/ "RESIZED" \in vlfile'[held'[d]].flags
                          \/ vlfile'[held'[d]].length = hlen'[vlfile'[held'[d]].file]
      OBVIOUS
    <3>2. /\ d # c /\ held'[d] = held[d] /\ held[d] # NoFp /\ held[d] \in Slot
          /\ vlfile'[held'[d]] = vlfile[held[d]]
      BY <2>1, <2>2, <2>3, <3>1
    <3>3. vlfile[held[d]].file \in File /\ vlfile[held[d]].file # fp.file
      BY <2>5, <3>2, EntriesApart DEF OnFile
    <3>4. hlen'[vlfile[held[d]].file] = hlen[vlfile[held[d]].file]
      BY <2>1, <3>3 DEF TypeOK
    <3>5. QED
      BY <3>2, <3>4 DEF LengthInv
  <2>8. \A d, e \in Client : d # e /\ held'[d] # NoFp /\ held'[e] # NoFp =>
          vlfile'[held'[d]].file # vlfile'[held'[e]].file
    BY <2>1, <2>2, <2>3 DEF LengthInv
  <2>9. QED
    BY <2>6, <2>7, <2>8 DEF LengthInv
<1>4. ASSUME \/ \E s \in Slot, f \in File : Touches(s, f)
             \/ action_return \/ vl_init \/ Idle,
             \A s \in Slot : "RESIZED" \in vlfile'[s].flags => "MODDED" \in vlfile'[s].flags
      PROVE  LengthInv'
  <2>1. UNCHANGED hlen
    BY <1>4, MapsToStutter
  <2>2. held' = held
    BY <1>4 DEF Touches, action_return, vl_init, Idle
  <2>3. \A c \in Client : held[c] # NoFp => vlfile'[held[c]] = vlfile[held[c]]
    BY <1>4, HeldUntouched
  <2>4. QED
    BY <1>4, <2>1, <2>2, <2>3 DEF LengthInv
<1>5. ASSUME NEW s \in Slot, NEW f \in File, Touches(s, f) PROVE LengthInv'
  <2>1. "RESIZED" \notin Touched(f).flags
    BY DEF Touched, Opened
  <2>2. \A t \in Slot : vlfile'[t] = vlfile[t] \/ "RESIZED" \notin vlfile'[t].flags
    BY <1>0, <1>5, <2>1 DEF Touches, CloseFile, RunAction, Closed
  <2>3. QED
    BY <1>4, <1>5, <2>2 DEF LengthInv
<1>6. ASSUME action_return PROVE LengthInv'
  <2>1. \A t \in Slot : vlfile'[t] = vlfile[t] \/ "RESIZED" \notin vlfile'[t].flags
    BY <1>0, <1>6 DEF action_return, Closed
  <2>2. QED
    BY <1>4, <1>6, <2>1 DEF LengthInv
<1>7. ASSUME vl_init PROVE LengthInv'
  <2>1. \A t \in Slot : "RESIZED" \notin vlfile'[t].flags
    BY <1>7 DEF vl_init, Cleared
  <2>2. QED
    BY <1>4, <1>7, <2>1
<1>8. ASSUME Idle PROVE LengthInv'
  BY <1>8 DEF Idle, LengthInv
<1>9. QED
  BY <1>1, <1>2, <1>3, <1>5, <1>6, <1>7, <1>8, StepKinds

(* Where a length comes from that a step writes into a header.               *)
LEMMA LengthSource ==
  ASSUME "retain" \notin Licence, "reinit" \notin Licence,
         TypeOK, HandleInv, OnFile, LengthInv, [Next]_vars,
         NEW f \in File, hlen'[f] # hlen[f]
  PROVE  /\ hmod'[f] = now
         /\ \E s \in Slot : /\ vlfile[s].file = f
                           /\ "RESIZED" \in vlfile[s].flags
                           /\ hlen'[f] = vlfile[s].length
<1>1. PICK c \in Client : Closes(c)
  <2>1. hlen' # hlen
    OBVIOUS
  <2>2. ~\E s \in Slot, g \in File : Touches(s, g)
    BY <2>1, MapsToStutter
  <2>3. ~(action_return \/ vl_init \/ Idle)
    BY <2>1, MapsToStutter
  <2>4. \A c \in Client : ~Updates(c)
    BY <2>1, UpdatesOne
  <2>5. \A c \in Client, g \in File, s \in Slot : ~Opens(c, g, s)
    BY <2>1 DEF Opens
  <2>6. QED
    BY <2>2, <2>3, <2>4, <2>5, StepKinds
<1> DEFINE fp == vlfile[held[c]]
<1>2. /\ held[c] # NoFp /\ held[c] \in Slot
      /\ hlen' = [hlen EXCEPT ![fp.file] = fp.length]
      /\ hmod' = IF "MODDED" \in fp.flags THEN [hmod EXCEPT ![fp.file] = now] ELSE hmod
  BY <1>1, EntriesApart DEF Closes, CloseFile
<1>3. fp.file = f /\ hlen'[f] = fp.length
  BY <1>2 DEF TypeOK
<1>4. "RESIZED" \in fp.flags /\ "MODDED" \in fp.flags
  BY <1>2, <1>3 DEF LengthInv
<1>5. QED
  BY <1>2, <1>3, <1>4 DEF TypeOK

LEMMA LengthInvariant ==
  ASSUME "share" \notin Licence, "retain" \notin Licence, "reinit" \notin Licence
  PROVE  Spec => [](TypeOK /\ HandleInv /\ OnFile /\ LengthInv)
<1>1. Init => LengthInv
  BY DEF Init, LengthInv, Cleared
<1>2. TypeOK /\ HandleInv /\ OnFile /\ LengthInv /\ [Next]_vars => LengthInv'
  BY LengthInvStep
<1>3. QED
  BY <1>1, <1>2, OnFileInvariant, PTL DEF Spec

(* A header takes a new length only from a pointer that resized the file, as *)
(* long as the application does not open a file twice.                       *)
THEOREM OnlyResizing ==
  ASSUME "share" \notin Licence, "retain" \notin Licence, "reinit" \notin Licence
  PROVE  Spec => LengthNeedsResize
<1> DEFINE Sourced == \A f \in File : hlen'[f] # hlen[f] =>
                        \E s \in Slot : /\ vlfile[s].file = f
                                        /\ "RESIZED" \in vlfile[s].flags
                                        /\ hlen'[f] = vlfile[s].length
<1>1. TypeOK /\ HandleInv /\ OnFile /\ LengthInv /\ [Next]_vars => [Sourced]_vars
  BY LengthSource
<1>2. QED
  BY <1>1, LengthInvariant, PTL DEF Spec, LengthNeedsResize

(* And then its modification time is the current one.                        *)
THEOREM ResizingStamped ==
  ASSUME "share" \notin Licence, "retain" \notin Licence, "reinit" \notin Licence
  PROVE  Spec => ModStamped
<1> DEFINE Stamped == \A f \in File : hlen'[f] # hlen[f] => hmod'[f] = now
<1>1. TypeOK /\ HandleInv /\ OnFile /\ LengthInv /\ [Next]_vars => [Stamped]_vars
  BY LengthSource
<1>2. QED
  BY <1>1, LengthInvariant, PTL DEF Spec, ModStamped
=============================================================================
