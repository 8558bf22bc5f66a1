------------------------------- MODULE AlpFile ------------------------------
(***************************************************************************)
(* The file protocol of ALP (otlib/alp_filedata.c) and its actuators       *)
(* (otlib/alp_sensor.c): a message names files, one per item, and asks for *)
(* their permissions, headers or data, or to change them.  One step treats *)
(* one item; it opens the file, writes or reads it word by word, closes it *)
(* and answers.                                                            *)
(*                                                                         *)
(* Payloads are counted in bytes but not stored: an item is what the       *)
(* sender put where it starts, and anything where no item starts.  The     *)
(* contents of files are left to Veelite; a file is its length and mode.   *)
(***************************************************************************)
EXTENDS Integers, Sequences

CONSTANTS
  File, Missing,    (* The files there are, and an ID there is no file of. *)
  Alloc,            (* The allocation of each file,                        *)
  Lengths,          (* and the lengths files have at first.                *)
  Actuator,         (* The file of actuator 0; items that name it stand    *)
                    (* for items that name the actuator.                   *)
  Modes,            (* File modes, as sets of rights (below).              *)
  Command,          (* The commands messages have.                         *)
  Item, MaxItems,   (* The items of messages, and the bound on their number.*)
  Rooms,            (* Bytes left in the output queue behind the header,   *)
                    (* for one message or another.                         *)
  Backlog           (* Bytes behind the message in the input queue's buffer. *)

(* A mode is the set of what it allows; the rights of user and guest are   *)
(* the same here.  VL_ACCESS_R, VL_ACCESS_W and VL_ACCESS_RW are sets of   *)
(* rights asked for; so are 0 and 1, that sub_filedata puts in their place. *)
Right == {"R", "W", "X"}
Flag(b) == IF b THEN {"X"} ELSE {}

Id == File \cup {Missing}
Commands == {"perms_read", "perms_write", "read", "both", "overwrite", "write",
             "headers", "delete", "create", "restore", "return", "actuate"}

Writers == {"overwrite", "write"}
DataCommands == Writers \cup {"read", "both"}
WCommands == Writers \cup {"perms_write", "restore", "return"}  (* cmd_in & 2 *)

U16Mod == 65536

ASSUME AlpFileAssumption ==
  /\ Missing \notin File /\ Actuator \in Id
  /\ Alloc \in [File -> Nat] /\ \A f \in File : Alloc[f] % 2 = 0
  /\ Lengths \subseteq Nat
  /\ Modes \subseteq SUBSET Right /\ Command \subseteq Commands
  /\ \A i \in Item : i.file \in Id /\ i.offset \in Nat /\ i.span \in 0..(U16Mod - 1) /\ i.mode \in Modes
  /\ MaxItems \in Nat /\ Rooms \subseteq Nat /\ Backlog \in Nat

VARIABLES
  len, mode,  (* The header of each file.                                  *)
  job         (* The message being treated, or NoJob.                      *)

NoJob == [cmd |-> "none"]

(* left is data_in, as a C integer; got is how far the input's getcursor   *)
(* is behind the header, put the output's putcursor; mod is file_mod, fp   *)
(* the file of the pointer fp, which outlives vl_close.  Not in the code:  *)
(* opened, the files the message opened; failed, that an item failed; cut, *)
(* that the loop was left for want of space.                               *)
Job == [cmd : Command, respond : BOOLEAN, su : BOOLEAN, items : Seq(Item),
        left : Int, got : Nat, room : Rooms, put : Nat, data_out : Nat,
        mod : SUBSET Right, fp : Id, opened : SUBSET File,
        failed : BOOLEAN, cut : BOOLEAN]

vars == <<len, mode, job>>

(* With an odd offset a word ends one byte past the allocation; the output *)
(* queue never overflows.                                                  *)
TypeOK ==
  /\ len \in [File -> Nat] /\ \A f \in File : len[f] <= Alloc[f] + 1
  /\ mode \in [File -> Modes]
  /\ job # NoJob => job \in Job /\ job.put <= job.room

-----------------------------------------------------------------------------
Smaller(a, b) == IF a < b THEN a ELSE b
Words(n) == IF n > 0 THEN (n + 1) \div 2 ELSE 0
U16(n) == n % U16Mod

(* The bytes of an item, and where item i starts.                          *)
Width(cmd, it) ==
  CASE cmd \in Writers -> 5 + it.span
    [] cmd \in {"read", "both"} -> 5
    [] cmd \in {"perms_write", "actuate"} -> 2
    [] cmd = "create" -> 6
    [] OTHER -> 1

Start(cmd, items, i) ==
  LET start[n \in 1..(Len(items) + 1)] ==
        IF n = 1 THEN 0 ELSE start[n - 1] + Width(cmd, items[n - 1])
  IN  start[i]

Size(j) == Start(j.cmd, j.items, Len(j.items) + 1)

(* What is read at the getcursor.                                          *)
Starts(j) == {i \in 1..Len(j.items) : Start(j.cmd, j.items, i) = j.got}
Parsed(j) == IF Starts(j) # {} THEN {j.items[i] : i \in Starts(j)} ELSE Item

Init ==
  /\ len \in [File -> Lengths] /\ \A f \in File : len[f] <= Alloc[f]
  /\ mode \in [File -> Modes]
  /\ job = NoJob

(* alp_proc_filedata calls the function of the command.                    *)
alp_proc_filedata ==
  /\ job = NoJob
  /\ \E cmd \in Command, r, su \in BOOLEAN, n \in 1..MaxItems, room \in Rooms :
     \E items \in [1..n -> Item] :
       job' = [cmd |-> cmd, respond |-> r, su |-> su, items |-> items,
               left |-> Start(cmd, items, n + 1), got |-> 0, room |-> room, put |-> 0, data_out |-> 0,
               mod |-> IF cmd \in WCommands THEN {"W"} ELSE {"R"},
               fp |-> Missing, opened |-> {}, failed |-> FALSE, cut |-> FALSE]
  /\ UNCHANGED <<len, mode>>

(* vl_getheader_vaddr: the super-user is asked for nothing.                *)
Granted(j, f, asked) == f \in File /\ (j.su \/ mode[f] \cap asked # {})

Space(j) == j.room - j.put

(* Mutant: the space is not tested.                                        *)
NotFull_Any(j, n) == TRUE

(* sub_qnotfull.                                                           *)
NotFull(j, n) == ~j.respond \/ n <= Space(j)

(* The loop has come to its end.                                           *)
Done(j) ==
  \/ j.left <= 0 \/ j.cut
  \/ j.cmd = "return" \/ (j.cmd = "headers" /\ ~j.respond)
  \/ j.cmd \notin DataCommands \cup {"actuate"} /\ ~NotFull(j, IF j.cmd = "headers" THEN 6 ELSE 2)

Busy(cmds) == job # NoJob /\ job.cmd \in cmds /\ ~Done(job)

Out(j, n) == [j EXCEPT !.put = @ + n, !.data_out = @ + n]
Take(j, n) == [j EXCEPT !.left = @ - n, !.got = @ + n]

-----------------------------------------------------------------------------
(* Mutant: whatever is not a read is taken for a change.                   *)
sub_fileperms_NotRead ==
  /\ Busy({"perms_read", "perms_write"})
  /\ \E it \in Parsed(job), m \in Modes :
       LET f == it.file  there == f \in File IN
       IF job.mod # {"R"}
         THEN /\ mode' = IF Granted(job, f, {"R", "W"}) THEN [mode EXCEPT ![f] = m] ELSE mode
              /\ job' = [(IF job.respond THEN Out(Take(job, 2), 2) ELSE Take(job, 2))
                           EXCEPT !.mod = {}, !.failed = @ \/ ~Granted(job, f, {"R", "W"})]
         ELSE /\ job' = IF job.respond /\ there
                          THEN [Out(Take(job, 1), 2) EXCEPT !.mod = mode[f]] ELSE Take(job, 1)
              /\ UNCHANGED mode
  /\ UNCHANGED len

(* file_mod, which tells a change from a reading, is overwritten by the    *)
(* error of vl_chmod and by the mode that was read.                        *)
sub_fileperms ==
  /\ Busy({"perms_read", "perms_write"})
  /\ \E it \in Parsed(job) :
     \E m \in IF Starts(job) # {} /\ job.cmd = "perms_write" THEN {it.mode} ELSE Modes :
       LET f == it.file  may == Granted(job, f, {"R", "W"}) IN
       IF job.mod = {"W"}
         THEN /\ mode' = IF may THEN [mode EXCEPT ![f] = m] ELSE mode
              /\ job' = [(IF job.respond THEN Out(Take(job, 2), 2) ELSE Take(job, 2))
                           EXCEPT !.mod = {}, !.failed = @ \/ ~may]
         ELSE /\ job' = IF job.respond /\ f \in File
                          THEN [Out(Take(job, 1), 2) EXCEPT !.mod = mode[f]] ELSE Take(job, 1)
              /\ UNCHANGED mode
  /\ UNCHANGED len

sub_fileheaders ==
  /\ Busy({"headers"})
  /\ \E it \in Parsed(job) :
       job' = IF it.file \in File THEN Out(Take(job, 1), 6) ELSE Take(job, 1)
  /\ UNCHANGED <<len, mode>>

(* Deleting and creating files is disabled (VLNEW) and restoring is not    *)
(* supported: each item is answered with an error.                         *)
sub_filedelete ==
  /\ Busy({"delete", "create", "restore"})
  /\ \E it \in Parsed(job) :
       LET j == [Take(job, Width(job.cmd, it)) EXCEPT !.failed = TRUE]
       IN  job' = IF j.respond THEN Out(j, 2) ELSE j
  /\ UNCHANGED <<len, mode>>

-----------------------------------------------------------------------------
(* What becomes of an item of sub_filedata before it is answered: the file *)
(* of fp and the length vl_close gives it, the job, the error, the span    *)
(* left, and whether space ran out on the way.                             *)
Outcome(fp, length, j, err, span, over) ==
  [fp |-> fp, length |-> length, j |-> j, err |-> err, span |-> span, over |-> over]

Past(n) == [job EXCEPT !.got = @ + n]

(* An item whose file is missing, denied, cannot be opened or ends before  *)
(* the offset.  If no file was opened, fp is the closed pointer of the item *)
(* before, which has length 0.                                             *)
Unopened(it, full) ==
  IF ~Granted(job, it.file, job.mod) THEN Outcome(job.fp, 0, Past(5), TRUE, it.span, FALSE)
  ELSE IF full THEN Outcome(Missing, 0, Past(5), TRUE, it.span, FALSE)
  ELSE Outcome(it.file, len[it.file], Past(5), TRUE, it.span, FALSE)

(* Mutant: every write starts from nothing.                                *)
Written_Overwrites(it) ==
  LET f == it.file
      limit == Smaller(it.offset + it.span, Alloc[f])
      n == Words(limit - it.offset)
  IN  Outcome(f, IF n > 0 THEN it.offset + 2 * n ELSE 0,
              [Past(5 + 2 * n) EXCEPT !.left = @ - 2 * n],
              it.offset + it.span > Alloc[f], U16(it.span - 2 * n), FALSE)

(* An overwrite starts from nothing; what does not fit is not written; the *)
(* input's buffer may end first.                                           *)
Written(it) ==
  LET f == it.file
      limit == Smaller(it.offset + it.span, Alloc[f])
      old == IF job.cmd = "overwrite" THEN 0 ELSE len[f]
      words == Words(limit - it.offset)
      n == Smaller(words, Words(Size(job) + Backlog - job.got - 5))
      length == IF n > 0 /\ it.offset + 2 * (n - 1) >= old THEN it.offset + 2 * n ELSE old
  IN  Outcome(f, length, [Past(5 + 2 * n) EXCEPT !.left = @ - 2 * n],
              it.offset + it.span > Alloc[f], U16(it.span - 2 * n), n < words)

(* Mutant: the span asked for counts as read, the file's end or not.       *)
ReadOut_SpanKept(it) ==
  LET f == it.file
      overhead == IF job.cmd = "both" THEN 10 ELSE 5
      span == IF it.offset >= len[f] THEN 0 ELSE Smaller(it.span, len[f] - it.offset)
      n == Smaller(Words(span), (Space(job) - overhead - 1) \div 2)
  IN  IF overhead >= Space(job) THEN Outcome(f, len[f], Past(5), FALSE, it.span, TRUE)
      ELSE Outcome(f, len[f], Out(Past(5), overhead + 2 * n), FALSE,
                   U16(it.span - 2 * n), n < Words(span))

(* Mutant: the header is not counted.                                      *)
ReadOut_Uncounted(it) ==
  LET n == IF it.offset >= len[it.file] THEN 0
           ELSE Words(Smaller(it.span, len[it.file] - it.offset))
      more == IF job.cmd = "both" THEN 5 ELSE 0
  IN  IF Space(job) <= 5 + more + 2 * n
        THEN Outcome(it.file, len[it.file], Past(5), FALSE, it.span, TRUE)
        ELSE Outcome(it.file, len[it.file],
                     [Out(Past(5), 5 + 2 * n) EXCEPT !.put = @ + more], FALSE, 0, FALSE)

(* The file's ID or header, offset and span, then its words up to the end  *)
(* of the file, as long as more than two bytes are left in the output.     *)
ReadOut(it) ==
  LET f == it.file
      overhead == IF job.cmd = "both" THEN 10 ELSE 5
      span == IF it.offset >= len[f] THEN 0 ELSE Smaller(it.span, len[f] - it.offset)
      n == Smaller(Words(span), (Space(job) - overhead - 1) \div 2)
  IN  IF overhead >= Space(job) THEN Outcome(f, len[f], Past(5), FALSE, it.span, TRUE)
      ELSE Outcome(f, len[f], Out(Past(5), overhead + 2 * n), FALSE,
                   U16(span - 2 * n), n < Words(span))

Treated(it, full) ==
  LET writes == "W" \in job.mod IN
  IF full \/ ~Granted(job, it.file, job.mod) \/ (writes /\ it.offset >= Alloc[it.file])
    THEN Unopened(it, full)
    ELSE IF writes THEN Written(it) ELSE ReadOut(it)

(* The answer to an item: changes are answered with their error code, and  *)
(* the first error of a reading replaces the whole answer.  An item not    *)
(* answered leaves its data behind to be read as items.                    *)
Replied(j, writes, err, span) ==
  LET next == [j EXCEPT !.left = @ - 5 - span]
      moved == Out([next EXCEPT !.got = @ + span], 2)
  IN  IF ~j.respond \/ ~(writes \/ err) THEN next
      ELSE IF writes THEN moved
      ELSE [moved EXCEPT !.put = 2, !.left = 0 - 5 - span]

(* The pass of the loop of sub_filedata over one item.  vl_close fails if  *)
(* the file's action does.  If the answer finds no space, fp is closed a   *)
(* second time, with length 0.                                             *)
sub_filedata ==
  /\ Busy(DataCommands)
  /\ \E it \in Parsed(job), full, action_fails \in BOOLEAN :
       LET o == Treated(it, full)
           writes == "W" \in job.mod
           err == o.err \/ (action_fails /\ o.fp \in File)
           again == ~o.over /\ o.j.respond /\ Space(o.j) <= 2
           seen == [o.j EXCEPT !.mod = Flag(writes), !.fp = o.fp, !.failed = @ \/ err,
                               !.opened = @ \cup ({o.fp} \cap File)]
       IN  /\ job' = IF o.over \/ again THEN [seen EXCEPT !.cut = TRUE]
                     ELSE Replied(seen, writes, err, o.span)
           /\ len' = IF o.fp \in File
                       THEN [len EXCEPT ![o.fp] = IF again THEN 0 ELSE o.length] ELSE len
  /\ UNCHANGED mode

(* sub_actuator stores one byte in the file of the actuator, as root, and  *)
(* answers as long as there is space.                                      *)
sub_actuator ==
  /\ Busy({"actuate"})
  /\ \E it \in Parsed(job), full \in BOOLEAN :
       LET acts == it.file = Actuator /\ Actuator \in File /\ ~full
           j == [Take(job, 2) EXCEPT !.failed = @ \/ ~acts,
                                     !.opened = IF acts THEN @ \cup {Actuator} ELSE @]
       IN  /\ len' = IF acts THEN [len EXCEPT ![Actuator] = Smaller(1, Alloc[Actuator])] ELSE len
           /\ job' = IF j.respond /\ Space(j) >= 2 THEN Out(j, 2) ELSE j
  /\ UNCHANGED mode

(* alp_proc_filedata returns.                                              *)
Return ==
  /\ job # NoJob /\ Done(job)
  /\ job' = NoJob
  /\ UNCHANGED <<len, mode>>

Next ==
  \/ alp_proc_filedata \/ sub_fileperms \/ sub_fileheaders \/ sub_filedelete
  \/ sub_filedata \/ sub_actuator \/ Return

Spec == Init /\ [][Next]_vars

-----------------------------------------------------------------------------
(* The length of the answer is that of the bytes that were put out, errors *)
(* included, unless an error replaced what was put out before it.           *)
Replaced(j) ==
  j.failed /\ IF j.cmd \in Writers THEN Len(j.items) > 1 ELSE j.opened # {}

ReplyCounts == job # NoJob /\ ~Replaced(job) => job.data_out = job.put

(* A message whose items all succeed, with even offsets, spans and lengths, *)
(* is read to its end and not beyond: no item is left out, none is taken   *)
(* from the middle of another.  Changes, and readings of permissions that  *)
(* may be VL_ACCESS_W, have one item only: after it a change goes on as a  *)
(* reading, and such a reading as a change.                                *)
Even(it) == it.offset % 2 = 0 /\ it.span % 2 = 0 /\ (it.file \in File => len[it.file] % 2 = 0)

Consumed ==
  job # NoJob /\ job.left <= 0 /\ ~job.failed /\ ~job.cut
    /\ (Len(job.items) = 1 \/ job.cmd \notin WCommands \cup {"perms_read"})
    /\ (\A i \in 1..Len(job.items) : Even(job.items[i]))
  => job.got = Size(job)

(* A message changes only lengths of files it has opened, adds to them only *)
(* by writes that are allowed, and takes from them only by overwriting or  *)
(* actuating, or by closing a pointer twice: when an answer finds no space, *)
(* or when an item fails after the pointer was closed for the item before. *)
LengthsKept ==
  [][\A f \in File :
       /\ len'[f] # len[f] => f \in job'.opened
       /\ len'[f] > len[f] => \/ job.cmd \in Writers /\ (job.su \/ "W" \in mode[f])
                              \/ job.cmd = "actuate"
       /\ len'[f] < len[f] => \/ job.cmd \in {"overwrite", "actuate"}
                              \/ job.respond /\ job'.cut
                              \/ job'.failed /\ f = job.fp]_vars

(* Reading permissions changes none, as long as none is VL_ACCESS_W.       *)
ModesKept ==
  [][mode' # mode => job.cmd = "perms_write" \/ \E f \in File : mode[f] = {"W"}]_vars

(* 0100: Read File Data (alp_filedata.c): a reading changes no file.       *)
ReadsKeepFiles == [][job.cmd \in {"read", "both"} => len' = len]_vars
=============================================================================
