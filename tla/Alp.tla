--------------------------------- MODULE Alp --------------------------------
(***************************************************************************)
(* The ALP record processor (otlib/alp_main.c) and the queue locks         *)
(* (otlib/queue.c): tasks that share ALP objects, whose objects share      *)
(* queues, call alp_parse_message; I/O drivers deliver messages into the   *)
(* input queues and drain the output queues.                               *)
(*                                                                         *)
(* Space is counted in units: a record header is one, so is an item of a   *)
(* payload.  A message is a record with its items.  Each statement of      *)
(* alp_parse_message that moves a cursor or writes is a step, between      *)
(* which others run.  It puts both cursors of the input queue back to      *)
(* where it found them, so between calls its getcursor is at the front;    *)
(* and alp_proc always ends the output message, so that each call loads a  *)
(* new input record.                                                       *)
(***************************************************************************)
EXTENDS Integers, Sequences

CONSTANTS
  Task,       (* Threads that call alp_parse_message.                      *)
  InQueue, OutQueue,
  In, Out,    (* The queues of the ALP object of each task.                *)
  Kernel,     (* Threads switch where they wait, or anywhere.              *)
  Space,      (* Units of an output queue.                                 *)
  InSpace,    (* Messages an input queue has room for.                     *)
  Body,       (* What messages ask: see Bodies.                            *)
  MaxSent,    (* Bound: messages delivered to each queue.                  *)
  Traffic,    (* Bound: which message may come with which number in which  *)
              (* kernel.                                                   *)
  LenMod,     (* The payload length is kept modulo LenMod.                 *)
  OneAtATime, (* Drivers wait until the last message is treated, and tasks *)
              (* call only if there is one.                                *)
  ReadsRespond(* Messages that read have the respond bit.                  *)

Queue == InQueue \cup OutQueue

(* A task that another preempts has an input queue and an ALP object of    *)
(* its own: the getcursor is its own too.                                  *)
ASSUME AlpAssumption ==
  /\ In \in [Task -> InQueue] /\ Out \in [Task -> OutQueue]
  /\ InQueue \cap OutQueue = {}
  /\ Kernel \subseteq {"cooperative", "preemptive"}
  /\ "preemptive" \in Kernel => \A t, u \in Task : In[t] = In[u] => t = u
  /\ Space \in Nat /\ InSpace \in Nat /\ MaxSent \in Nat
  /\ LenMod \in Nat \ {0}
  /\ \A b \in Body : /\ b.me \in BOOLEAN /\ b.respond \in BOOLEAN
                     /\ b.kind \in {"read", "write"} /\ b.items \in Nat
                     /\ b.rid \in 0..255
  /\ OneAtATime \in BOOLEAN /\ ReadsRespond \in BOOLEAN

(* The processors of record IDs from 1 on; others have alp_proc_null.      *)
alp_table == <<"filedata", "sensor", "null", "logger", "null">>

sub_get_elem(rid) == IF rid \in DOMAIN alp_table THEN alp_table[rid] ELSE "null"

(* A message is one record: its ID, whether it has the message-end flag,   *)
(* its items, whether it has the respond bit, and which of the two ways of *)
(* alp_proc_filedata it goes, if its ID names that processor: what is read *)
(* is written to the output whether or not a response is wanted.           *)
Message == {[id |-> i, body |-> b] : i \in 1..MaxSent, b \in Body}

Sendable == {b \in Body : ReadsRespond /\ b.kind = "read" => b.respond}

(* From the check of the room to the rewinding of the input.               *)
Parsing == {"check", "reserve", "proc", "items", "header", "write", "restore", "rewind"}

Steps == {"idle", "in", "in_set", "out", "out_set", "unlock_in", "unlock_out"} \cup Parsing

Header(n) == [len |-> n]
Unit == [len |-> -1]

(* The variables of a call: hdr_position; the items still to be put out,   *)
(* those that are (in the end PLEN of the output record), and if they are  *)
(* wanted; the ID of the message; and savedput.                            *)
NoJob == [hdr |-> 0, left |-> 0, n |-> 0, respond |-> FALSE, id |-> 0, saved |-> 0]

VARIABLES
  kernel,
  lock,   (* options.ushort of each queue: 0 is unlocked.                  *)
  raised, (* The queues a driver blocks with q_blockwrite.                 *)
  at,     (* Where each task is,                                           *)
  status, (* what its last call returned,                                  *)
  job,    (* and the variables of its present one.                         *)
  cell,   (* The messages in each input queue's buffer, stale ones too,    *)
  put,    (* and how many of them are before its putcursor.                *)
  out,    (* What was written in the buffer of each output queue,          *)
  tail,   (* and the units in front of its putcursor.                      *)
  sent,   (* The number of messages delivered to each input queue,         *)
  done    (* and those that were treated, in order.                        *)

locks == <<lock, raised>>
input == <<cell, put, sent>>
output == <<out, tail>>
vars == <<kernel, locks, at, status, job, input, output, done>>

TypeOK ==
  /\ kernel \in Kernel
  /\ lock \in [Queue -> 0..1] /\ raised \subseteq Queue
  /\ at \in [Task -> Steps] /\ status \in [Task -> {"none", "MSG_Null", "MSG_End"}]
  /\ \A x \in InQueue :
       /\ cell[x] \in Seq(Message) /\ Len(cell[x]) <= InSpace
       /\ put[x] \in 0..Len(cell[x])
       /\ sent[x] \in 0..MaxSent
  /\ tail \in [OutQueue -> Int]

-----------------------------------------------------------------------------
(* alp_init of each object.                                                *)
Init ==
  /\ kernel \in Kernel
  /\ lock = [x \in Queue |-> 0] /\ raised = {}
  /\ at = [t \in Task |-> "idle"] /\ status = [t \in Task |-> "none"]
  /\ job = [t \in Task |-> NoJob]
  /\ cell = [x \in InQueue |-> <<>>] /\ put = [x \in InQueue |-> 0]
  /\ out = [y \in OutQueue |-> <<>>] /\ tail = [y \in OutQueue |-> 0]
  /\ sent = [x \in InQueue |-> 0] /\ done = [x \in InQueue |-> <<>>]

(* A task calls alp_parse_message, not before there ever was a message.    *)
Call(t) ==
  /\ at[t] = "idle"
  /\ cell[In[t]] # <<>>
  /\ OneAtATime => put[In[t]] > 0
  /\ at' = [at EXCEPT ![t] = "in"]
  /\ UNCHANGED <<kernel, locks, status, job, input, output, done>>

Wants(t) == IF at[t] \in {"in", "in_set"} THEN In[t] ELSE Out[t]
Got(t)   == IF at[t] \in {"in", "in_set"} THEN "out" ELSE "check"

(* Mutant: the lock word is tested and not set.                            *)
q_lock_NoSet(t) ==
  /\ at[t] \in {"in", "out"}
  /\ lock[Wants(t)] = 0
  /\ at' = [at EXCEPT ![t] = Got(t)]
  /\ UNCHANGED <<kernel, locks, status, job, input, output, done>>

(* The loop of q_lock ends; another thread may run before the word is set. *)
q_lock(t) ==
  /\ at[t] \in {"in", "out"}
  /\ lock[Wants(t)] = 0
  /\ IF kernel = "preemptive"
       THEN /\ at' = [at EXCEPT ![t] = IF @ = "in" THEN "in_set" ELSE "out_set"]
            /\ UNCHANGED lock
       ELSE /\ at' = [at EXCEPT ![t] = Got(t)]
            /\ lock' = [lock EXCEPT ![Wants(t)] = 1]
  /\ UNCHANGED <<kernel, raised, status, job, input, output, done>>

q_lock_set(t) ==
  /\ at[t] \in {"in_set", "out_set"}
  /\ at' = [at EXCEPT ![t] = Got(t)]
  /\ lock' = [lock EXCEPT ![Wants(t)] = 1]
  /\ UNCHANGED <<kernel, raised, status, job, input, output, done>>

(* The processor runs at the end of a message only.                        *)
Runs(b) == b.me /\ sub_get_elem(b.rid) = "filedata"

(* How many items its processor has to put out for it: what is read is put *)
(* out whether or not a response is wanted.                                *)
Answers(b) ==
  IF Runs(b) /\ (b.kind = "read" \/ (b.kind = "write" /\ b.respond)) THEN b.items ELSE 0

(* The body of alp_parse_message.  Each step takes task t from one place   *)
(* to the next; between two of them drivers act, and other tasks, also     *)
(* where threads switch only as they wait: what holds without that limit   *)
(* holds with it.                                                          *)
Goes(t, from, to) == at[t] = from /\ at' = [at EXCEPT ![t] = to]

(* It returns at once, with both queues locked, if there is no room for a  *)
(* header.                                                                 *)
NoRoom(t) ==
  /\ tail[Out[t]] >= Space
  /\ Goes(t, "check", "idle")
  /\ status' = [status EXCEPT ![t] = "MSG_Null"]
  /\ UNCHANGED <<kernel, locks, job, input, output, done>>

HasRoom(t) ==
  /\ tail[Out[t]] < Space
  /\ Goes(t, "check", "reserve")
  /\ UNCHANGED <<kernel, locks, status, job, input, output, done>>

(* The place of the header is kept and left free.                          *)
Reserve(t) ==
  /\ Goes(t, "reserve", "proc")
  /\ job' = [job EXCEPT ![t].hdr = tail[Out[t]]]
  /\ tail' = [tail EXCEPT ![Out[t]] = @ + 1]
  /\ UNCHANGED <<kernel, locks, status, input, out, done>>

(* The record at the front of the input queue goes to its processor,       *)
(* whether or not it was delivered since the last call.                    *)
alp_proc(t) ==
  LET m == cell[In[t]][1] IN
  /\ Goes(t, "proc", "items")
  /\ job' = [job EXCEPT ![t].n = 0, ![t].left = Answers(m.body),
                        ![t].respond = m.body.respond, ![t].id = m.id]
  /\ UNCHANGED <<kernel, locks, status, input, output, done>>

Written(y, i, v) == [j \in DOMAIN out[y] \cup {i} |-> IF j = i THEN v ELSE out[y][j]]

(* Mutant: the room left in the output queue is not looked at.             *)
Item_AnyRoom(t) ==
  LET y == Out[t] IN
  /\ at[t] = "items" /\ job[t].left > 0
  /\ out' = [out EXCEPT ![y] = Written(y, tail[y] + 1, Unit)]
  /\ tail' = [tail EXCEPT ![y] = @ + 1]
  /\ job' = [job EXCEPT ![t].n = @ + 1, ![t].left = @ - 1]
  /\ UNCHANGED <<kernel, locks, at, status, input, done>>

(* An item of the payload, if there is room for it.                        *)
Item(t) ==
  LET y == Out[t] IN
  /\ at[t] = "items" /\ job[t].left > 0
  /\ tail[y] < Space
  /\ out' = [out EXCEPT ![y] = Written(y, tail[y] + 1, Unit)]
  /\ tail' = [tail EXCEPT ![y] = @ + 1]
  /\ job' = [job EXCEPT ![t].n = @ + 1, ![t].left = @ - 1]
  /\ UNCHANGED <<kernel, locks, at, status, input, done>>

(* The processor returns, before the last item where files fail or there   *)
(* is no room: PLEN is 8 bits; without a response the putcursor goes back  *)
(* over the payload.                                                       *)
Return(t) ==
  LET y == Out[t]  plen == job[t].n % LenMod IN
  /\ Goes(t, "items", "header")
  /\ job' = [job EXCEPT ![t].n = plen, ![t].left = 0]
  /\ tail' = [tail EXCEPT ![y] = IF job[t].respond THEN @ ELSE @ - plen]
  /\ UNCHANGED <<kernel, locks, status, input, out, done>>

(* A record without payload goes, with its header.                         *)
Discard(t) ==
  /\ job[t].n = 0
  /\ Goes(t, "header", "rewind")
  /\ tail' = [tail EXCEPT ![Out[t]] = job[t].hdr]
  /\ UNCHANGED <<kernel, locks, status, job, input, out, done>>

(* Otherwise the putcursor goes back to the header,                        *)
GoBack(t) ==
  /\ job[t].n # 0
  /\ Goes(t, "header", "write")
  /\ job' = [job EXCEPT ![t].saved = tail[Out[t]]]
  /\ tail' = [tail EXCEPT ![Out[t]] = job[t].hdr]
  /\ UNCHANGED <<kernel, locks, status, input, out, done>>

(* Mutant: the payload length counts the header as well.                   *)
WriteHeader_CountsHeader(t) ==
  LET y == Out[t] IN
  /\ Goes(t, "write", "restore")
  /\ out' = [out EXCEPT ![y] = Written(y, tail[y] + 1, Header(job[t].n + 1))]
  /\ tail' = [tail EXCEPT ![y] = @ + 1]
  /\ UNCHANGED <<kernel, locks, status, job, input, done>>

(* which is written,                                                       *)
WriteHeader(t) ==
  LET y == Out[t] IN
  /\ Goes(t, "write", "restore")
  /\ out' = [out EXCEPT ![y] = Written(y, tail[y] + 1, Header(job[t].n))]
  /\ tail' = [tail EXCEPT ![y] = @ + 1]
  /\ UNCHANGED <<kernel, locks, status, job, input, done>>

(* and forward to the end of the record.                                   *)
GoForward(t) ==
  /\ Goes(t, "restore", "rewind")
  /\ tail' = [tail EXCEPT ![Out[t]] = job[t].saved]
  /\ UNCHANGED <<kernel, locks, status, job, input, out, done>>

(* Mutant: the putcursor of the input queue is left where it is.           *)
Rewind_KeepsPut(t) ==
  /\ Goes(t, "rewind", "unlock_in")
  /\ done' = [done EXCEPT ![In[t]] = Append(@, job[t].id)]
  /\ job' = [job EXCEPT ![t] = NoJob]
  /\ UNCHANGED <<kernel, locks, status, input, output>>

(* All that was delivered to the input queue is dropped.                   *)
Rewind(t) ==
  /\ Goes(t, "rewind", "unlock_in")
  /\ put' = [put EXCEPT ![In[t]] = 0]
  /\ done' = [done EXCEPT ![In[t]] = Append(@, job[t].id)]
  /\ job' = [job EXCEPT ![t] = NoJob]
  /\ UNCHANGED <<kernel, locks, status, cell, sent, output>>

alp_parse_message(t) ==
  \/ NoRoom(t) \/ HasRoom(t) \/ Reserve(t)
  \/ alp_proc(t) \/ Item(t) \/ Return(t)
  \/ Discard(t) \/ GoBack(t) \/ WriteHeader(t) \/ GoForward(t)
  \/ Rewind(t)

(* Mutant: the input queue is unlocked twice, the output queue never.      *)
q_unlock_InOnly(t) ==
  /\ at[t] \in {"unlock_in", "unlock_out"}
  /\ lock' = [lock EXCEPT ![In[t]] = 0]
  /\ at' = [at EXCEPT ![t] = IF @ = "unlock_in" THEN "unlock_out" ELSE "idle"]
  /\ status' = [status EXCEPT ![t] = IF at[t] = "unlock_out" THEN "MSG_End" ELSE @]
  /\ UNCHANGED <<kernel, raised, job, input, output, done>>

(* Both unlocks; the second ends the call.                                 *)
q_unlock(t) ==
  /\ at[t] \in {"unlock_in", "unlock_out"}
  /\ lock' = [lock EXCEPT ![IF at[t] = "unlock_in" THEN In[t] ELSE Out[t]] = 0]
  /\ at' = [at EXCEPT ![t] = IF @ = "unlock_in" THEN "unlock_out" ELSE "idle"]
  /\ status' = [status EXCEPT ![t] = IF at[t] = "unlock_out" THEN "MSG_End" ELSE @]
  /\ UNCHANGED <<kernel, raised, job, input, output, done>>

-----------------------------------------------------------------------------
(* The drivers, who keep to the agreement of q_blockwrite.                 *)
Mine(x) == lock[x] = 0 \/ x \in raised

(* A message is written at the putcursor, over stale ones.                 *)
Deliver(x) ==
  /\ Mine(x)
  /\ sent[x] < MaxSent /\ put[x] < InSpace
  /\ OneAtATime => put[x] = 0
  /\ \E b \in Sendable :
       /\ <<kernel, sent[x] + 1, b>> \in Traffic
       /\ cell' = [cell EXCEPT ![x] = SubSeq(@, 1, put[x])
                                      \o <<[id |-> sent[x] + 1, body |-> b]>>
                                      \o SubSeq(@, put[x] + 2, Len(@))]
  /\ put' = [put EXCEPT ![x] = @ + 1]
  /\ sent' = [sent EXCEPT ![x] = @ + 1]
  /\ UNCHANGED <<kernel, locks, at, status, job, output, done>>

(* The output is sent and its queue emptied, which clears the lock word;   *)
(* the bytes, which others write before they are read again, are forgotten.*)
Drain(y) ==
  /\ Mine(y) /\ tail[y] # 0
  /\ out' = [out EXCEPT ![y] = <<>>] /\ tail' = [tail EXCEPT ![y] = 0]
  /\ lock' = [lock EXCEPT ![y] = 0] /\ raised' = raised \ {y}
  /\ UNCHANGED <<kernel, at, status, job, input, done>>

q_blockwrite(x) ==
  /\ lock[x] = 0
  /\ lock' = [lock EXCEPT ![x] = 1] /\ raised' = raised \cup {x}
  /\ UNCHANGED <<kernel, at, status, job, input, output, done>>

Unblock(x) ==
  /\ x \in raised
  /\ lock' = [lock EXCEPT ![x] = 0] /\ raised' = raised \ {x}
  /\ UNCHANGED <<kernel, at, status, job, input, output, done>>

TaskStep(t) == q_lock(t) \/ q_lock_set(t) \/ alp_parse_message(t) \/ q_unlock(t)

Next ==
  \/ \E t \in Task : Call(t) \/ TaskStep(t)
  \/ \E x \in InQueue : Deliver(x)
  \/ \E y \in OutQueue : Drain(y)
  \/ \E x \in Queue : q_blockwrite(x) \/ Unblock(x)

Spec == Init /\ [][Next]_vars

(* A task that can go on does so in the end, and no driver blocks a queue  *)
(* for ever.                                                               *)
FairSpec ==
  /\ Spec
  /\ \A t \in Task : WF_vars(TaskStep(t))
  /\ \A x \in Queue : WF_vars(Unblock(x))

-----------------------------------------------------------------------------
Holds(t, x) ==
  \/ x = In[t] /\ at[t] \in {"out", "out_set", "unlock_in"} \cup Parsing
  \/ x = Out[t] /\ at[t] \in {"unlock_in", "unlock_out"} \cup Parsing

(* What include/otlib/queue.h says of q_lock: after it returned in thread  *)
(* X, all other users keep waiting.                                        *)
UsersExclude ==
  \A x \in Queue, t, u \in Task : Holds(t, x) /\ Holds(u, x) => t = u

(* Where threads switch only as they wait, no locked queue has two holders, *)
(* the driver that blocks it included.                                     *)
MutualExclusion ==
  kernel = "cooperative" =>
    /\ UsersExclude
    /\ \A x \in raised, t \in Task : ~Holds(t, x)

(* A call that found no room for a header left its queues locked.          *)
Abandoned(x) ==
  \E t \in Task : status[t] = "MSG_Null" /\ x \in {In[t], Out[t]}

(* A locked queue is unlocked in the end, although a task that holds its   *)
(* input queue waits for the output queue that others use, unless a call   *)
(* returned early, or a driver blocks a queue each time it is unlocked.    *)
LockReleased ==
  \A x \in Queue :
    lock[x] = 1 ~> (lock[x] = 0 \/ raised # {} \/ \E y \in Queue : Abandoned(y))

(* Drivers and tasks that take one message at a time: each message is      *)
(* treated once, in order, and the one not treated yet is in the queue;    *)
(* whichever kernel it is.                                                 *)
TreatedOnce ==
  OneAtATime =>
    \A x \in InQueue :
      /\ \A i \in 1..Len(done[x]) : done[x][i] = i
      /\ Len(done[x]) + put[x] = sent[x]

(* Where threads switch only as they wait: nothing is written beyond the   *)
(* space of an output queue; and whenever a driver may take it, as nobody  *)
(* has locked it or the driver blocks it, it can be read record by record: *)
(* each header's length is that of the payload behind it, to the end.      *)
(* Locks keep drivers and other tasks off while alp_parse_message goes     *)
(* back and forth between the header and the payload.                      *)
Content(y) == [i \in 1..tail[y] |-> out[y][i]]

Headers(s) == {i \in DOMAIN s : s[i] # Unit}

Parses(s) ==
  /\ s # <<>> => 1 \in Headers(s)
  /\ \A i \in Headers(s) :
       LET next == i + s[i].len + 1
       IN  /\ next <= Len(s) + 1
           /\ \A j \in (i + 1)..(next - 1) : j \notin Headers(s)
           /\ next <= Len(s) => next \in Headers(s)

OutputParses ==
  kernel = "cooperative" =>
    \A y \in OutQueue : tail[y] <= Space /\ (Mine(y) => Parses(Content(y)))

=============================================================================
