------------------------------ MODULE AlpProofs ------------------------------
(* Theorems of module Alp, for any number of tasks, queues and messages and  *)
(* any space that satisfy AlpAssumption.                                     *)
EXTENDS Alp, SequenceTheorems, TLAPS

-----------------------------------------------------------------------------
(* MutualExclusion is not inductive: a queue could be held without its lock  *)
(* word being set, or be blocked by a driver while its word is 0.  Between   *)
(* test and set of q_lock nobody else runs in a cooperative kernel.          *)
LockTypes ==
  /\ lock \in [Queue -> 0..1]
  /\ raised \subseteq Queue
  /\ at \in [Task -> Steps]

HeldLocked ==
  \A t \in Task, x \in Queue : Holds(t, x) => lock[x] = 1 /\ x \notin raised

RaisedLocked == \A x \in raised : lock[x] = 1

LockInv ==
  /\ LockTypes
  /\ kernel = "cooperative" =>
       /\ \A t \in Task : at[t] \notin {"in_set", "out_set"}
       /\ HeldLocked /\ RaisedLocked /\ UsersExclude

LEMMA Roles ==
  ASSUME NEW t \in Task
  PROVE  In[t] \in InQueue /\ Out[t] \in OutQueue /\ In[t] \in Queue /\ Out[t] \in Queue
         /\ \A u \in Task : In[u] # Out[t]
BY AlpAssumption DEF Queue

LEMMA WordKept ==
  ASSUME lock \in [Queue -> 0..1], NEW w \in Queue, NEW v \in 0..1, lock' = [lock EXCEPT ![w] = v]
  PROVE  lock' \in [Queue -> 0..1]
OBVIOUS

(* A step of the body of alp_parse_message, which ends at the next place of  *)
(* the body, with the call, or at the first unlock; no lock changes.         *)
Reached == Parsing \cup {"idle", "unlock_in"}

LEMMA BodyStep ==
  ASSUME LockTypes, NEW t \in Task, alp_parse_message(t)
  PROVE  /\ at[t] \in Parsing
         /\ \E s \in Reached : at' = [at EXCEPT ![t] = s]
         /\ UNCHANGED <<kernel, locks, cell, sent>>
<1>1. CASE Item(t)
  <2>1. at' = [at EXCEPT ![t] = "items"]
    BY <1>1 DEF Item, LockTypes
  <2>2. QED
    BY <1>1, <2>1 DEF Item, Reached, Parsing, input
<1>2. CASE ~Item(t)
  BY <1>2 DEF alp_parse_message, NoRoom, HasRoom, Reserve, alp_proc, Return, Discard, GoBack,
              WriteHeader, GoForward, Rewind, Goes, Reached, Parsing, input
<1>3. QED
  BY <1>1, <1>2

LEMMA TypesKept ==
  ASSUME LockTypes, [Next]_vars
  PROVE  LockTypes'
<1>1. CASE UNCHANGED vars
  BY <1>1 DEF LockTypes, vars, locks
<1>2. ASSUME NEW t \in Task, Call(t)
      PROVE  LockTypes'
  BY <1>2 DEF Call, LockTypes, locks, Steps
<1>3. ASSUME NEW t \in Task, q_lock(t)
      PROVE  LockTypes'
  <2>1. Wants(t) \in Queue /\ Got(t) \in Steps
    BY Roles DEF Wants, Got, Steps, Parsing
  <2>2. CASE UNCHANGED lock
    BY <1>3, <2>1, <2>2 DEF q_lock, LockTypes, Steps
  <2>3. CASE lock' = [lock EXCEPT ![Wants(t)] = 1] /\ at' = [at EXCEPT ![t] = Got(t)]
    <3>1. lock' \in [Queue -> 0..1]
      BY <2>1, <2>3, WordKept DEF LockTypes
    <3>2. QED
      BY <1>3, <2>1, <2>3, <3>1 DEF q_lock, LockTypes
  <2>4. QED
    BY <1>3, <2>2, <2>3 DEF q_lock
<1>4. ASSUME NEW t \in Task, q_lock_set(t)
      PROVE  LockTypes'
  <2>1. Wants(t) \in Queue /\ Got(t) \in Steps
    BY Roles DEF Wants, Got, Steps, Parsing
  <2>2. at' = [at EXCEPT ![t] = Got(t)] /\ lock' = [lock EXCEPT ![Wants(t)] = 1]
        /\ UNCHANGED raised
    BY <1>4 DEF q_lock_set
  <2>3. lock' \in [Queue -> 0..1]
    BY <2>1, <2>2, WordKept DEF LockTypes
  <2>4. QED
    BY <2>1, <2>2, <2>3 DEF LockTypes
<1>5. ASSUME NEW t \in Task, alp_parse_message(t)
      PROVE  LockTypes'
  <2>1. PICK s \in Reached : at' = [at EXCEPT ![t] = s]
    BY <1>5, BodyStep
  <2>2. UNCHANGED locks
    BY <1>5, BodyStep
  <2>3. QED
    BY <2>1, <2>2 DEF LockTypes, Steps, Reached, locks
<1>6. ASSUME NEW t \in Task, q_unlock(t)
      PROVE  LockTypes'
  <2> DEFINE w == IF at[t] = "unlock_in" THEN In[t] ELSE Out[t]
             s == IF at[t] = "unlock_in" THEN "unlock_out" ELSE "idle"
  <2>1. w \in Queue /\ s \in Steps
    BY Roles DEF Steps
  <2>2. at' = [at EXCEPT ![t] = s] /\ lock' = [lock EXCEPT ![w] = 0] /\ UNCHANGED raised
    BY <1>6 DEF q_unlock
  <2>3. lock' \in [Queue -> 0..1]
    BY <2>1, <2>2, WordKept DEF LockTypes
  <2>4. QED
    BY <2>1, <2>2, <2>3 DEF LockTypes
<1>7. ASSUME NEW x \in InQueue, Deliver(x)
      PROVE  LockTypes'
  BY <1>7 DEF Deliver, LockTypes, locks
<1>8. ASSUME NEW y \in OutQueue, Drain(y)
      PROVE  LockTypes'
  <2>1. y \in Queue /\ lock' = [lock EXCEPT ![y] = 0] /\ raised' = raised \ {y} /\ UNCHANGED at
    BY <1>8 DEF Drain, Queue
  <2>2. lock' \in [Queue -> 0..1]
    BY <2>1, WordKept DEF LockTypes
  <2>3. QED
    BY <2>1, <2>2 DEF LockTypes
<1>9. ASSUME NEW x \in Queue, q_blockwrite(x) \/ Unblock(x)
      PROVE  LockTypes'
  BY <1>9 DEF q_blockwrite, Unblock, LockTypes
<1>10. QED
  BY <1>1, <1>2, <1>3, <1>4, <1>5, <1>6, <1>7, <1>8, <1>9 DEF Next, TaskStep

(* What a step of a task leaves alone: what the other tasks hold.            *)
LEMMA OthersHold ==
  ASSUME LockTypes, NEW t \in Task, NEW s \in Steps, at' = [at EXCEPT ![t] = s],
         NEW u \in Task, u # t, NEW x \in Queue
  PROVE  Holds(u, x)' <=> Holds(u, x)
BY DEF LockTypes, Holds

(* A task that locks a queue no one holds becomes its only holder.           *)
LEMMA LockStep ==
  ASSUME LockInv, kernel = "cooperative", NEW t \in Task, q_lock(t)
  PROVE  LockInv'
<1> DEFINE w == Wants(t)
<1>1. /\ w \in Queue /\ lock[w] = 0
      /\ lock' = [lock EXCEPT ![w] = 1] /\ UNCHANGED <<kernel, raised>>
      /\ at' = [at EXCEPT ![t] = Got(t)] /\ Got(t) \in Steps \ {"in_set", "out_set"}
  BY Roles DEF q_lock, Wants, Got, Steps, Parsing
<1>2. LockTypes'
  BY <1>1 DEF LockInv, LockTypes
<1>3. \A u \in Task : at'[u] \notin {"in_set", "out_set"}
  BY <1>1 DEF LockInv, LockTypes
<1>4. \A u \in Task : ~Holds(u, w)
  BY <1>1 DEF LockInv, HeldLocked
<1>5. w \notin raised
  BY <1>1 DEF LockInv, RaisedLocked
<1>6. \A x \in Queue : Holds(t, x)' => x = w \/ Holds(t, x)
  BY <1>1, Roles DEF Holds, LockInv, LockTypes, q_lock, Wants, Got, Parsing
<1>7. \A u \in Task, x \in Queue : Holds(u, x)' => Holds(u, x) \/ (u = t /\ x = w)
  BY <1>1, <1>6, OthersHold DEF LockInv
<1>8. HeldLocked'
  BY <1>1, <1>5, <1>7 DEF HeldLocked, LockInv, LockTypes
<1>9. RaisedLocked'
  BY <1>1, <1>5 DEF RaisedLocked, LockInv, LockTypes
<1>10. UsersExclude'
  BY <1>4, <1>7 DEF UsersExclude, LockInv
<1>11. QED
  BY <1>1, <1>2, <1>3, <1>8, <1>9, <1>10 DEF LockInv

(* A step that leaves the locks, after which its task holds no more.         *)
LEMMA QuietStep ==
  ASSUME LockInv, kernel = "cooperative", NEW t \in Task, NEW s \in Steps \ {"in_set", "out_set"},
         at' = [at EXCEPT ![t] = s], UNCHANGED <<kernel, locks>>,
         \A x \in Queue : Holds(t, x)' => Holds(t, x)
  PROVE  LockInv'
<1>1. UNCHANGED <<kernel, lock, raised>>
  BY DEF locks
<1>2. LockTypes'
  BY <1>1 DEF LockInv, LockTypes
<1>3. \A u \in Task, x \in Queue : Holds(u, x)' => Holds(u, x)
  BY OthersHold DEF LockInv
<1>4. \A u \in Task : at'[u] \notin {"in_set", "out_set"}
  BY DEF LockInv, LockTypes
<1>5. HeldLocked' /\ RaisedLocked' /\ UsersExclude'
  BY <1>1, <1>3 DEF HeldLocked, RaisedLocked, UsersExclude, LockInv
<1>6. QED
  BY <1>2, <1>4, <1>5 DEF LockInv

(* Only its holder unlocks a queue.                                          *)
LEMMA UnlockStep ==
  ASSUME LockInv, kernel = "cooperative", NEW t \in Task, q_unlock(t)
  PROVE  LockInv'
<1> DEFINE w == IF at[t] = "unlock_in" THEN In[t] ELSE Out[t]
           s == IF at[t] = "unlock_in" THEN "unlock_out" ELSE "idle"
<1>1. /\ w \in Queue /\ at[t] \in {"unlock_in", "unlock_out"}
      /\ lock' = [lock EXCEPT ![w] = 0] /\ UNCHANGED <<kernel, raised>>
      /\ at' = [at EXCEPT ![t] = s] /\ s \in Steps \ {"in_set", "out_set"}
  BY Roles DEF q_unlock, Steps
<1>2. LockTypes'
  BY <1>1 DEF LockInv, LockTypes
<1>3. \A u \in Task : at'[u] \notin {"in_set", "out_set"}
  BY <1>1 DEF LockInv, LockTypes
<1>4. Holds(t, w)
  BY <1>1 DEF Holds
<1>5. \A x \in Queue : Holds(t, x)' => Holds(t, x) /\ x # w
  BY <1>1, Roles DEF Holds, LockInv, LockTypes, Parsing
<1>6. \A u \in Task, x \in Queue : Holds(u, x)' => Holds(u, x) /\ x # w
  <2>1. ASSUME NEW u \in Task, u # t, NEW x \in Queue, Holds(u, x)'
        PROVE  Holds(u, x) /\ x # w
    <3>1. Holds(u, x)
      BY <1>1, <2>1, OthersHold DEF LockInv
    <3>2. QED
      BY <1>1, <1>4, <2>1, <3>1 DEF LockInv, UsersExclude
  <2>2. QED
    BY <1>5, <2>1
<1>7. HeldLocked'
  BY <1>1, <1>6 DEF HeldLocked, LockInv, LockTypes
<1>8. RaisedLocked'
  BY <1>1, <1>4 DEF RaisedLocked, HeldLocked, LockInv, LockTypes
<1>9. UsersExclude'
  BY <1>6 DEF UsersExclude, LockInv
<1>10. QED
  BY <1>1, <1>2, <1>3, <1>7, <1>8, <1>9 DEF LockInv

(* Drivers touch the locks of queues that nobody holds.                      *)
LEMMA DriverStep ==
  ASSUME LockInv, kernel = "cooperative", NEW x \in Queue,
         UNCHANGED <<kernel, at>>, ~\E t \in Task : Holds(t, x),
         \/ lock' = [lock EXCEPT ![x] = 1] /\ raised' = raised \cup {x}
         \/ lock' = [lock EXCEPT ![x] = 0] /\ raised' = raised \ {x}
  PROVE  LockInv'
<1>1. LockTypes'
  BY DEF LockInv, LockTypes
<1>2. \A t \in Task, y \in Queue : Holds(t, y)' <=> Holds(t, y)
  BY DEF Holds
<1>3. HeldLocked'
  BY <1>2 DEF HeldLocked, LockInv, LockTypes
<1>4. RaisedLocked'
  BY DEF RaisedLocked, LockInv, LockTypes
<1>5. UsersExclude'
  BY <1>2 DEF UsersExclude, LockInv
<1>6. QED
  BY <1>1, <1>3, <1>4, <1>5 DEF LockInv

LEMMA KernelKept ==
  ASSUME LockTypes, [Next]_vars
  PROVE  UNCHANGED kernel
BY BodyStep DEF Next, TaskStep, vars, Call, q_lock, q_lock_set, q_unlock, Deliver, Drain,
   q_blockwrite, Unblock

LEMMA LockInit ==
  ASSUME Init
  PROVE  LockInv
BY DEF Init, LockInv, LockTypes, HeldLocked, RaisedLocked, UsersExclude, Holds, Steps, Parsing

LEMMA LockInvStep ==
  ASSUME LockInv, [Next]_vars
  PROVE  LockInv'
<1>1. LockTypes'
  BY TypesKept DEF LockInv
<1>2. UNCHANGED kernel
  BY KernelKept DEF LockInv
<1>3. CASE kernel # "cooperative"
  BY <1>1, <1>2, <1>3 DEF LockInv
<1>4. SUFFICES ASSUME kernel = "cooperative"
               PROVE  LockInv'
  BY <1>3
<1>5. CASE UNCHANGED vars
  BY <1>5 DEF LockInv, LockTypes, HeldLocked, RaisedLocked, UsersExclude, Holds, vars, locks
<1>6. ASSUME NEW t \in Task, Call(t)
      PROVE  LockInv'
  <2>1. at[t] = "idle" /\ at' = [at EXCEPT ![t] = "in"] /\ UNCHANGED <<kernel, locks>>
    BY <1>6 DEF Call
  <2>2. \A x \in Queue : Holds(t, x)' => Holds(t, x)
    BY <2>1 DEF Holds, LockInv, LockTypes, Parsing
  <2>3. QED
    BY <1>4, <2>1, <2>2, QuietStep DEF Steps
<1>7. ASSUME NEW t \in Task, q_lock(t)
      PROVE  LockInv'
  BY <1>4, <1>7, LockStep
<1>8. ASSUME NEW t \in Task, q_lock_set(t)
      PROVE  LockInv'
  BY <1>4, <1>8 DEF q_lock_set, LockInv
<1>9. ASSUME NEW t \in Task, alp_parse_message(t)
      PROVE  LockInv'
  <2>1. PICK s \in Reached : at' = [at EXCEPT ![t] = s]
    BY <1>9, BodyStep DEF LockInv
  <2>2. at[t] \in Parsing /\ UNCHANGED <<kernel, locks>>
    BY <1>9, BodyStep DEF LockInv
  <2>3. \A x \in Queue : Holds(t, x)' => Holds(t, x)
    BY <2>1, <2>2 DEF Holds, LockInv, LockTypes, Reached, Parsing
  <2>4. s \in Steps \ {"in_set", "out_set"}
    BY <2>1 DEF Steps, Reached, Parsing
  <2>5. QED
    BY <1>4, <2>1, <2>2, <2>3, <2>4, QuietStep
<1>10. ASSUME NEW t \in Task, q_unlock(t)
       PROVE  LockInv'
  BY <1>4, <1>10, UnlockStep
<1>11. ASSUME NEW x \in InQueue, Deliver(x)
       PROVE  LockInv'
  BY <1>11 DEF Deliver, LockInv, LockTypes, HeldLocked, RaisedLocked, UsersExclude, Holds, locks
<1>12. ASSUME NEW y \in OutQueue, Drain(y)
       PROVE  LockInv'
  <2>1. y \in Queue /\ ~\E t \in Task : Holds(t, y)
    BY <1>4, <1>12 DEF Queue, Drain, Mine, LockInv, HeldLocked
  <2>2. QED
    BY <1>4, <1>12, <2>1, DriverStep DEF Drain
<1>13. ASSUME NEW x \in Queue, q_blockwrite(x) \/ Unblock(x)
       PROVE  LockInv'
  <2>1. ~\E t \in Task : Holds(t, x)
    BY <1>4, <1>13 DEF q_blockwrite, Unblock, LockInv, HeldLocked
  <2>2. QED
    BY <1>4, <1>13, <2>1, DriverStep DEF q_blockwrite, Unblock
<1>14. QED
  BY <1>5, <1>6, <1>7, <1>8, <1>9, <1>10, <1>11, <1>12, <1>13 DEF Next, TaskStep

(* In a cooperative kernel no queue ever has two holders, task or driver,    *)
(* whatever calls return early and leave their queues locked.                *)
THEOREM MutuallyExclusive == Spec => []MutualExclusion
<1>1. Init => LockInv
  BY LockInit
<1>2. LockInv /\ [Next]_vars => LockInv'
  BY LockInvStep
<1>3. LockInv => MutualExclusion
  BY DEF LockInv, MutualExclusion, HeldLocked, LockTypes
<1>4. QED
  BY <1>1, <1>2, <1>3, PTL DEF Spec

-----------------------------------------------------------------------------
(* What the buffers of the input queues hold, and the variables of calls.    *)
(* alp_parse_message may find any message ever delivered at the front of the *)
(* buffer, also one that is treated already, but always finds one.           *)
Asked == {[id |-> i, body |-> b] : i \in 1..MaxSent, b \in Sendable}

Jobs == [hdr : Int, left : Int, n : Int, respond : BOOLEAN, id : Int, saved : Int]

BufferInv ==
  /\ cell \in [InQueue -> Seq(Asked)] /\ put \in [InQueue -> Nat]
  /\ sent \in [InQueue -> 0..MaxSent]
  /\ \A x \in InQueue : put[x] <= Len(cell[x])

DataInv ==
  /\ LockTypes /\ BufferInv
  /\ job \in [Task -> Jobs] /\ tail \in [OutQueue -> Int]
  /\ \A t \in Task : at[t] # "idle" => cell[In[t]] # <<>>

LEMMA Sent ==
  ASSUME NEW m \in Asked
  PROVE  m.body \in Sendable /\ m.id \in 1..MaxSent
BY DEF Asked

(* What is put out for a message that asks for it, and for no other.         *)
LEMMA AnswersAre ==
  ASSUME NEW b \in Sendable
  PROVE  /\ b \in Body /\ b.respond \in BOOLEAN /\ b.items \in Nat
         /\ Answers(b) \in Nat /\ Answers(b) <= b.items
         /\ ReadsRespond /\ Answers(b) # 0 => b.respond
BY AlpAssumption DEF Sendable, Answers

(* A driver writes over the message at the putcursor or behind the last one. *)
LEMMA DeliverStep ==
  ASSUME BufferInv, NEW x \in InQueue, Deliver(x)
  PROVE  /\ BufferInv'
         /\ \A z \in InQueue : cell'[z] = cell[z] \/ cell'[z] # <<>>
         /\ put[x] = 0 => cell'[x] # <<>> /\ cell'[x][1].id = sent[x] + 1
<1>1. PICK b \in Sendable :
        cell' = [cell EXCEPT ![x] = SubSeq(@, 1, put[x])
                                    \o <<[id |-> sent[x] + 1, body |-> b]>>
                                    \o SubSeq(@, put[x] + 2, Len(@))]
  BY DEF Deliver
<1>2. /\ put' = [put EXCEPT ![x] = @ + 1]
      /\ sent[x] < MaxSent /\ sent' = [sent EXCEPT ![x] = @ + 1]
  BY DEF Deliver
<1> DEFINE c == cell[x]
           p == put[x]
           m == [id |-> sent[x] + 1, body |-> b]
           front == SubSeq(c, 1, p)
           back == SubSeq(c, p + 2, Len(c))
<1>3. c \in Seq(Asked) /\ p \in Nat /\ p <= Len(c) /\ sent[x] \in 0..MaxSent
  BY DEF BufferInv
<1>4. m \in Asked /\ m.id = sent[x] + 1
  <2>1. sent[x] + 1 \in 1..MaxSent
    BY <1>2, <1>3, AlpAssumption
  <2>2. QED
    BY <2>1 DEF Asked
<1> HIDE DEF c, p, m
<1>5. front \in Seq(Asked) /\ Len(front) = p
  BY <1>3
<1>6. back \in Seq(Asked) /\ Len(back) \in Nat
  <2>1. p + 2 \in Int /\ Len(c) \in Int
    BY <1>3
  <2>2. \A i \in p + 2 .. Len(c) : c[i] \in Asked
    BY <1>3
  <2>3. back \in Seq(Asked)
    BY <2>1, <2>2, SubSeqProperties
  <2>4. QED
    BY <2>3
<1> HIDE DEF front, back
<1>7. front \o <<m>> \in Seq(Asked) /\ Len(front \o <<m>>) = p + 1 /\ (front \o <<m>>)[p + 1] = m
  BY <1>3, <1>4, <1>5
<1> DEFINE new == (front \o <<m>>) \o back
<1>8. new \in Seq(Asked) /\ Len(new) \in Nat /\ Len(new) >= p + 1 /\ new[p + 1] = m
  BY <1>3, <1>6, <1>7
<1>9. cell' = [cell EXCEPT ![x] = new]
  BY <1>1 DEF front, back, m, c, p
<1> HIDE DEF new
<1>10. cell' \in [InQueue -> Seq(Asked)] /\ cell'[x] = new
       /\ \A z \in InQueue : z # x => cell'[z] = cell[z]
  BY <1>8, <1>9 DEF BufferInv
<1>11. put' \in [InQueue -> Nat] /\ put'[x] = p + 1 /\ \A z \in InQueue : z # x => put'[z] = put[z]
  BY <1>2, <1>3 DEF BufferInv, p
<1>12. sent' \in [InQueue -> 0..MaxSent]
  <2>1. sent[x] + 1 \in 0..MaxSent
    BY <1>2, <1>3, AlpAssumption
  <2>2. QED
    BY <1>2, <2>1 DEF BufferInv
<1>13. put'[x] <= Len(cell'[x])
  BY <1>3, <1>8, <1>10, <1>11
<1>14. BufferInv'
  BY <1>10, <1>11, <1>12, <1>13 DEF BufferInv
<1>15. new # <<>>
  BY <1>3, <1>8
<1>16. put[x] = 0 => new[1].id = sent[x] + 1
  BY <1>4, <1>8 DEF p
<1>17. QED
  BY <1>10, <1>14, <1>15, <1>16

LEMMA JobTyped ==
  ASSUME NEW j \in Jobs, NEW a \in Int, NEW b \in Int, NEW c \in BOOLEAN, NEW d \in Int
  PROVE  /\ [j EXCEPT !.n = a, !.left = b] \in Jobs
         /\ [j EXCEPT !.n = a, !.left = b, !.respond = c, !.id = d] \in Jobs
BY DEF Jobs

LEMMA BodyData ==
  ASSUME DataInv, NEW t \in Task, alp_parse_message(t)
  PROVE  DataInv'
<1> DEFINE y == Out[t]
<1>1. In[t] \in InQueue /\ y \in OutQueue
  BY Roles
<1>2. at[t] \in Parsing /\ UNCHANGED <<cell, sent>>
  BY BodyStep DEF DataInv
<1>3. LockTypes'
  BY TypesKept DEF DataInv, Next, TaskStep
<1>4. job[t] \in Jobs /\ tail[y] \in Int
  BY <1>1 DEF DataInv
<1>5. put' = put \/ put' = [put EXCEPT ![In[t]] = 0]
  BY DEF alp_parse_message, NoRoom, HasRoom, Reserve, alp_proc, Item, Return, Discard, GoBack,
         WriteHeader, GoForward, Rewind, input
<1>6. BufferInv'
  <2>1. \A x \in InQueue : Len(cell[x]) \in Nat
    BY DEF DataInv, BufferInv
  <2>2. CASE put' = put
    BY <1>2, <2>2 DEF DataInv, BufferInv
  <2>3. CASE put' = [put EXCEPT ![In[t]] = 0]
    <3>1. put' \in [InQueue -> Nat]
      BY <2>3 DEF DataInv, BufferInv
    <3>2. \A x \in InQueue : put'[x] = put[x] \/ put'[x] = 0
      BY <2>3 DEF DataInv, BufferInv
    <3>3. \A x \in InQueue : put[x] <= Len(cell[x])
      BY DEF DataInv, BufferInv
    <3>4. \A x \in InQueue : put'[x] <= Len(cell[x])
      <4>1. TAKE x \in InQueue
      <4>2. CASE put'[x] = put[x]
        BY <3>3, <4>2
      <4>3. CASE put'[x] = 0
        BY <2>1, <4>3
      <4>4. QED
        BY <3>2, <4>2, <4>3
    <3>5. QED
      BY <1>2, <3>1, <3>4 DEF DataInv, BufferInv
  <2>4. QED
    BY <1>5, <2>2, <2>3
<1>7. \A u \in Task : at'[u] # "idle" => cell'[In[u]] # <<>>
  <2>1. PICK s \in Reached : at' = [at EXCEPT ![t] = s]
    BY BodyStep DEF DataInv
  <2>2. at[t] # "idle"
    BY <1>2 DEF Parsing
  <2>3. QED
    BY <1>2, <2>1, <2>2 DEF DataInv, LockTypes
<1>8. tail' \in [OutQueue -> Int]
  <2>1. CASE UNCHANGED tail
    BY <2>1 DEF DataInv
  <2>2. CASE \E v \in Int : tail' = [tail EXCEPT ![y] = v]
    BY <2>2 DEF DataInv
  <2>3. CASE Return(t)
    <3>1. job[t].n \in Int /\ LenMod \in Nat \ {0}
      BY <1>4, AlpAssumption DEF Jobs
    <3>2. job[t].n % LenMod \in Int
      BY <3>1
    <3>3. tail[y] - (job[t].n % LenMod) \in Int
      BY <1>4, <3>2
    <3>4. QED
      BY <1>4, <2>2, <2>3, <3>3 DEF Return
  <2>4. job[t].hdr \in Int /\ job[t].saved \in Int /\ tail[y] + 1 \in Int
    BY <1>4 DEF Jobs
  <2>5. CASE ~Return(t)
    BY <2>1, <2>2, <2>4, <2>5 DEF alp_parse_message, NoRoom, HasRoom, Reserve, alp_proc, Item,
       Discard, GoBack, WriteHeader, GoForward, Rewind, output
  <2>6. QED
    BY <2>3, <2>5
<1>9. job' \in [Task -> Jobs]
  <2>1. ASSUME NEW j \in Jobs, job' = [job EXCEPT ![t] = j]
        PROVE  job' \in [Task -> Jobs]
    BY <2>1 DEF DataInv
  <2>2. CASE Reserve(t) \/ GoBack(t)
    <3>1. [job[t] EXCEPT !.hdr = tail[y]] \in Jobs /\ [job[t] EXCEPT !.saved = tail[y]] \in Jobs
      BY <1>4 DEF Jobs
    <3>2. \/ job' = [job EXCEPT ![t] = [job[t] EXCEPT !.hdr = tail[y]]]
          \/ job' = [job EXCEPT ![t] = [job[t] EXCEPT !.saved = tail[y]]]
      BY <2>2 DEF Reserve, GoBack
    <3>3. QED
      BY <2>1, <3>1, <3>2
  <2>3. CASE alp_proc(t)
    <3>1. cell[In[t]] \in Seq(Asked) /\ cell[In[t]] # <<>>
      BY <1>1, <1>2 DEF DataInv, BufferInv, Parsing
    <3>2. cell[In[t]][1] \in Asked
      BY <3>1
    <3> DEFINE m == cell[In[t]][1]
    <3>3. Answers(m.body) \in Int /\ m.body.respond \in BOOLEAN /\ m.id \in Int
      BY <3>2, Sent, AnswersAre, AlpAssumption
    <3> DEFINE j == [job[t] EXCEPT !.n = 0, !.left = Answers(m.body),
                                   !.respond = m.body.respond, !.id = m.id]
    <3>4. job' = [job EXCEPT ![t] = j]
      BY <2>3 DEF alp_proc
    <3> HIDE DEF m
    <3>5. j \in Jobs
      <4>1. 0 \in Int
        OBVIOUS
      <4>2. QED
        BY <1>4, <3>3, <4>1, JobTyped, Zenon
    <3>6. QED
      BY <2>1, <3>4, <3>5
  <2>4. CASE Item(t)
    <3> DEFINE j == [job[t] EXCEPT !.n = job[t].n + 1, !.left = job[t].left - 1]
    <3>1. job[t].n + 1 \in Int /\ job[t].left - 1 \in Int
      BY <1>4 DEF Jobs
    <3>2. j \in Jobs
      BY <1>4, <3>1, JobTyped
    <3>3. job' = [job EXCEPT ![t] = j]
      BY <2>4 DEF Item
    <3>4. QED
      BY <2>1, <3>2, <3>3
  <2>5. CASE Return(t)
    <3> DEFINE plen == job[t].n % LenMod
    <3>1. plen \in Int
      BY <1>4, AlpAssumption DEF Jobs
    <3>2. job' = [job EXCEPT ![t] = [job[t] EXCEPT !.n = plen, !.left = 0]]
      BY <2>5 DEF Return
    <3> HIDE DEF plen
    <3>3. [job[t] EXCEPT !.n = plen, !.left = 0] \in Jobs
      <4>1. 0 \in Int
        OBVIOUS
      <4>2. QED
        BY <1>4, <3>1, <4>1, JobTyped, Zenon
    <3>4. QED
      BY <2>1, <3>2, <3>3
  <2>6. CASE Rewind(t)
    BY <2>6 DEF DataInv, Jobs, Rewind, NoJob
  <2>7. CASE UNCHANGED job
    BY <2>7 DEF DataInv
  <2>8. QED
    BY <2>2, <2>3, <2>4, <2>5, <2>6, <2>7 DEF alp_parse_message, NoRoom, HasRoom, Discard,
       WriteHeader, GoForward
<1>10. QED
  BY <1>3, <1>6, <1>7, <1>8, <1>9 DEF DataInv

LEMMA DataStep ==
  ASSUME DataInv, [Next]_vars
  PROVE  DataInv'
<1>1. LockTypes'
  BY TypesKept DEF DataInv
<1>2. ASSUME UNCHANGED <<job, tail, cell, put, sent>>,
             \A t \in Task : at'[t] # "idle" => at[t] # "idle" \/ cell[In[t]] # <<>>
      PROVE  DataInv'
  BY <1>1, <1>2 DEF DataInv, BufferInv
<1>3. CASE UNCHANGED vars
  BY <1>2, <1>3 DEF vars, input, output
<1>4. ASSUME NEW t \in Task, Call(t) \/ q_lock(t) \/ q_lock_set(t) \/ q_unlock(t)
      PROVE  DataInv'
  <2>1. UNCHANGED <<job, tail, cell, put, sent>>
    BY <1>4 DEF Call, q_lock, q_lock_set, q_unlock, input, output
  <2>2. \A u \in Task : u # t => at'[u] = at[u]
    BY <1>4 DEF Call, q_lock, q_lock_set, q_unlock, DataInv, LockTypes
  <2>3. at[t] # "idle" \/ cell[In[t]] # <<>>
    BY <1>4 DEF Call, q_lock, q_lock_set, q_unlock
  <2>4. QED
    BY <1>2, <2>1, <2>2, <2>3
<1>5. ASSUME NEW t \in Task, alp_parse_message(t) PROVE DataInv'
  BY <1>5, BodyData
<1>6. ASSUME NEW x \in InQueue, Deliver(x) PROVE DataInv'
  <2>1. BufferInv' /\ \A z \in InQueue : cell'[z] = cell[z] \/ cell'[z] # <<>>
    BY <1>6, DeliverStep DEF DataInv
  <2>2. UNCHANGED <<at, job, tail>>
    BY <1>6 DEF Deliver, output
  <2>3. QED
    BY <1>1, <2>1, <2>2, Roles DEF DataInv
<1>7. ASSUME NEW y \in OutQueue, Drain(y) PROVE DataInv'
  <2>1. tail' = [tail EXCEPT ![y] = 0] /\ UNCHANGED <<at, job, cell, put, sent>>
    BY <1>7 DEF Drain, input
  <2>2. tail' \in [OutQueue -> Int]
    BY <2>1 DEF DataInv
  <2>3. QED
    BY <1>1, <2>1, <2>2 DEF DataInv, BufferInv
<1>8. ASSUME NEW y, q_blockwrite(y) \/ Unblock(y) PROVE DataInv'
  BY <1>2, <1>8 DEF q_blockwrite, Unblock, input, output
<1>9. QED
  BY <1>3, <1>4, <1>5, <1>6, <1>7, <1>8 DEF Next, TaskStep

LEMMA DataInit ==
  ASSUME Init
  PROVE  DataInv
<1>1. LockTypes
  BY DEF Init, LockTypes, Steps
<1>2. BufferInv
  BY AlpAssumption DEF Init, BufferInv
<1>3. QED
  BY <1>1, <1>2 DEF Init, DataInv, Jobs, NoJob

-----------------------------------------------------------------------------
(* TreatedOnce counts; the invariant also says which message is at the front *)
(* of the buffer when a task gets to it, long after it tested that there is  *)
(* one: only the task whose queue it is takes it out, and drivers wait.      *)
OwnInput == \A t, u \in Task : In[t] = In[u] => t = u

Pending(t) == at[t] \in {"in", "in_set", "out", "out_set"} \cup Parsing

Loaded(t) == at[t] \in {"items", "header", "write", "restore", "rewind"}

InOrder(x) ==
  /\ \A i \in 1..Len(done[x]) : done[x][i] = i
  /\ Len(done[x]) + put[x] = sent[x]
  /\ put[x] = 1 => cell[x] # <<>> /\ cell[x][1].id = sent[x]

OnceInv ==
  /\ DataInv
  /\ put \in [InQueue -> 0..1] /\ done \in [InQueue -> Seq(Nat)]
  /\ \A x \in InQueue : InOrder(x)
  /\ \A t \in Task : Pending(t) => put[In[t]] = 1
  /\ \A t \in Task : Loaded(t) => job[t].id = sent[In[t]]

(* A message is put at the front of an empty queue.                          *)
LEMMA DeliverOnce ==
  ASSUME OneAtATime, OnceInv, NEW x \in InQueue, Deliver(x)
  PROVE  OnceInv'
<1>1. DataInv'
  BY DataStep DEF OnceInv, Next
<1>2. /\ put[x] = 0 /\ put' = [put EXCEPT ![x] = @ + 1]
      /\ sent[x] < MaxSent /\ sent' = [sent EXCEPT ![x] = @ + 1]
      /\ UNCHANGED <<at, job, done>>
  BY DEF Deliver
<1>3. cell'[x] # <<>> /\ cell'[x][1].id = sent[x] + 1
  BY <1>2, DeliverStep DEF OnceInv, DataInv
<1>4. \A z \in InQueue : z # x => cell'[z] = cell[z]
  BY DEF Deliver, OnceInv, DataInv, BufferInv
<1>5. put' \in [InQueue -> 0..1]
  BY <1>2 DEF OnceInv
<1>6. /\ put'[x] = 1 /\ sent'[x] = sent[x] + 1
      /\ \A z \in InQueue : z # x => put'[z] = put[z] /\ sent'[z] = sent[z]
  BY <1>2 DEF OnceInv, DataInv, BufferInv
<1>7. InOrder(x)'
  <2>1. Len(done[x]) + 0 = sent[x] /\ Len(done[x]) \in Nat /\ sent[x] \in Int
    BY <1>2 DEF OnceInv, DataInv, BufferInv, InOrder
  <2>2. QED
    BY <1>2, <1>3, <1>6, <2>1 DEF OnceInv, InOrder
<1>8. ASSUME NEW z \in InQueue, z # x PROVE InOrder(z)'
  BY <1>2, <1>4, <1>6, <1>8 DEF OnceInv, InOrder
<1>9. \A t \in Task : Pending(t)' => put'[In[t]] = 1
  BY <1>2, <1>6, Roles DEF OnceInv, Pending
<1>10. \A t \in Task : Loaded(t)' => job'[t].id = sent'[In[t]]
  <2>1. \A t \in Task : Loaded(t) => Pending(t)
    BY DEF Loaded, Pending, Parsing
  <2>2. \A t \in Task : Loaded(t) => In[t] # x /\ In[t] \in InQueue
    BY <1>2, <2>1, Roles DEF OnceInv
  <2>3. QED
    BY <1>2, <1>6, <2>2 DEF OnceInv, Loaded
<1>11. QED
  BY <1>1, <1>2, <1>5, <1>7, <1>8, <1>9, <1>10 DEF OnceInv

(* The end of the body takes the message at the front out, which is the last *)
(* that was delivered.                                                       *)
LEMMA RewindOnce ==
  ASSUME OwnInput, OnceInv, NEW t \in Task, Rewind(t)
  PROVE  OnceInv'
<1> DEFINE x == In[t]
<1>1. x \in InQueue /\ at[t] = "rewind" /\ put[x] = 1 /\ job[t].id = sent[x]
  BY Roles DEF Rewind, Goes, OnceInv, Pending, Loaded, Parsing
<1>2. DataInv'
  BY DataStep DEF OnceInv, Next, TaskStep, alp_parse_message
<1>3. /\ UNCHANGED <<cell, sent>> /\ put' = [put EXCEPT ![x] = 0]
      /\ done' = [done EXCEPT ![x] = Append(@, job[t].id)]
      /\ at' = [at EXCEPT ![t] = "unlock_in"] /\ \A u \in Task : u # t => job'[u] = job[u]
  BY DEF Rewind, Goes, OnceInv, DataInv
<1>4. sent[x] = Len(done[x]) + 1 /\ sent[x] \in Nat /\ done[x] \in Seq(Nat)
  BY <1>1, AlpAssumption DEF OnceInv, InOrder, DataInv, BufferInv
<1>5. done'[x] = Append(done[x], Len(done[x]) + 1)
  BY <1>1, <1>3, <1>4 DEF OnceInv
<1>6. /\ done'[x] \in Seq(Nat) /\ Len(done'[x]) = Len(done[x]) + 1
      /\ \A i \in 1..Len(done'[x]) : done'[x][i] = i
  BY <1>1, <1>4, <1>5 DEF OnceInv, InOrder
<1>7. put' \in [InQueue -> 0..1] /\ done' \in [InQueue -> Seq(Nat)]
  BY <1>3, <1>5, <1>6 DEF OnceInv
<1>8. InOrder(x)'
  BY <1>1, <1>3, <1>4, <1>6 DEF OnceInv, InOrder
<1>9. \A y \in InQueue : y # x => InOrder(y)'
  BY <1>3 DEF OnceInv, InOrder
<1>10. \A u \in Task : Pending(u)' => u # t /\ Pending(u) /\ In[u] # x /\ In[u] \in InQueue
  BY <1>3, Roles DEF OnceInv, DataInv, LockTypes, Pending, OwnInput, Parsing
<1>11. \A u \in Task : Pending(u)' => put'[In[u]] = 1
  BY <1>3, <1>10 DEF OnceInv
<1>12. \A u \in Task : Loaded(u)' => u # t /\ Loaded(u)
  BY <1>3 DEF OnceInv, DataInv, LockTypes, Loaded
<1>13. \A u \in Task : Loaded(u)' => job'[u].id = sent'[In[u]]
  BY <1>3, <1>12 DEF OnceInv
<1>14. QED
  BY <1>2, <1>7, <1>8, <1>9, <1>11, <1>13 DEF OnceInv

(* The other steps leave the messages; a task that begins one found it.      *)
LEMMA OnceStep ==
  ASSUME OwnInput, OneAtATime, OnceInv, [Next]_vars
  PROVE  OnceInv'
<1>1. DataInv'
  BY DataStep DEF OnceInv
<1>2. ASSUME UNCHANGED <<cell, put, sent, done>>,
             \A t \in Task : Pending(t)' => Pending(t) \/ put[In[t]] = 1,
             \A t \in Task : Loaded(t)' => job'[t].id = sent[In[t]]
      PROVE  OnceInv'
  BY <1>1, <1>2 DEF OnceInv, InOrder
<1>3. CASE UNCHANGED vars
  BY <1>2, <1>3 DEF vars, input, Pending, Loaded, OnceInv
<1>4. ASSUME NEW t \in Task, Call(t) PROVE OnceInv'
  <2>1. put[In[t]] > 0
    BY <1>4 DEF Call
  <2>2. put[In[t]] = 1
    BY <2>1, Roles DEF OnceInv
  <2>3. UNCHANGED <<cell, put, sent, done, job>>
    BY <1>4 DEF Call, input
  <2>4. at'[t] = "in" /\ \A u \in Task : u # t => at'[u] = at[u]
    BY <1>4 DEF Call, OnceInv, DataInv, LockTypes
  <2>5. \A u \in Task : Loaded(u)' => Loaded(u)
    BY <2>4 DEF Loaded
  <2>6. QED
    BY <1>2, <2>2, <2>3, <2>4, <2>5 DEF Pending, OnceInv
<1>5. ASSUME NEW t \in Task, q_lock(t) \/ q_lock_set(t) \/ q_unlock(t) PROVE OnceInv'
  <2>1. UNCHANGED <<cell, put, sent, done, job>>
    BY <1>5 DEF q_lock, q_lock_set, q_unlock, input
  <2>2. \A u \in Task : u # t => at'[u] = at[u]
    BY <1>5 DEF q_lock, q_lock_set, q_unlock, OnceInv, DataInv, LockTypes
  <2>3. (Pending(t)' => Pending(t)) /\ ~Loaded(t)'
    BY <1>5 DEF q_lock, q_lock_set, q_unlock, OnceInv, DataInv, LockTypes, Pending, Loaded, Got,
                Parsing
  <2>4. QED
    BY <1>2, <2>1, <2>2, <2>3 DEF Pending, Loaded, OnceInv
<1>6. ASSUME NEW t \in Task, alp_parse_message(t) PROVE OnceInv'
  <2>1. CASE Rewind(t)
    BY <2>1, RewindOnce
  <2>2. CASE alp_proc(t)
    <3>1. In[t] \in InQueue /\ Pending(t) /\ at' = [at EXCEPT ![t] = "items"]
      BY <2>2, Roles DEF alp_proc, Goes, Pending, Parsing
    <3>2. cell[In[t]][1].id = sent[In[t]]
      BY <3>1 DEF OnceInv, InOrder
    <3>3. job'[t].id = cell[In[t]][1].id /\ \A u \in Task : u # t => job'[u] = job[u]
      BY <2>2 DEF alp_proc, OnceInv, DataInv, Jobs
    <3>4. UNCHANGED <<cell, put, sent, done>>
      BY <2>2 DEF alp_proc, input
    <3>5. \A u \in Task : u # t => at'[u] = at[u]
      BY <3>1 DEF OnceInv, DataInv, LockTypes
    <3>6. \A u \in Task : Pending(u)' => Pending(u)
      BY <3>1, <3>5 DEF Pending
    <3>7. \A u \in Task : Loaded(u)' => job'[u].id = sent[In[u]]
      BY <3>2, <3>3, <3>5 DEF Loaded, OnceInv
    <3>8. QED
      BY <1>2, <3>4, <3>6, <3>7
  <2>3. CASE ~Rewind(t) /\ ~alp_proc(t)
    <3>1. PICK s \in Reached : at' = [at EXCEPT ![t] = s]
      BY <1>6, BodyStep DEF OnceInv, DataInv
    <3>2. at[t] \in Parsing
      BY <1>6, BodyStep DEF OnceInv, DataInv
    <3>3. UNCHANGED <<cell, put, sent, done>>
      BY <1>6, <2>3 DEF alp_parse_message, NoRoom, HasRoom, Reserve, Item, Return, Discard, GoBack,
         WriteHeader, GoForward, input
    <3>4. \A u \in Task : job'[u].id = job[u].id
      <4>1. job \in [Task -> Jobs]
        BY DEF OnceInv, DataInv
      <4>2. CASE Reserve(t) \/ GoBack(t)
        BY <4>1, <4>2 DEF Reserve, GoBack, Jobs
      <4>3. CASE Item(t)
        BY <4>1, <4>3 DEF Item, Jobs
      <4>4. CASE Return(t)
        BY <4>1, <4>4 DEF Return, Jobs
      <4>5. CASE UNCHANGED job
        BY <4>5
      <4>6. QED
        BY <1>6, <2>3, <4>2, <4>3, <4>4, <4>5 DEF alp_parse_message, NoRoom, HasRoom, Discard,
           WriteHeader, GoForward
    <3>5. Loaded(t)' => Loaded(t)
      BY <1>6, <2>3 DEF alp_parse_message, NoRoom, HasRoom, Reserve, Item, Return, Discard, GoBack,
         WriteHeader, GoForward, OnceInv, DataInv, LockTypes, Loaded, Goes
    <3>6. \A u \in Task : u # t => at'[u] = at[u]
      BY <3>1 DEF OnceInv, DataInv, LockTypes
    <3>7. \A u \in Task : Pending(u)' => Pending(u)
      BY <3>2, <3>6 DEF Pending
    <3>8. \A u \in Task : Loaded(u)' => Loaded(u)
      BY <3>5, <3>6 DEF Loaded
    <3>9. QED
      BY <1>2, <3>3, <3>4, <3>7, <3>8 DEF OnceInv
  <2>4. QED
    BY <2>1, <2>2, <2>3
<1>7. ASSUME NEW x \in InQueue, Deliver(x) PROVE OnceInv'
  BY <1>7, DeliverOnce
<1>8. ASSUME NEW y, Drain(y) \/ q_blockwrite(y) \/ Unblock(y) PROVE OnceInv'
  BY <1>2, <1>8 DEF Drain, q_blockwrite, Unblock, input, Pending, Loaded, OnceInv
<1>9. QED
  BY <1>3, <1>4, <1>5, <1>6, <1>7, <1>8 DEF Next, TaskStep

(* When each task has an input queue of its own and drivers wait until their *)
(* last message is treated, each message is treated once and in order,       *)
(* whether or not other tasks run between the test and the set of a lock, or *)
(* between the steps of a body.                                              *)
THEOREM OnceInOrder ==
  ASSUME OwnInput
  PROVE  Spec => []TreatedOnce
<1>1. CASE ~OneAtATime
  <2>1. TreatedOnce
    BY <1>1 DEF TreatedOnce
  <2>2. QED
    BY <2>1, PTL
<1>2. CASE OneAtATime
  <2>1. Init => OnceInv
    BY DataInit, AlpAssumption DEF Init, OnceInv, InOrder, Pending, Loaded, Parsing
  <2>2. OnceInv /\ [Next]_vars => OnceInv'
    BY <1>2, OnceStep
  <2>3. OnceInv => TreatedOnce
    BY DEF OnceInv, InOrder, TreatedOnce
  <2>4. QED
    BY <2>1, <2>2, <2>3, PTL DEF Spec
<1>3. QED
  BY <1>1, <1>2

-----------------------------------------------------------------------------
(* What is in front of the putcursor parses except while a task writes a     *)
(* record behind what parses, its header last: the invariant follows the     *)
(* record from step to step, and rests on LockInv, by which one task at most *)
(* writes a queue's record and no driver takes the queue meanwhile.          *)
(*                                                                           *)
(* The length in the header is that of the payload when a record's items fit *)
(* PLEN, or the queue is so short that those written do; and when no message *)
(* that reads comes without the respond bit, not even a stale one.           *)
PayloadsFit == \A b \in Body : b.items < LenMod \/ Space <= LenMod

Slots == [len : Int]

Front(f, k) == [i \in 1..k |-> f[i]]

(* The first k units that were written in a queue are whole records.         *)
Whole(f, k) ==
  /\ k \in Nat
  /\ \A i \in 1..k : i \in DOMAIN f /\ f[i] \in Slots
  /\ Parses(Front(f, k))

(* A payload of n units follows unit h.                                      *)
Payload(f, h, n) == \A i \in (h + 1)..(h + n) : i \in DOMAIN f /\ f[i] = Unit

Writing(t) == at[t] \in {"proc", "items", "header", "write", "restore"}

(* How far task t is with the record it writes.                              *)
Stage(t) ==
  LET f == out[Out[t]]  e == tail[Out[t]]  j == job[t]  end == j.hdr + 1 + j.n IN
  /\ Whole(f, j.hdr) /\ j.hdr + 1 <= Space
  /\ at[t] = "proc" => e = j.hdr + 1
  /\ at[t] # "proc" => j.n \in Nat /\ end <= Space /\ Payload(f, j.hdr + 1, j.n)
  /\ at[t] = "items" =>
       /\ e = end /\ j.left \in Nat
       /\ j.n + j.left # 0 => j.respond
       /\ j.n + j.left < LenMod \/ Space <= LenMod
  /\ at[t] = "header" => e = end
  /\ at[t] = "write" => e = j.hdr /\ j.saved = end
  /\ at[t] = "restore" =>
       /\ e = j.hdr + 1 /\ j.saved = end
       /\ j.hdr + 1 \in DOMAIN f /\ f[j.hdr + 1] = Header(j.n)

Settled(y) == Whole(out[y], tail[y]) /\ tail[y] <= Space

OutInv ==
  /\ DOMAIN out = OutQueue
  /\ \A y \in OutQueue : (\E t \in Task : Out[t] = y /\ Writing(t)) \/ Settled(y)
  /\ \A t \in Task : Writing(t) => Stage(t)
  /\ \A t \in Task : at[t] = "reserve" => tail[Out[t]] < Space

LEMMA FrontIs ==
  ASSUME NEW f, NEW k \in Nat, \A i \in 1..k : f[i] \in Slots
  PROVE  /\ Front(f, k) \in Seq(Slots) /\ Len(Front(f, k)) = k
         /\ \A i \in 1..k : Front(f, k)[i] = f[i]
         /\ Headers(Front(f, k)) = {i \in 1..k : f[i] # Unit}
BY DEF Front, Headers

LEMMA NoneParses == Parses(<<>>) /\ \A f : Front(f, 0) = <<>>
<1>1. Headers(<<>>) = {}
  BY DEF Headers
<1>2. \A f : Front(f, 0) = <<>>
  BY DEF Front
<1>3. QED
  BY <1>1, <1>2 DEF Parses

(* Units in front of k stay, so does what parses.                            *)
LEMMA FrontKept ==
  ASSUME NEW f, NEW g, NEW k, Whole(f, k),
         \A i \in 1..k : i \in DOMAIN g /\ g[i] = f[i]
  PROVE  Whole(g, k)
<1>1. Front(g, k) = Front(f, k)
  BY DEF Front
<1>2. QED
  BY <1>1 DEF Whole

(* A whole record more: the header that was to come next is its header.      *)
LEMMA RecordParses ==
  ASSUME NEW f, NEW k \in Nat, Whole(f, k), NEW n \in Nat,
         k + 1 \in DOMAIN f, f[k + 1] = Header(n), Payload(f, k + 1, n)
  PROVE  Whole(f, k + 1 + n)
<1> DEFINE e == k + 1 + n
           s == Front(f, k)
           r == Front(f, e)
           hs == {i \in 1..k : f[i] # Unit}
           hr == {i \in 1..e : f[i] # Unit}
<1>1. e \in Nat /\ e = k + 1 + n
  OBVIOUS
<1>2. Header(n) # Unit /\ Header(n).len = n /\ Header(n) \in Slots /\ Unit \in Slots
  BY DEF Header, Unit, Slots
<1>3. \A i \in 1..e : i <= k \/ i = k + 1 \/ i \in (k + 2)..(k + 1 + n)
  BY <1>1
<1>4. \A i \in (k + 2)..(k + 1 + n) : i \in DOMAIN f /\ f[i] = Unit
  BY DEF Payload
<1>5. \A i \in 1..k : i \in DOMAIN f /\ f[i] \in Slots
  BY DEF Whole
<1>6. \A i \in 1..e : i \in DOMAIN f /\ f[i] \in Slots
  BY <1>1, <1>2, <1>3, <1>4, <1>5
<1> HIDE DEF e
<1>7. /\ s \in Seq(Slots) /\ Len(s) = k /\ Headers(s) = hs
      /\ \A i \in 1..k : s[i] = f[i]
  BY <1>5, FrontIs
<1>8. /\ r \in Seq(Slots) /\ Len(r) = e /\ Headers(r) = hr
      /\ \A i \in 1..e : r[i] = f[i]
  BY <1>1, <1>6, FrontIs
<1>9. Parses(s)
  BY DEF Whole
<1> HIDE DEF s, r
<1>10. hr = hs \cup {k + 1}
  <2>1. \A i \in 1..e : f[i] # Unit <=> (i <= k /\ f[i] # Unit) \/ i = k + 1
    BY <1>1, <1>2, <1>3, <1>4
  <2>2. QED
    BY <1>1, <2>1
<1>11. hs \subseteq 1..k
  OBVIOUS
<1>12. \A i \in 1..k : f[i].len \in Int
  BY <1>5 DEF Slots
<1> HIDE DEF hs, hr
<1>13. 1 \in hr
  <2>1. CASE k = 0
    BY <1>10, <2>1
  <2>2. CASE k # 0
    <3>1. s # <<>>
      BY <1>7, <2>2
    <3>2. QED
      BY <1>7, <1>9, <1>10, <3>1 DEF Parses
  <2>3. QED
    BY <2>1, <2>2
<1>14. ASSUME NEW i \in hr, NEW next, next = i + r[i].len + 1
       PROVE  /\ next <= e + 1
              /\ \A j \in (i + 1)..(next - 1) : j \notin hr
              /\ next <= e => next \in hr
  <2>1. CASE i = k + 1
    <3>1. r[i] = Header(n)
      BY <1>1, <1>8, <2>1
    <3>2. next = e + 1
      BY <1>1, <1>2, <1>14, <2>1, <3>1
    <3>3. QED
      BY <1>1, <1>10, <1>11, <2>1, <3>2
  <2>2. CASE i \in hs
    <3>1. i \in 1..k
      BY <1>11, <2>2
    <3>2. r[i] = f[i] /\ s[i] = f[i] /\ f[i].len \in Int
      BY <1>1, <1>7, <1>8, <1>12, <3>1
    <3>3. next = i + s[i].len + 1 /\ next \in Int
      BY <1>14, <3>1, <3>2
    <3>4. /\ next <= k + 1
          /\ \A j \in (i + 1)..(next - 1) : j \notin hs
          /\ next <= k => next \in hs
      BY <1>7, <1>9, <2>2, <3>3 DEF Parses
    <3>5. \A j \in (i + 1)..(next - 1) : j # k + 1
      BY <3>3, <3>4
    <3>6. QED
      BY <1>1, <1>10, <3>3, <3>4, <3>5
  <2>3. QED
    BY <1>10, <2>1, <2>2
<1>15. Parses(r)
  BY <1>8, <1>13, <1>14 DEF Parses
<1>16. QED
  BY <1>1, <1>6, <1>15 DEF Whole, r, e

(* A task in the body holds its output queue, so nobody else writes there.   *)
LEMMA Alone ==
  ASSUME LockInv, kernel = "cooperative", NEW t \in Task, at[t] \in Parsing,
         NEW u \in Task, u # t, Out[u] = Out[t]
  PROVE  at[u] \notin Parsing
<1>1. Holds(t, Out[t])
  BY DEF Holds
<1>2. at[u] \in Parsing => Holds(u, Out[t])
  BY DEF Holds
<1>3. QED
  BY <1>1, <1>2, Roles DEF LockInv, UsersExclude

LEMMA WritingParses ==
  ASSUME NEW t \in Task
  PROVE  (Writing(t) \/ at[t] = "reserve") => at[t] \in Parsing
BY DEF Writing, Parsing

(* A task between records finds whole ones.                                  *)
LEMMA FoundWhole ==
  ASSUME LockInv, OutInv, kernel = "cooperative", NEW t \in Task,
         at[t] \in Parsing, ~Writing(t)
  PROVE  Settled(Out[t])
BY Roles, Alone, WritingParses DEF OutInv

(* A step of the body changes what its task writes, and nothing else.        *)
LEMMA BodyFrame ==
  ASSUME LockInv, OutInv, kernel = "cooperative", NEW t \in Task, at[t] \in Parsing,
         NEW s \in Steps, at' = [at EXCEPT ![t] = s], DOMAIN out' = OutQueue,
         \A y \in OutQueue : y # Out[t] => out'[y] = out[y] /\ tail'[y] = tail[y],
         \A u \in Task : u # t => job'[u] = job[u],
         Writing(t)' => Stage(t)',
         Writing(t)' \/ Settled(Out[t])',
         s = "reserve" => tail'[Out[t]] < Space
  PROVE  OutInv'
<1>1. at'[t] = s /\ \A u \in Task : u # t => at'[u] = at[u]
  BY DEF LockInv, LockTypes
<1>2. \A u \in Task : u # t => (Writing(u)' <=> Writing(u))
  BY <1>1 DEF Writing
<1>3. \A u \in Task : u # t /\ (Writing(u) \/ at[u] = "reserve") => Out[u] # Out[t]
  BY Alone, WritingParses
<1>4. ASSUME NEW u \in Task, u # t, Writing(u)
      PROVE  Stage(u)'
  <2>1. Out[u] # Out[t] /\ Out[u] \in OutQueue
    BY <1>3, <1>4, Roles
  <2>2. out'[Out[u]] = out[Out[u]] /\ tail'[Out[u]] = tail[Out[u]]
        /\ job'[u] = job[u] /\ at'[u] = at[u]
    BY <1>1, <1>4, <2>1
  <2>3. Stage(u)
    BY <1>4 DEF OutInv
  <2>4. QED
    BY <2>2, <2>3 DEF Stage
<1>5. \A u \in Task : Writing(u)' => Stage(u)'
  BY <1>2, <1>4
<1>6. ASSUME NEW y \in OutQueue
      PROVE  (\E u \in Task : Out[u] = y /\ Writing(u)') \/ Settled(y)'
  <2>1. CASE y = Out[t]
    BY <2>1
  <2>2. CASE y # Out[t]
    <3>1. Settled(y) => Settled(y)'
      BY <2>2 DEF Settled
    <3>2. \A u \in Task : Out[u] = y /\ Writing(u) => Writing(u)'
      BY <1>2, <2>2
    <3>3. QED
      BY <3>1, <3>2 DEF OutInv
  <2>3. QED
    BY <2>1, <2>2
<1>7. \A u \in Task : at'[u] = "reserve" => tail'[Out[u]] < Space
  BY <1>1, <1>3, Roles DEF OutInv
<1>8. QED
  BY <1>5, <1>6, <1>7 DEF OutInv

(* What is written at unit i of queue y.                                     *)
LEMMA WrittenIs ==
  ASSUME NEW y, NEW i, NEW v, NEW g, g = Written(y, i, v)
  PROVE  /\ i \in DOMAIN g /\ g[i] = v
         /\ \A j \in DOMAIN out[y] : j # i => j \in DOMAIN g /\ g[j] = out[y][j]
BY DEF Written

(* Steps that leave the output queue alone, or only move its putcursor.      *)
LEMMA MoveStep ==
  ASSUME DataInv, LockInv, OutInv, kernel = "cooperative", NEW t \in Task,
         \/ NoRoom(t) \/ HasRoom(t) \/ Reserve(t) \/ Rewind(t)
         \/ Discard(t) \/ GoBack(t) \/ GoForward(t)
  PROVE  OutInv'
<1> DEFINE y == Out[t]
           f == out[y]
           j == job[t]
<1>1. y \in OutQueue /\ Space \in Nat
  BY Roles, AlpAssumption
<1>2. j \in Jobs /\ tail[y] \in Int
  BY <1>1 DEF DataInv
<1>3. at[t] \in Parsing
  BY DEF NoRoom, HasRoom, Reserve, Rewind, Discard, GoBack, GoForward, Goes, Parsing
<1>4. /\ DOMAIN out' = OutQueue /\ UNCHANGED out
      /\ \A z \in OutQueue : z # y => tail'[z] = tail[z]
      /\ \A u \in Task : u # t => job'[u] = job[u]
  BY DEF OutInv, DataInv, NoRoom, HasRoom, Reserve, Rewind, Discard, GoBack, GoForward, output
<1>5. ASSUME NEW s \in Steps, at' = [at EXCEPT ![t] = s], s # "reserve",
             Writing(t)' => Stage(t)', Writing(t)' \/ Settled(y)'
      PROVE  OutInv'
  BY <1>3, <1>4, <1>5, BodyFrame
<1>6. CASE NoRoom(t)
  <2>1. at[t] = "check" /\ at' = [at EXCEPT ![t] = "idle"] /\ UNCHANGED tail
    BY <1>6 DEF NoRoom, Goes, output
  <2>2. Settled(y)
    BY <1>3, <2>1, FoundWhole DEF Writing
  <2>3. at'[t] = "idle" /\ ~Writing(t)'
    BY <2>1 DEF Writing, LockInv, LockTypes
  <2>4. QED
    BY <1>4, <1>5, <2>1, <2>2, <2>3 DEF Settled, Steps
<1>7. CASE HasRoom(t)
  <2>1. at[t] = "check" /\ at' = [at EXCEPT ![t] = "reserve"] /\ UNCHANGED tail /\ tail[y] < Space
    BY <1>7 DEF HasRoom, Goes, output
  <2>2. Settled(y)
    BY <1>3, <2>1, FoundWhole DEF Writing
  <2>3. ~Writing(t)' /\ "reserve" \in Steps
    BY <2>1 DEF Writing, LockInv, LockTypes, Steps, Parsing
  <2>4. Settled(y)' /\ tail'[y] < Space
    BY <1>4, <2>1, <2>2 DEF Settled
  <2>5. QED
    BY <1>3, <1>4, <2>1, <2>3, <2>4, BodyFrame
<1>8. CASE Reserve(t)
  <2>1. /\ at[t] = "reserve" /\ at' = [at EXCEPT ![t] = "proc"]
        /\ job' = [job EXCEPT ![t].hdr = tail[y]] /\ tail' = [tail EXCEPT ![y] = @ + 1]
    BY <1>8 DEF Reserve, Goes
  <2>2. Settled(y) /\ tail[y] < Space
    BY <1>3, <2>1, FoundWhole DEF Writing, OutInv
  <2>3. at'[t] = "proc" /\ job'[t].hdr = tail[y] /\ tail'[y] = tail[y] + 1
    BY <1>1, <1>2, <2>1 DEF LockInv, LockTypes, DataInv, Jobs
  <2>4. Stage(t)'
    BY <1>1, <1>2, <1>4, <2>2, <2>3 DEF Stage, Settled
  <2>5. Writing(t)' /\ "proc" \in Steps
    BY <2>3 DEF Writing, Steps, Parsing
  <2>6. QED
    BY <1>5, <2>1, <2>4, <2>5
<1>9. CASE Rewind(t)
  <2>1. at[t] = "rewind" /\ at' = [at EXCEPT ![t] = "unlock_in"] /\ UNCHANGED tail
    BY <1>9 DEF Rewind, Goes, output
  <2>2. Settled(y)
    BY <1>3, <2>1, FoundWhole DEF Writing
  <2>3. ~Writing(t)'
    BY <2>1 DEF Writing, LockInv, LockTypes
  <2>4. QED
    BY <1>4, <1>5, <2>1, <2>2, <2>3 DEF Settled, Steps
<1>10. CASE Discard(t)
  <2>1. /\ at[t] = "header" /\ at' = [at EXCEPT ![t] = "rewind"]
        /\ tail' = [tail EXCEPT ![y] = j.hdr]
    BY <1>10 DEF Discard, Goes
  <2>2. Whole(f, j.hdr) /\ j.hdr + 1 <= Space
    BY <2>1 DEF OutInv, Stage, Writing
  <2>3. at'[t] = "rewind" /\ tail'[y] = j.hdr
    BY <1>1, <2>1 DEF LockInv, LockTypes, DataInv
  <2>4. Settled(y)'
    BY <1>1, <1>2, <1>4, <2>2, <2>3 DEF Settled, Jobs
  <2>5. ~Writing(t)' /\ "rewind" \in Steps
    BY <2>3 DEF Writing, Steps, Parsing
  <2>6. QED
    BY <1>5, <2>1, <2>4, <2>5
<1>11. CASE GoBack(t)
  <2>1. /\ at[t] = "header" /\ at' = [at EXCEPT ![t] = "write"]
        /\ job' = [job EXCEPT ![t].saved = tail[y]] /\ tail' = [tail EXCEPT ![y] = j.hdr]
    BY <1>11 DEF GoBack, Goes
  <2>2. Stage(t)
    BY <2>1 DEF OutInv, Writing
  <2>3. /\ at'[t] = "write" /\ tail'[y] = j.hdr /\ job'[t].saved = tail[y]
        /\ job'[t].hdr = j.hdr /\ job'[t].n = j.n
    BY <1>1, <1>2, <2>1 DEF LockInv, LockTypes, DataInv, Jobs
  <2>4. Stage(t)'
    BY <1>4, <2>1, <2>2, <2>3 DEF Stage
  <2>5. Writing(t)' /\ "write" \in Steps
    BY <2>3 DEF Writing, Steps, Parsing
  <2>6. QED
    BY <1>5, <2>1, <2>4, <2>5
<1>12. CASE GoForward(t)
  <2>1. /\ at[t] = "restore" /\ at' = [at EXCEPT ![t] = "rewind"]
        /\ tail' = [tail EXCEPT ![y] = j.saved]
    BY <1>12 DEF GoForward, Goes
  <2>2. Stage(t)
    BY <2>1 DEF OutInv, Writing
  <2>3. /\ Whole(f, j.hdr) /\ j.hdr \in Nat /\ j.n \in Nat /\ j.saved = j.hdr + 1 + j.n
        /\ j.hdr + 1 \in DOMAIN f /\ f[j.hdr + 1] = Header(j.n)
        /\ Payload(f, j.hdr + 1, j.n) /\ j.saved <= Space
    BY <2>1, <2>2 DEF Stage, Whole
  <2>4. Whole(f, j.saved)
    BY <2>3, RecordParses
  <2>5. at'[t] = "rewind" /\ tail'[y] = j.saved
    BY <1>1, <2>1 DEF LockInv, LockTypes, DataInv
  <2>6. Settled(y)'
    BY <1>4, <2>3, <2>4, <2>5 DEF Settled
  <2>7. ~Writing(t)' /\ "rewind" \in Steps
    BY <2>5 DEF Writing, Steps, Parsing
  <2>8. QED
    BY <1>5, <2>1, <2>6, <2>7
<1>13. QED
  BY <1>6, <1>7, <1>8, <1>9, <1>10, <1>11, <1>12

(* The processor is told what the message asks for.                          *)
LEMMA ProcStep ==
  ASSUME ReadsRespond, PayloadsFit, DataInv, LockInv, OutInv, kernel = "cooperative",
         NEW t \in Task, alp_proc(t)
  PROVE  OutInv'
<1> DEFINE y == Out[t]
           j == job[t]
           m == cell[In[t]][1]
<1>1. y \in OutQueue /\ Space \in Nat /\ In[t] \in InQueue
  BY Roles, AlpAssumption
<1>2. at[t] = "proc" /\ at' = [at EXCEPT ![t] = "items"] /\ UNCHANGED <<out, tail>>
  BY DEF alp_proc, Goes, output
<1>3. m \in Asked
  <2>1. cell[In[t]] \in Seq(Asked) /\ cell[In[t]] # <<>>
    BY <1>1, <1>2 DEF DataInv, BufferInv
  <2>2. QED
    BY <2>1
<1>4. Stage(t)
  BY <1>2 DEF OutInv, Writing
<1>5. /\ Answers(m.body) \in Nat
      /\ Answers(m.body) # 0 => m.body.respond
      /\ Answers(m.body) < LenMod \/ Space <= LenMod
  <2>1. m.body \in Sendable
    BY <1>3, Sent
  <2>2. m.body \in Body /\ Answers(m.body) \in Nat /\ Answers(m.body) <= m.body.items
        /\ m.body.items \in Nat
    BY <2>1, AnswersAre
  <2>3. m.body.items < LenMod \/ Space <= LenMod
    BY <2>2 DEF PayloadsFit
  <2>4. QED
    BY <2>1, <2>2, <2>3, AnswersAre, AlpAssumption
<1>6. /\ job'[t].hdr = j.hdr /\ job'[t].n = 0 /\ job'[t].left = Answers(m.body)
      /\ job'[t].respond = m.body.respond
      /\ \A u \in Task : u # t => job'[u] = job[u]
  BY DEF alp_proc, DataInv, Jobs
<1> HIDE DEF m
<1>7. at'[t] = "items"
  BY <1>2 DEF LockInv, LockTypes
<1>8. Payload(out[y], j.hdr + 1, 0)
  BY <1>4 DEF Payload, Stage, Whole
<1>9. Stage(t)'
  <2>1. /\ Whole(out[y], j.hdr) /\ j.hdr \in Nat /\ j.hdr + 1 <= Space /\ tail[y] = j.hdr + 1
    BY <1>2, <1>4 DEF Stage, Whole
  <2>2. j.hdr + 1 + 0 = j.hdr + 1
    BY <2>1
  <2>3. 0 + Answers(m.body) = Answers(m.body)
    BY <1>5
  <2>4. QED
    BY <1>2, <1>5, <1>6, <1>7, <1>8, <2>1, <2>2, <2>3 DEF Stage
<1>10. Writing(t)' /\ "items" \in Steps /\ at[t] \in Parsing
  BY <1>2, <1>7 DEF Writing, Steps, Parsing
<1>11. QED
  BY <1>2, <1>6, <1>9, <1>10, BodyFrame DEF OutInv

(* An item goes behind those that were put out.                              *)
LEMMA ItemStep ==
  ASSUME DataInv, LockInv, OutInv, kernel = "cooperative", NEW t \in Task, Item(t)
  PROVE  OutInv'
<1> DEFINE y == Out[t]
           f == out[y]
           g == out'[y]
           j == job[t]
           i == tail[y] + 1
<1>1. y \in OutQueue /\ Space \in Nat /\ j \in Jobs /\ tail[y] \in Int
  BY Roles, AlpAssumption DEF DataInv
<1>2. /\ at[t] = "items" /\ UNCHANGED at /\ j.left > 0 /\ tail[y] < Space
      /\ out' = [out EXCEPT ![y] = Written(y, i, Unit)]
      /\ tail' = [tail EXCEPT ![y] = i]
  BY DEF Item
<1>3. /\ job'[t].hdr = j.hdr /\ job'[t].n = j.n + 1 /\ job'[t].left = j.left - 1
      /\ job'[t].respond = j.respond
      /\ \A u \in Task : u # t => job'[u] = job[u]
  BY DEF Item, DataInv, Jobs
<1>4. Stage(t)
  BY <1>2 DEF OutInv, Writing
<1>5. /\ Whole(f, j.hdr) /\ j.hdr \in Nat /\ j.n \in Nat /\ i = j.hdr + 1 + (j.n + 1)
      /\ Payload(f, j.hdr + 1, j.n) /\ j.left \in Nat /\ j.respond
      /\ j.n + j.left < LenMod \/ Space <= LenMod
  BY <1>1, <1>2, <1>4 DEF Stage, Whole
<1>6. /\ DOMAIN out' = OutQueue
      /\ i \in DOMAIN g /\ g[i] = Unit
      /\ \A k \in DOMAIN f : k # i => k \in DOMAIN g /\ g[k] = f[k]
      /\ \A z \in OutQueue : z # y => out'[z] = out[z]
  <2>1. DOMAIN out' = OutQueue /\ \A z \in OutQueue : z # y => out'[z] = out[z]
    BY <1>2 DEF OutInv
  <2>2. g = Written(y, i, Unit)
    BY <1>1, <1>2 DEF OutInv
  <2> HIDE DEF i, g
  <2>3. QED
    BY <2>1, <2>2, WrittenIs
<1>7. tail'[y] = i /\ \A z \in OutQueue : z # y => tail'[z] = tail[z]
  BY <1>1, <1>2 DEF DataInv
<1> HIDE DEF i, j, f, g
<1>8. Whole(g, j.hdr)
  <2>1. \A k \in 1..j.hdr : k \in DOMAIN f /\ k # i
    BY <1>5 DEF Whole
  <2>2. QED
    BY <1>5, <1>6, <2>1, FrontKept
<1>9. Payload(g, j.hdr + 1, j.n + 1)
  <2>1. \A k \in (j.hdr + 1 + 1)..(j.hdr + 1 + j.n) : k \in DOMAIN f /\ f[k] = Unit /\ k # i
    BY <1>5 DEF Payload
  <2>2. \A k \in (j.hdr + 1 + 1)..(j.hdr + 1 + (j.n + 1)) :
          k = i \/ k \in (j.hdr + 1 + 1)..(j.hdr + 1 + j.n)
    BY <1>5
  <2>3. QED
    BY <1>6, <2>1, <2>2 DEF Payload
<1>10. /\ j.n + 1 \in Nat /\ j.left - 1 \in Nat
       /\ (j.n + 1) + (j.left - 1) = j.n + j.left /\ j.hdr + 1 <= Space /\ i <= Space
  BY <1>1, <1>2, <1>5 DEF i
<1>11. Stage(t)'
  BY <1>2, <1>3, <1>5, <1>7, <1>8, <1>9, <1>10 DEF Stage, g
<1>12. at' = [at EXCEPT ![t] = "items"] /\ "items" \in Steps /\ at[t] \in Parsing /\ Writing(t)'
  BY <1>2 DEF Writing, Steps, Parsing, LockInv, LockTypes
<1>13. QED
  BY <1>3, <1>6, <1>7, <1>11, <1>12, BodyFrame

(* PLEN is the number of items; a putcursor goes back over a payload nobody  *)
(* wants, which is none.                                                     *)
LEMMA ReturnStep ==
  ASSUME DataInv, LockInv, OutInv, kernel = "cooperative", NEW t \in Task, Return(t)
  PROVE  OutInv'
<1> DEFINE y == Out[t]
           j == job[t]
           plen == j.n % LenMod
<1>1. y \in OutQueue /\ Space \in Nat /\ j \in Jobs /\ tail[y] \in Int /\ LenMod \in Nat \ {0}
  BY Roles, AlpAssumption DEF DataInv
<1>2. /\ at[t] = "items" /\ at' = [at EXCEPT ![t] = "header"] /\ UNCHANGED out
      /\ job' = [job EXCEPT ![t].n = plen, ![t].left = 0]
      /\ tail' = [tail EXCEPT ![y] = IF j.respond THEN @ ELSE @ - plen]
  BY DEF Return, Goes
<1>3. Stage(t)
  BY <1>2 DEF OutInv, Writing
<1>4. /\ Whole(out[y], j.hdr) /\ j.hdr \in Nat /\ j.n \in Nat /\ j.left \in Nat
      /\ tail[y] = j.hdr + 1 + j.n /\ j.hdr + 1 + j.n <= Space
      /\ j.n + j.left # 0 => j.respond
      /\ j.n + j.left < LenMod \/ Space <= LenMod
  BY <1>2, <1>3 DEF Stage, Whole
<1>5. plen = j.n
  <2>1. j.n < LenMod
    BY <1>1, <1>4
  <2>2. QED
    BY <1>1, <1>4, <2>1
<1>6. tail[y] = IF j.respond THEN tail[y] ELSE tail[y] - plen
  BY <1>1, <1>4, <1>5
<1> HIDE DEF plen
<1>7. tail' = tail
  BY <1>1, <1>2, <1>6 DEF DataInv
<1>8. job'[t].hdr = j.hdr /\ job'[t].n = j.n /\ \A u \in Task : u # t => job'[u] = job[u]
  BY <1>2, <1>5 DEF DataInv, Jobs
<1>9. at'[t] = "header"
  BY <1>2 DEF LockInv, LockTypes
<1>10. Stage(t)'
  BY <1>2, <1>3, <1>7, <1>8, <1>9 DEF Stage
<1>11. Writing(t)' /\ "header" \in Steps /\ at[t] \in Parsing
  BY <1>2, <1>9 DEF Writing, Steps, Parsing
<1>12. QED
  BY <1>2, <1>7, <1>8, <1>10, <1>11, BodyFrame DEF OutInv

(* The header goes in front of the payload and behind what parses.           *)
LEMMA HeaderStep ==
  ASSUME DataInv, LockInv, OutInv, kernel = "cooperative", NEW t \in Task, WriteHeader(t)
  PROVE  OutInv'
<1> DEFINE y == Out[t]
           f == out[y]
           g == out'[y]
           j == job[t]
           i == tail[y] + 1
           v == Header(j.n)
<1>1. y \in OutQueue /\ Space \in Nat /\ j \in Jobs /\ tail[y] \in Int
  BY Roles, AlpAssumption DEF DataInv
<1>2. /\ at[t] = "write" /\ at' = [at EXCEPT ![t] = "restore"] /\ UNCHANGED job
      /\ out' = [out EXCEPT ![y] = Written(y, i, v)]
      /\ tail' = [tail EXCEPT ![y] = i]
  BY DEF WriteHeader, Goes
<1>3. Stage(t)
  BY <1>2 DEF OutInv, Writing
<1>4. /\ Whole(f, j.hdr) /\ j.hdr \in Nat /\ j.n \in Nat /\ i = j.hdr + 1 /\ j.hdr + 1 <= Space
      /\ Payload(f, j.hdr + 1, j.n) /\ j.hdr + 1 + j.n <= Space /\ j.saved = j.hdr + 1 + j.n
  BY <1>2, <1>3 DEF Stage, Whole
<1>5. /\ DOMAIN out' = OutQueue
      /\ i \in DOMAIN g /\ g[i] = v
      /\ \A k \in DOMAIN f : k # i => k \in DOMAIN g /\ g[k] = f[k]
      /\ \A z \in OutQueue : z # y => out'[z] = out[z]
  <2>1. DOMAIN out' = OutQueue /\ \A z \in OutQueue : z # y => out'[z] = out[z]
    BY <1>2 DEF OutInv
  <2>2. g = Written(y, i, v)
    BY <1>1, <1>2 DEF OutInv
  <2> HIDE DEF i, g
  <2>3. QED
    BY <2>1, <2>2, WrittenIs
<1>6. /\ tail'[y] = i /\ at'[t] = "restore" /\ job'[t] = j
      /\ \A z \in OutQueue : z # y => tail'[z] = tail[z]
      /\ \A u \in Task : u # t => job'[u] = job[u]
  BY <1>1, <1>2 DEF DataInv, LockInv, LockTypes
<1> HIDE DEF i, j, f, g
<1>7. Whole(g, j.hdr)
  <2>1. \A k \in 1..j.hdr : k \in DOMAIN f /\ k # i
    BY <1>4 DEF Whole
  <2>2. QED
    BY <1>4, <1>5, <2>1, FrontKept
<1>8. Payload(g, j.hdr + 1, j.n)
  <2>1. \A k \in (j.hdr + 1 + 1)..(j.hdr + 1 + j.n) : k \in DOMAIN f /\ f[k] = Unit /\ k # i
    BY <1>4 DEF Payload
  <2>2. QED
    BY <1>5, <2>1 DEF Payload
<1>9. Stage(t)'
  BY <1>4, <1>5, <1>6, <1>7, <1>8 DEF Stage, g
<1>10. Writing(t)' /\ "restore" \in Steps /\ at[t] \in Parsing
  BY <1>2, <1>6 DEF Writing, Steps, Parsing
<1>11. at' = [at EXCEPT ![t] = "restore"]
  BY <1>2
<1>12. QED
  BY <1>5, <1>6, <1>9, <1>10, <1>11, BodyFrame

(* Drivers empty a queue that nobody writes, as nobody holds it.             *)
LEMMA DrainStep ==
  ASSUME LockInv, OutInv, kernel = "cooperative", NEW y \in OutQueue, Drain(y),
         tail \in [OutQueue -> Int]
  PROVE  OutInv'
<1>1. /\ Mine(y) /\ out' = [out EXCEPT ![y] = <<>>] /\ tail' = [tail EXCEPT ![y] = 0]
      /\ UNCHANGED <<at, job>>
  BY DEF Drain
<1>2. /\ DOMAIN out' = OutQueue /\ tail'[y] = 0
      /\ \A z \in OutQueue : z # y => out'[z] = out[z] /\ tail'[z] = tail[z]
  BY <1>1 DEF OutInv
<1>3. \A t \in Task : Out[t] = y => at[t] \notin Parsing
  BY <1>1 DEF Mine, LockInv, HeldLocked, Holds, Queue
<1>4. \A t \in Task : Out[t] = y => ~Writing(t) /\ at[t] # "reserve"
  BY <1>3, WritingParses
<1>5. Settled(y)'
  <2>1. Whole(out'[y], 0)
    BY NoneParses DEF Whole
  <2>2. QED
    BY <1>2, <2>1, AlpAssumption DEF Settled
<1>6. \A z \in OutQueue : (\E t \in Task : Out[t] = z /\ Writing(t)') \/ Settled(z)'
  BY <1>1, <1>2, <1>5 DEF OutInv, Settled, Writing
<1>7. ASSUME NEW t \in Task, Writing(t)'
      PROVE  Stage(t)'
  <2>1. Writing(t) /\ Out[t] # y /\ Out[t] \in OutQueue
    BY <1>1, <1>4, <1>7, Roles DEF Writing
  <2>2. out'[Out[t]] = out[Out[t]] /\ tail'[Out[t]] = tail[Out[t]] /\ at'[t] = at[t]
        /\ job'[t] = job[t]
    BY <1>1, <1>2, <2>1
  <2>3. Stage(t)
    BY <2>1 DEF OutInv
  <2>4. QED
    BY <2>2, <2>3 DEF Stage
<1>8. \A t \in Task : at'[t] = "reserve" => tail'[Out[t]] < Space
  BY <1>1, <1>2, <1>4, Roles DEF OutInv
<1>9. QED
  BY <1>2, <1>6, <1>7, <1>8 DEF OutInv

LEMMA OutStep ==
  ASSUME ReadsRespond, PayloadsFit, DataInv, LockInv, kernel = "cooperative", OutInv, [Next]_vars
  PROVE  OutInv'
<1>1. ASSUME UNCHANGED <<out, tail, job>>,
             \A t \in Task : /\ Writing(t)' <=> Writing(t)
                             /\ Writing(t) => at'[t] = at[t]
                             /\ at'[t] = "reserve" => at[t] = "reserve"
      PROVE  OutInv'
  <2>1. \A t \in Task : Writing(t) /\ Stage(t) => Stage(t)'
    BY <1>1 DEF Stage
  <2>2. QED
    BY <1>1, <2>1 DEF OutInv, Settled
<1>2. CASE UNCHANGED vars
  BY <1>1, <1>2 DEF vars, output, Writing
<1>3. ASSUME NEW t \in Task, Call(t) \/ q_lock(t) \/ q_lock_set(t) \/ q_unlock(t)
      PROVE  OutInv'
  <2>1. UNCHANGED <<out, tail, job>>
    BY <1>3 DEF Call, q_lock, q_lock_set, q_unlock, output
  <2>2. \A u \in Task : u # t => at'[u] = at[u]
    BY <1>3 DEF Call, q_lock, q_lock_set, q_unlock, LockInv, LockTypes
  <2>3. ~Writing(t) /\ ~Writing(t)' /\ at'[t] # "reserve"
    BY <1>3 DEF Call, q_lock, q_lock_set, q_unlock, LockInv, LockTypes, Writing, Got
  <2>4. QED
    BY <1>1, <2>1, <2>2, <2>3 DEF Writing
<1>4. ASSUME NEW t \in Task, alp_parse_message(t)
      PROVE  OutInv'
  BY <1>4, MoveStep, ProcStep, ItemStep, ReturnStep, HeaderStep DEF alp_parse_message
<1>5. ASSUME NEW y \in OutQueue, Drain(y)
      PROVE  OutInv'
  BY <1>5, DrainStep DEF DataInv
<1>6. ASSUME NEW x, Deliver(x) \/ q_blockwrite(x) \/ Unblock(x)
      PROVE  OutInv'
  BY <1>1, <1>6 DEF Deliver, q_blockwrite, Unblock, output, Writing
<1>7. QED
  BY <1>2, <1>3, <1>4, <1>5, <1>6 DEF Next, TaskStep

(* While a record is written the putcursor stays within the space, too.      *)
LEMMA ParseHolds ==
  ASSUME DataInv, LockInv, kernel = "cooperative", OutInv, NEW y \in OutQueue
  PROVE  tail[y] <= Space /\ (Mine(y) => Parses(Content(y)))
<1>1. CASE Settled(y)
  BY <1>1 DEF Settled, Whole, Content, Front
<1>2. ASSUME NEW t \in Task, Out[t] = y, Writing(t)
      PROVE  tail[y] <= Space /\ ~Mine(y)
  <2>1. Stage(t) /\ at[t] \in Parsing
    BY <1>2, WritingParses DEF OutInv
  <2>2. job[t].hdr \in Nat /\ tail[y] \in Int /\ Space \in Nat
    BY <2>1, AlpAssumption DEF Stage, Whole, DataInv
  <2>3. tail[y] <= Space
    BY <1>2, <2>1, <2>2 DEF Stage, Writing
  <2>4. Holds(t, y)
    BY <1>2, <2>1 DEF Holds
  <2>5. QED
    BY <1>2, <2>3, <2>4, Roles DEF LockInv, HeldLocked, Mine
<1>3. QED
  BY <1>1, <1>2 DEF OutInv

(* Where threads switch only as they wait, and whatever tasks share a queue, *)
(* however full it is when they answer, and although an input queue may      *)
(* offer a message that was treated already: what a driver finds in an       *)
(* output queue it may take can be read record by record, and what is        *)
(* written ends within its space.                                            *)
THEOREM OutputIsRecords ==
  ASSUME ReadsRespond, PayloadsFit
  PROVE  Spec => []OutputParses
<1> DEFINE Inv == DataInv /\ LockInv /\ (kernel = "cooperative" => OutInv)
<1>1. Init => Inv
  <2>1. SUFFICES ASSUME Init PROVE Inv
    OBVIOUS
  <2>2. DataInv /\ LockInv
    BY <2>1, DataInit, LockInit
  <2>3. \A y \in OutQueue : Settled(y)
    BY <2>1, NoneParses, AlpAssumption DEF Init, Settled, Whole
  <2>4. OutInv
    BY <2>1, <2>3 DEF Init, OutInv, Writing
  <2>5. QED
    BY <2>2, <2>4
<1>2. Inv /\ [Next]_vars => Inv'
  <2>1. SUFFICES ASSUME Inv, [Next]_vars PROVE Inv'
    OBVIOUS
  <2>2. DataInv' /\ LockInv'
    BY <2>1, DataStep, LockInvStep
  <2>3. kernel' = kernel
    BY <2>1, KernelKept DEF DataInv
  <2>4. QED
    BY <2>1, <2>2, <2>3, OutStep
<1>3. Inv => OutputParses
  BY ParseHolds DEF OutputParses
<1>4. QED
  BY <1>1, <1>2, <1>3, PTL DEF Spec

==============================================================================
