---------------------------- MODULE FileSessions ----------------------------
(***************************************************************************)
(* What a user of the file layer is promised, without the table of file    *)
(* pointers, the flags or the callbacks: a session on a file starts from   *)
(* the committed length, is private while it lasts, and replaces the       *)
(* committed length when it ends.  Nothing else changes a committed length.*)
(***************************************************************************)
EXTENDS Integers

CONSTANTS Client, File, NoSession

VARIABLES
  session,    (* The session of each client: a file and a length, or none. *)
  committed   (* The length of each file outside any session.              *)

vars == <<session, committed>>

Session == [file : File, length : Nat]

TypeOK ==
  /\ session \in [Client -> Session \cup {NoSession}]
  /\ committed \in [File -> Nat]

Init ==
  /\ session = [c \in Client |-> NoSession]
  /\ committed = [f \in File |-> 0]

Begin(c, f) ==
  /\ session[c] = NoSession
  /\ session' = [session EXCEPT ![c] = [file |-> f, length |-> committed[f]]]
  /\ UNCHANGED committed

(* The client gives its file another length, unseen by the others. *)
Resize(c) ==
  /\ session[c] # NoSession
  /\ session'[c] \in Session
  /\ session' = [session EXCEPT ![c] = [file |-> @.file, length |-> session'[c].length]]
  /\ UNCHANGED committed

End(c) ==
  /\ session[c] # NoSession
  /\ committed' = [committed EXCEPT ![session[c].file] = session[c].length]
  /\ session' = [session EXCEPT ![c] = NoSession]

Next == \E c \in Client : Resize(c) \/ End(c) \/ \E f \in File : Begin(c, f)

Spec == Init /\ [][Next]_vars
=============================================================================
