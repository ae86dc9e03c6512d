------------------------------- MODULE CopyName -------------------------------
(***************************************************************************)
(* How the clients of the file service (Assignment_week11) and of Quiz2    *)
(* name the copy they make: a default name, else a numbered one, the first *)
(* for which stat() finds nothing; then fopen() for writing, which empties *)
(* a file that is there.  The clients share a directory.                   *)
(*                                                                         *)
(* Name 0 is the default, name k+1 the one with the number k.              *)
(***************************************************************************)
EXTENDS Integers

CONSTANTS
  Clnt,         \* the clients, each run once
  MaxName,      \* bound: the last name
  None

\* What the constants must satisfy.
CopyAssumption == MaxName \in Nat /\ \A who \in SUBSET (Clnt \cup {"old"}) : who # None

VARIABLES
  present,      \* the names that are taken when the clients start
  dir,          \* per name: whose data the file has, or None if there is none
  name, pc      \* per client: the name it looks at or has taken, and control

vars == <<present, dir, name, pc>>

TypeOK ==
  /\ dir \in [0 .. MaxName -> (SUBSET (Clnt \cup {"old"})) \cup {None}]
  /\ name \in [Clnt -> 0 .. MaxName] /\ present \subseteq 0 .. MaxName - 1
  /\ pc \in [Clnt -> {"look", "open", "receive", "done", "killed"}]

Init ==
  /\ present \in SUBSET (0 .. MaxName - 1)
  /\ dir = [n \in 0 .. MaxName |-> IF n \in present THEN {"old"} ELSE None]
  /\ name = [c \in Clnt |-> 0] /\ pc = [c \in Clnt |-> "look"]

Exists(n) == dir[n] # None

Goes(c, from, to) == pc[c] = from /\ pc' = [pc EXCEPT ![c] = to] /\ UNCHANGED present

\* Mutation: only the default name is looked at.
LookOnce(c) ==
  /\ Goes(c, "look", "open") /\ name' = [name EXCEPT ![c] = IF Exists(0) THEN 1 ELSE 0]
  /\ UNCHANGED dir

Look(c) ==
  /\ \/ ~ Exists(name[c]) /\ Goes(c, "look", "open") /\ UNCHANGED name
     \/ /\ Exists(name[c]) /\ name[c] < MaxName /\ Goes(c, "look", "look")
        /\ name' = [name EXCEPT ![c] = @ + 1]
  /\ UNCHANGED dir

Open(c) == Goes(c, "open", "receive") /\ dir' = [dir EXCEPT ![name[c]] = {}] /\ UNCHANGED name

\* The file is written from its beginning.
Receive(c) == Goes(c, "receive", "done") /\ dir' = [dir EXCEPT ![name[c]] = @ \cup {c}] /\ UNCHANGED name

Kill(c) == pc[c] # "done" /\ pc[c] # "killed" /\ Goes(c, pc[c], "killed") /\ UNCHANGED <<dir, name>>

Next == \E c \in Clnt : Look(c) \/ Open(c) \/ Receive(c) \/ Kill(c)

Spec == Init /\ [][Next]_vars

-----------------------------------------------------------------------------

(* What was in the directory before the clients came is never overwritten, *)
(* whichever names are taken and however the clients overlap.              *)
OldFilesKept == \A n \in present : dir[n] = {"old"}

(* The comment of tcp_fileService_client.c:43: if a file of the same name  *)
(* is there already, a file with a new name is made.                       *)
OneCopyEach ==
  \A c, d \in Clnt : pc[c] = "done" /\ pc[d] = "done" /\ name[c] = name[d] => c = d
=============================================================================
