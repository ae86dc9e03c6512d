------------------------------- MODULE PipePair -------------------------------
(***************************************************************************)
(* A parent and a child that talk through two pipes: Chapter_11/pipe.c,    *)
(* where each closes the ends it does not need as it goes, and             *)
(* Review_FinalExam/C11_Pipe.c, where nobody closes anything.  Both        *)
(* processes hold all four ends after fork().  A read() of an empty pipe   *)
(* waits while anybody can write to it; a write() to a pipe nobody can     *)
(* read ends the process with SIGPIPE.  Either process may be killed at    *)
(* any time.                                                               *)
(*                                                                         *)
(* A program is the sequence of its calls: <<"write", k>>, <<"read", k>>   *)
(* and <<"close", k, side>> of pipe k.                                     *)
(***************************************************************************)
EXTENDS Integers, Sequences

VARIABLES
  code,         \* which of the two programs
  status,       \* per process: "none" before fork(), "run", or how it ended
  rest,         \* per process: the calls it has still to make
  ends,         \* the open ends: <<process, pipe, side>>
  pipe          \* per pipe: the messages in it

vars == <<code, status, rest, ends, pipe>>

Proc == {"parent", "child"}
Other(p) == IF p = "parent" THEN "child" ELSE "parent"

\* Mutation: the parent keeps its writing end of the second pipe.
PipeKeepsEnd == [
  parent |-> << <<"write", 1>>, <<"close", 1, "read">>, <<"read", 2>> >>,
  child |-> << <<"close", 1, "write">>, <<"read", 1>>, <<"write", 2>>, <<"close", 2, "read">> >>]

PipeCalls == [
  parent |-> << <<"write", 1>>, <<"close", 1, "read">>, <<"close", 2, "write">>, <<"read", 2>> >>,
  child |-> << <<"close", 1, "write">>, <<"read", 1>>, <<"write", 2>>, <<"close", 2, "read">> >>]

C11PipeCalls == [
  parent |-> << <<"read", 1>>, <<"write", 2>> >>, child |-> << <<"write", 1>>, <<"read", 2>> >>]

Calls == IF code = "pipe.c" THEN PipeCalls ELSE C11PipeCalls
\* All calls of each process: only the parent forks.
Whole == [Calls EXCEPT !["parent"] = << <<"fork">> >> \o @]

AllEnds(p) == {p} \X {1, 2} \X {"read", "write"}

TypeOK ==
  /\ code \in {"pipe.c", "C11_Pipe.c"}
  /\ status \in [Proc -> {"none", "run", "exit", "killed", "sigpipe"}]
  /\ DOMAIN rest = Proc
  /\ \A p \in Proc : \E k \in 0 .. Len(Whole[p]) : rest[p] = SubSeq(Whole[p], k + 1, Len(Whole[p]))
  /\ ends \subseteq UNION {AllEnds(p) : p \in {p \in Proc : status[p] = "run"}}
  /\ pipe \in [{1, 2} -> 0 .. 1]

Init ==
  /\ code \in {"pipe.c", "C11_Pipe.c"}
  /\ status = [parent |-> "run", child |-> "none"]
  /\ rest = Whole
  /\ ends = AllEnds("parent") /\ pipe = [k \in {1, 2} |-> 0]

Users(k, side) == {p \in Proc : <<p, k, side>> \in ends}

\* p makes its next call, which is named call and is on pipe k.
Makes(p, call) ==
  /\ status[p] = "run" /\ rest[p] # << >> /\ Head(rest[p])[1] = call
  /\ rest' = [rest EXCEPT ![p] = Tail(@)] /\ UNCHANGED code
Pipe(p) == Head(rest[p])[2]

\* p ends, with all its descriptors.
Ends(p, how) == status' = [status EXCEPT ![p] = how] /\ ends' = ends \ AllEnds(p)

\* Of a fork() that fails only pipe.c takes notice.
Fork(p) ==
  /\ Makes(p, "fork") /\ UNCHANGED pipe
  /\ \/ status' = [status EXCEPT !.child = "run"] /\ ends' = ends \cup AllEnds("child")
     \/ code = "pipe.c" /\ Ends(p, "exit")
     \/ code = "C11_Pipe.c" /\ UNCHANGED <<status, ends>>

Write(p) ==
  /\ Makes(p, "write")
  /\ IF Users(Pipe(p), "read") = {} THEN Ends(p, "sigpipe") /\ UNCHANGED pipe
       ELSE pipe' = [pipe EXCEPT ![Pipe(p)] = @ + 1] /\ UNCHANGED <<status, ends>>

Read(p) ==
  /\ Makes(p, "read") /\ (pipe[Pipe(p)] > 0 \/ Users(Pipe(p), "write") = {})
  /\ pipe' = [pipe EXCEPT ![Pipe(p)] = 0] /\ UNCHANGED <<status, ends>>

Close(p) ==
  /\ Makes(p, "close") /\ ends' = ends \ {<<p, Pipe(p), Head(rest[p])[3]>>}
  /\ UNCHANGED <<status, pipe>>

Exit(p) == status[p] = "run" /\ rest[p] = << >> /\ Ends(p, "exit") /\ UNCHANGED <<code, rest, pipe>>
Kill(p) == status[p] = "run" /\ Ends(p, "killed") /\ UNCHANGED <<code, rest, pipe>>

ProcStep(p) == Fork(p) \/ Write(p) \/ Read(p) \/ Close(p) \/ Exit(p)

Next == \E p \in Proc : ProcStep(p) \/ Kill(p)

Spec == Init /\ [][Next]_vars /\ \A p \in Proc : WF_vars(ProcStep(p))

-----------------------------------------------------------------------------

(* Nobody waits for ever and nobody is ended by SIGPIPE, whoever is killed *)
(* when.  In pipe.c this needs each close(): who reads has closed its own  *)
(* writing end (l.52, l.87), and gives up its reading end only once it has *)
(* written (l.59-60, l.81-82), so that it is itself the last reader.  In   *)
(* C11_Pipe.c a process is left waiting, and only then, if the other is    *)
(* killed or could not be forked.                                          *)
PipesEnd ==
  \A p \in Proc :
    status[p] = "run" ~>
      \/ status[p] \in {"exit", "killed"}
      \/ code = "C11_Pipe.c" /\ status[Other(p)] \in {"none", "killed"}
=============================================================================
