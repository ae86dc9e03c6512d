------------------------------ MODULE ChatClient ------------------------------
(***************************************************************************)
(* Chapter_18/chat_client.c: main() connects, starts a thread that sends   *)
(* what is typed and one that prints what comes, and joins them in this    *)
(* order.  The server's side of the connection may close or reset it at    *)
(* any time; whichever thread meets the reset first takes the error away   *)
(* from the other.  Texts are left out: what recv_msg() prints is in the   *)
(* module Texts.                                                           *)
(***************************************************************************)
EXTENDS Integers

CONSTANT MaxTyped       \* bound: lines the user types

\* What the constant must satisfy.
ChatClientAssumption == MaxTyped \in Nat

VARIABLES
  main, snd, rcv,       \* the control of the threads; main's is the process's
  tcp,          \* the connection: "up"; "fin" and "finw", the server closed it,
                \* and a write was answered by a reset; "reset" and "dead", it
                \* was reset, and a thread has seen the error
  incoming,     \* is there text to be read?
  typed         \* lines typed

vars == <<main, snd, rcv, tcp, incoming, typed>>

Over == {"exit", "sigpipe", "undefined"}

TypeOK ==
  /\ main \in {"connect", "create1", "create2", "join1", "join2"} \cup Over
  /\ snd \in {"none", "type", "write", "closed", "returned"}
  /\ rcv \in {"none", "read", "blocked", "print", "returned"}
  /\ tcp \in {"none", "up", "fin", "finw", "reset", "dead"}
  /\ incoming \in BOOLEAN /\ typed \in 0 .. MaxTyped
  \* the error of a reset is seen once: the other thread goes on
  /\ rcv = "returned" /\ snd # "closed" => tcp = "dead"

Init ==
  /\ main = "connect" /\ snd = "none" /\ rcv = "none"
  /\ tcp = "none" /\ incoming = FALSE /\ typed = 0

-----------------------------------------------------------------------------
(* main(), l.42-56. *)

MainGoes(from, to) == main = from /\ main' = to /\ UNCHANGED <<incoming, typed>>

Connect ==
  /\ \/ MainGoes("connect", "create1") /\ tcp' = "up"
     \/ MainGoes("connect", "exit") /\ UNCHANGED tcp
  /\ UNCHANGED <<snd, rcv>>

\* pthread_create(), whose failure goes unnoticed.
CreateSnd == MainGoes("create1", "create2") /\ snd' \in {"none", "type"} /\ UNCHANGED <<rcv, tcp>>
CreateRcv == MainGoes("create2", "join1") /\ rcv' \in {"none", "read"} /\ UNCHANGED <<snd, tcp>>

\* pthread_join() of a thread that was not created is undefined: it fails, or
\* faults.
JoinSnd ==
  /\ \/ snd \in {"none", "returned"} /\ MainGoes("join1", "join2")
     \/ snd = "none" /\ MainGoes("join1", "undefined")
  /\ UNCHANGED <<snd, rcv, tcp>>

\* Then sock is closed and main() returns.
JoinRcv ==
  /\ \/ rcv \in {"none", "returned"} /\ MainGoes("join2", "exit")
     \/ rcv = "none" /\ MainGoes("join2", "undefined")
  /\ UNCHANGED <<snd, rcv, tcp>>

-----------------------------------------------------------------------------
(* send_msg(), l.60-76. *)

SndGoes(from, to) == main \notin Over /\ snd = from /\ snd' = to /\ UNCHANGED <<rcv, incoming>>

\* At the end of stdin the line typed last is sent again, for ever.
Type == SndGoes("type", "write") /\ typed' \in {typed, typed + 1} \cap 0 .. MaxTyped /\ UNCHANGED <<main, tcp>>

Write ==
  \/ /\ SndGoes("write", "type") /\ UNCHANGED <<main, typed>>
     /\ \/ tcp = "up" /\ UNCHANGED tcp
        \/ tcp = "fin" /\ tcp' \in {"fin", "finw"}
        \/ tcp = "reset" /\ tcp' = "dead"
  \/ /\ SndGoes("write", "type") /\ UNCHANGED <<tcp, typed>>
     /\ tcp \in {"finw", "dead"} /\ main' = "sigpipe"

\* "q" closes sock.
Quit == SndGoes("type", "closed") /\ UNCHANGED <<main, tcp, typed>>

\* Mutation: the thread returns instead of ending the process.
SndReturns == SndGoes("closed", "returned") /\ UNCHANGED <<main, tcp, typed>>

Exit == SndGoes("closed", "closed") /\ main' = "exit" /\ UNCHANGED <<tcp, typed>>

-----------------------------------------------------------------------------
(* recv_msg(), l.79-94. *)

RcvGoes(from, to) == main \notin Over /\ rcv = from /\ rcv' = to /\ UNCHANGED <<main, snd, typed>>

\* A read() that waits when sock is closed goes on to wait; a later one fails.
Read ==
  \/ snd # "closed" /\ RcvGoes("read", "blocked") /\ UNCHANGED <<tcp, incoming>>
  \/ snd = "closed" /\ RcvGoes("read", "returned") /\ UNCHANGED <<tcp, incoming>>
  \/ incoming /\ RcvGoes("blocked", "print") /\ incoming' = FALSE /\ UNCHANGED tcp
  \* the end of file is printed too, again and again
  \/ ~ incoming /\ tcp \in {"fin", "finw", "dead"} /\ RcvGoes("blocked", "print") /\ UNCHANGED <<tcp, incoming>>
  \/ ~ incoming /\ tcp = "reset" /\ RcvGoes("blocked", "returned") /\ tcp' = "dead" /\ UNCHANGED incoming

Display == RcvGoes("print", "read") /\ UNCHANGED <<tcp, incoming>>

-----------------------------------------------------------------------------
(* The server (external). *)

ServerSends == tcp = "up" /\ incoming' = TRUE /\ UNCHANGED <<main, snd, rcv, tcp, typed>>
ServerEnds == tcp = "up" /\ tcp' \in {"fin", "reset"} /\ UNCHANGED <<main, snd, rcv, incoming, typed>>

MainStep == Connect \/ CreateSnd \/ CreateRcv \/ JoinSnd \/ JoinRcv
RcvStep == Read \/ Display

Next == MainStep \/ Type \/ Write \/ Quit \/ Exit \/ RcvStep \/ ServerSends \/ ServerEnds

\* The threads are run, but nobody has to type anything.
Spec ==
  Init /\ [][Next]_vars /\ WF_vars(MainStep) /\ WF_vars(Write \/ Exit) /\ WF_vars(RcvStep)

-----------------------------------------------------------------------------

(* The user ends the process and nobody else: "q" does, whatever the       *)
(* receiving thread is doing then - it may wait in a read() on the socket  *)
(* that was closed, spin on the end of file, or have returned, while       *)
(* main() waits for both threads (l.52-53, 69-70) - and, unless a thread   *)
(* could not be created, nothing does but "q" or a line typed for a server *)
(* that has gone.  That the server closes or resets the connection is no   *)
(* end.                                                                    *)
UserEndsClient ==
  /\ snd = "closed" ~> main \in Over
  /\ [][main \notin Over /\ main' \in Over =>
         main = "connect" \/ snd \in {"none", "write", "closed"}]_vars
=============================================================================
