---------------------------- MODULE FileService ----------------------------
(***************************************************************************)
(* Assignment_week11: tcp_fileService_server.c forks a child per client;   *)
(* the child receives a file name, sends the file block by block, ends its *)
(* side with shutdown(SHUT_WR) and waits for the client's thanks.          *)
(* tcp_fileService_client.c sends the name, reads to end of file, thanks   *)
(* and closes.                                                             *)
(*                                                                         *)
(* Files are known by their size; the name is one message that arrives     *)
(* whole.  How the client names its copy is the module CopyName.           *)
(***************************************************************************)
EXTENDS Integers, Sequences

CONSTANTS
  Clnt,         \* the clients, each run once
  Size,         \* per name: the size of that file, or NoFile
  BUF_SIZE,     \* the size of a block
  NoFile, None

ASSUME FileAssumption ==
  /\ BUF_SIZE \in Nat \ {0} /\ NoFile \notin Nat
  /\ (\A name \in DOMAIN Size : Size[name] \in Nat \cup {NoFile}) /\ None \notin Clnt

VARIABLES
  wanted,       \* per client: the name its user has typed
  cl,           \* per client: its control
  rcvd,         \* per client: units of the file it has read
  backlog,      \* connections not accepted yet
  ppc, psock,   \* the parent: its control and clnt_sd
  held,         \* per client: does the parent hold its socket?
  child,        \* per client: the control of its child
  out,          \* per client: units written to it
  eof           \* per client: has the server ended its direction?

parent == <<backlog, ppc, psock, held>>
vars == <<wanted, cl, rcvd, parent, child, out, eof>>

\* A client that crashed counts as killed.
Over == {"done", "killed"}
Working == {"recv", "open", "read", "freed", "bye", "thanks", "close"}

TypeOK ==
  /\ wanted \in [Clnt -> DOMAIN Size]
  /\ cl \in [Clnt -> {"connect", "name", "recv", "thanks"} \cup Over]
  /\ out \in [Clnt -> Nat] /\ rcvd \in [Clnt -> Nat] /\ {eof, held} \subseteq [Clnt -> BOOLEAN]
  /\ \A c \in Clnt : rcvd[c] <= out[c] /\ (Size[wanted[c]] # NoFile => out[c] <= Size[wanted[c]])
  /\ backlog \in Seq(Clnt) /\ ppc \in {"accept", "fork", "close"} /\ psock \in Clnt \cup {None}
  /\ child \in [Clnt -> Working \cup {"none", "spin", "crashed"}]

Init ==
  /\ wanted \in [Clnt -> DOMAIN Size]
  /\ cl = [c \in Clnt |-> "connect"] /\ child = [c \in Clnt |-> "none"]
  /\ rcvd = [c \in Clnt |-> 0] /\ out = rcvd
  /\ held = [c \in Clnt |-> FALSE] /\ eof = held
  /\ backlog = << >> /\ ppc = "accept" /\ psock = None

Gone(c) == cl[c] \in Over

\* Every copy the server has of the socket is closed.
Closed(c) ==
  /\ c # psock /\ ~ held[c] /\ child[c] \notin Working
  /\ \A k \in DOMAIN backlog : backlog[k] # c

-----------------------------------------------------------------------------
(* The client, l.67-98. *)

\* A step that changes nothing but the client's control.
ClientGoes(c, from, to) ==
  cl[c] = from /\ cl' = [cl EXCEPT ![c] = to] /\ UNCHANGED <<wanted, rcvd, parent, child, out, eof>>

Connect(c) ==
  /\ cl[c] = "connect" /\ cl' = [cl EXCEPT ![c] = "name"]
  /\ backlog' = Append(backlog, c)
  /\ UNCHANGED <<wanted, rcvd, ppc, psock, held, child, out, eof>>

SendName(c) == ClientGoes(c, "name", "recv")

RecvFile(c) ==
  /\ cl[c] = "recv"
  /\ \E k \in 1 .. BUF_SIZE : rcvd[c] + k <= out[c] /\ rcvd' = [rcvd EXCEPT ![c] = @ + k]
  /\ UNCHANGED <<wanted, cl, parent, child, out, eof>>

RecvEof(c) == rcvd[c] = out[c] /\ (eof[c] \/ Closed(c)) /\ ClientGoes(c, "recv", "thanks")

\* The server closed the socket with the name unread, which resets the
\* connection: read() is -1 and fwrite() is asked for that many bytes.
RecvReset(c) == child[c] = "none" /\ Closed(c) /\ ClientGoes(c, "recv", "killed")

\* write() of the thanks to a socket that was reset raises SIGPIPE.
Thank(c) ==
  \/ ClientGoes(c, "thanks", "done")
  \/ Closed(c) /\ ClientGoes(c, "thanks", "killed")

Kill(c) == \E s \in {"name", "recv"} : ClientGoes(c, s, "killed")

-----------------------------------------------------------------------------
(* The parent, l.62-83 and l.153-157. *)

Accept ==
  /\ ppc = "accept" /\ backlog # << >> /\ ppc' = "fork"
  /\ psock' = Head(backlog) /\ backlog' = Tail(backlog)
  /\ held' = [held EXCEPT ![Head(backlog)] = TRUE]
  /\ UNCHANGED <<wanted, cl, rcvd, child, out, eof>>

Fork ==
  /\ ppc = "fork" /\ ppc' = "close"
  /\ child' = [child EXCEPT ![psock] = "recv"]
  /\ UNCHANGED <<wanted, cl, rcvd, backlog, psock, held, out, eof>>

NextClient ==
  /\ held' = [held EXCEPT ![psock] = FALSE] /\ ppc' = "accept" /\ psock' = None
  /\ UNCHANGED <<wanted, cl, rcvd, backlog, child, out, eof>>

\* Mutation: the parent waits for the child before it goes on.
CloseWaits == ppc = "close" /\ child[psock] = "crashed" /\ NextClient

\* The parent closes its copy, also when fork() has failed.
CloseClnt == ppc \in {"fork", "close"} /\ NextClient

-----------------------------------------------------------------------------
(* The child of client c, l.85-152. *)

ChildGoes(c, from, to) == child[c] = from /\ child' = [child EXCEPT ![c] = to]
Silent == UNCHANGED <<wanted, cl, rcvd, parent, out, eof>>

\* write() of k units: to a client that is gone they are lost, or SIGPIPE ends
\* the child.
Write(c, k, from, to) ==
  /\ ChildGoes(c, from, to) \/ (Gone(c) /\ ChildGoes(c, from, "crashed"))
  /\ out' = IF Gone(c) THEN out ELSE [out EXCEPT ![c] = @ + k]
  /\ UNCHANGED <<wanted, cl, rcvd, parent, eof>>

\* recv() returns the name, or nothing from a client that is gone: then the
\* empty name is not found.
RecvName(c) ==
  /\ \/ cl[c] = "recv" /\ ChildGoes(c, "recv", "open")
     \/ Gone(c) /\ \E s \in {"open", "crashed"} : ChildGoes(c, "recv", s)
  /\ Silent

\* The file is not there: the client is told (which is not part of any file)
\* and closed, and then the child reads from fp = NULL all the same.
MissingFile(c) == Size[wanted[c]] = NoFile /\ ChildGoes(c, "open", "crashed") /\ Silent
OpenFile(c) == Size[wanted[c]] # NoFile /\ ChildGoes(c, "open", "read") /\ Silent

\* Mutations: what is left after the last full block is not written; the whole
\* buffer is written, however little was read.
DropLastBlock(c) == ChildGoes(c, "read", "bye") /\ Size[wanted[c]] < BUF_SIZE /\ Silent
SendWholeBuffer(c) == Write(c, BUF_SIZE, "read", "bye") /\ Size[wanted[c]] < BUF_SIZE

\* Fewer than BUF_SIZE units are left: the last write.
SendLastBlock(c) == child[c] = "read" /\ Size[wanted[c]] < BUF_SIZE /\ Write(c, Size[wanted[c]], "read", "bye")

\* A full block is written, and the file is closed inside the loop.
SendFullBlock(c) == Write(c, BUF_SIZE, "read", "freed") /\ Size[wanted[c]] >= BUF_SIZE

\* fread() from the closed stream is undefined: it finds nothing to read, or
\* follows the freed FILE into a fault.
ReadFreed(c) == (\E s \in {"bye", "crashed"} : ChildGoes(c, "freed", s)) /\ Silent


Shutdown(c) ==
  /\ ChildGoes(c, "bye", "thanks") /\ eof' = [eof EXCEPT ![c] = TRUE]
  /\ UNCHANGED <<wanted, cl, rcvd, parent, out>>

ReadThanks(c) == Gone(c) /\ ChildGoes(c, "thanks", "close") /\ Silent

\* The child does not exit: it goes back to accept(), on the socket it has
\* closed, for ever.
CloseAndSpin(c) == ChildGoes(c, "close", "spin") /\ Silent

-----------------------------------------------------------------------------

ClientStep(c) ==
  \/ SendName(c) \/ RecvFile(c) \/ RecvEof(c) \/ RecvReset(c) \/ Thank(c)

ParentStep == Accept \/ Fork \/ CloseClnt

ChildStep(c) ==
  \/ RecvName(c) \/ MissingFile(c) \/ OpenFile(c) \/ SendLastBlock(c) \/ SendFullBlock(c)
  \/ ReadFreed(c) \/ Shutdown(c) \/ ReadThanks(c) \/ CloseAndSpin(c)

Next ==
  \/ \E c \in Clnt : Connect(c) \/ ClientStep(c) \/ Kill(c) \/ ChildStep(c)
  \/ ParentStep

\* Every process that can go on is run; nobody has to connect or is killed.
Spec ==
  /\ Init /\ [][Next]_vars /\ WF_vars(ParentStep)
  /\ \A c \in Clnt : WF_vars(ClientStep(c)) /\ WF_vars(ChildStep(c))

-----------------------------------------------------------------------------

(* A file smaller than a block arrives whole, whenever a child served the  *)
(* client and nobody was killed.                                           *)
SmallFilesWhole ==
  \A c \in Clnt :
    cl[c] = "done" /\ child[c] # "none" /\ Size[wanted[c]] \in 0 .. BUF_SIZE - 1
      => rcvd[c] = Size[wanted[c]]


(* Children that have done their work, and never exit, keep nobody else    *)
(* from being accepted.                                                    *)
BacklogServed ==
  \A c \in Clnt : (\E k \in DOMAIN backlog : backlog[k] = c) ~> held[c]

(* The comment of l.101: the file is opened to send it to the client.      *)
FileArrivesWhole ==
  \A c \in Clnt :
    cl[c] = "done" /\ child[c] # "none" /\ Size[wanted[c]] # NoFile
      => rcvd[c] = Size[wanted[c]]
=============================================================================
