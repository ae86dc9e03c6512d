----------------------------- MODULE EchoStore -----------------------------
(***************************************************************************)
(* Chapter_11/echo_storeserv.c with its client echo_mpclient.c.  The       *)
(* server forks a saver, which reads a pipe SAVES times and writes what it *)
(* read to a file, and a child per client, which echoes what it reads and  *)
(* writes it to the pipe.  SIGCHLD makes the parent reap ONE child.  The   *)
(* client is two processes on one socket: a writer that ends with          *)
(* shutdown(SHUT_WR) and a reader that ends at end of file.                *)
(* The saver's fwrite() fills a buffer that only fclose() writes to disk.  *)
(*                                                                         *)
(* Data are units numbered per client; a read() returns up to BUF_SIZE of  *)
(* those that are there.                                                   *)
(***************************************************************************)
EXTENDS Integers, Sequences

CONSTANTS
  Clnt,         \* the clients, each connecting once
  BUF_SIZE,     \* units one read() returns at most
  SAVES,        \* reads the saver makes before it exits (10 in the code)
  PipeCap,      \* units the pipe holds
  MaxSent,      \* bound, per client: units it sends
  None

ASSUME StoreAssumption ==
  /\ BUF_SIZE \in Nat \ {0} /\ SAVES \in Nat \ {0} /\ MaxSent \in [Clnt -> Nat]
  /\ PipeCap \in Nat /\ PipeCap >= BUF_SIZE     \* 65536 and 30
  /\ None \notin Clnt

VARIABLES
  link,         \* per client: the connection, as its child sees it
  sent, taken,  \* per client: units written to the socket, units read() returned
  got,          \* per client: units echoed to it
  writer, reader,       \* per client: its two processes
  backlog,              \* connections not accepted yet
  ppc, psock,           \* the parent: its control and clnt_sock
  holders,      \* per client: the server processes with its socket open
  child,        \* per client: the control of its child
  len,          \* per client: str_len of its child
  pipe, file,   \* the units in the pipe, and those the saver gave to fwrite()
  disk,         \* the content of echomsg.txt
  saves, saver, \* the saver: i, and whether it runs
  zombies, sigchld,     \* children not waited for; is SIGCHLD pending?
  merged        \* history: SIGCHLDs raised while one was pending

client == <<link, sent, writer, reader, backlog>>
parent == <<ppc, psock>>
serving == <<taken, got, child, len, holders>>
saving == <<pipe, file, disk, saves, saver>>
signals == <<zombies, sigchld, merged>>
vars == <<client, parent, serving, saving, signals>>

Unit == Clnt \X (Nat \ {0})
Process == {"none", "run", "done", "killed"}

TypeOK ==
  /\ link \in [Clnt -> {"none", "open", "half", "gone", "reset", "rst"}] /\ backlog \in Seq(Clnt)
  /\ {sent, taken, got} \subseteq [Clnt -> Nat] /\ len \in [Clnt -> 0 .. BUF_SIZE]
  /\ {writer, reader} \subseteq [Clnt -> Process]
  /\ ppc \in {"accept", "fork", "close"} /\ psock \in Clnt \cup {None}
  /\ holders \in [Clnt -> SUBSET {"parent", "child"}]
  /\ child \in [Clnt -> {"none", "read", "echo", "store", "exited"}]
  /\ {pipe, file, disk} \subseteq Seq(Unit) /\ Len(pipe) <= PipeCap
  /\ saves \in 0 .. SAVES /\ saver \in {"run", "exited", "killed"}
  /\ zombies \in Nat /\ sigchld \in BOOLEAN /\ merged \in Nat

Init ==
  /\ link = [c \in Clnt |-> "none"] /\ writer = link /\ reader = link /\ child = link
  /\ sent = [c \in Clnt |-> 0] /\ taken = sent /\ got = sent /\ len = sent
  /\ backlog = << >> /\ ppc = "accept" /\ psock = None /\ holders = [c \in Clnt |-> {}]
  /\ pipe = << >> /\ file = << >> /\ disk = << >> /\ saves = 0 /\ saver = "run"
  /\ zombies = 0 /\ sigchld = FALSE /\ merged = 0

-----------------------------------------------------------------------------
(* The client, echo_mpclient.c. *)

\* connect() and fork(): both processes run.
Connect(c) ==
  /\ link[c] = "none" /\ link' = [link EXCEPT ![c] = "open"]
  /\ writer' = [writer EXCEPT ![c] = "run"] /\ reader' = [reader EXCEPT ![c] = "run"]
  /\ backlog' = Append(backlog, c)
  /\ UNCHANGED <<sent, parent, serving, saving, signals>>

\* write_routine, l.81.
WriteLine(c) ==
  /\ writer[c] = "run"
  /\ \E k \in 1 .. BUF_SIZE : sent[c] + k <= MaxSent[c] /\ sent' = [sent EXCEPT ![c] = @ + k]
  /\ UNCHANGED <<link, writer, reader, backlog, parent, serving, saving, signals>>

\* The writer ends, and leaves the connection in state s.
WriterEnds(c, s) ==
  /\ writer[c] = "run" /\ writer' = [writer EXCEPT ![c] = "done"]
  /\ link' = [link EXCEPT ![c] = s]
  /\ UNCHANGED <<sent, reader, backlog, parent, serving, saving, signals>>

\* Mutation: "q" closes the socket, of which the reader holds a copy.
QuitByClose(c) == WriterEnds(c, link[c])

\* "q": shutdown(SHUT_WR) tells the server although the reader keeps a copy.
Quit(c) == WriterEnds(c, IF link[c] = "open" THEN "half" ELSE link[c])

\* read_routine returns at end of file: every copy of the socket the server
\* has is closed.
ReaderEof(c) ==
  /\ reader[c] = "run" /\ reader' = [reader EXCEPT ![c] = "done"]
  /\ c # psock /\ holders[c] = {} /\ \A k \in DOMAIN backlog : backlog[k] # c
  /\ UNCHANGED <<link, sent, writer, backlog, parent, serving, saving, signals>>

\* The terminal's interrupt ends both processes: a FIN, or a RST if echoes
\* were left unread.
Interrupt(c) ==
  /\ link[c] \in {"open", "half"}
  /\ \E s \in {"gone", "reset"} : link' = [link EXCEPT ![c] = s]
  /\ writer' = [writer EXCEPT ![c] = "killed"] /\ reader' = [reader EXCEPT ![c] = "killed"]
  /\ UNCHANGED <<sent, backlog, parent, serving, saving, signals>>

-----------------------------------------------------------------------------
(* The parent, l.73-102 and l.108-114. *)

Accept ==
  /\ ppc = "accept" /\ backlog # << >> /\ ppc' = "fork"
  /\ psock' = Head(backlog) /\ backlog' = Tail(backlog)
  /\ holders' = [holders EXCEPT ![Head(backlog)] = {"parent"}]
  /\ UNCHANGED <<link, sent, writer, reader, taken, got, child, len, saving, signals>>

\* fork() may fail: then the parent just closes the socket.
Fork ==
  /\ ppc = "fork" /\ ppc' = "close"
  /\ \/ /\ child' = [child EXCEPT ![psock] = "read"]
        /\ holders' = [holders EXCEPT ![psock] = @ \cup {"child"}]
     \/ UNCHANGED <<child, holders>>
  /\ UNCHANGED <<client, psock, taken, got, len, saving, signals>>

CloseClnt ==
  /\ ppc = "close" /\ ppc' = "accept" /\ psock' = None
  /\ holders' = [holders EXCEPT ![psock] = @ \ {"parent"}]
  /\ UNCHANGED <<client, taken, got, child, len, saving, signals>>

\* The handler runs and leaves n zombies.
Reap(n) == sigchld /\ sigchld' = FALSE /\ zombies' = n /\ UNCHANGED <<client, parent, serving, saving, merged>>

\* Mutation: waitpid is given the pid of the child forked last.
ReapLastForked == \E n \in {zombies, zombies - 1} : Reap(n)

\* read_childproc: one waitpid(-1, .., WNOHANG), however many children ended.
\* It interrupts accept(), which fails and is tried again.
ReadChildproc == Reap(IF zombies > 0 THEN zombies - 1 ELSE 0)

\* A child of the parent ends: it becomes a zombie and SIGCHLD is raised,
\* which is lost on a SIGCHLD that is still pending.
ProcessEnds ==
  /\ zombies' = zombies + 1 /\ sigchld' = TRUE
  /\ merged' = IF sigchld THEN merged + 1 ELSE merged

-----------------------------------------------------------------------------
(* The child of a client, l.84-96. *)

ChildGoes(c, from, to) == child[c] = from /\ child' = [child EXCEPT ![c] = to]

ChildRead(c) ==
  /\ ChildGoes(c, "read", "echo")
  /\ \E k \in 1 .. BUF_SIZE :
       /\ taken[c] + k <= sent[c]
       /\ taken' = [taken EXCEPT ![c] = @ + k] /\ len' = [len EXCEPT ![c] = k]
  /\ UNCHANGED <<client, parent, got, holders, saving, signals>>

\* read() returns -1 once, and both write() calls of -1 bytes fail.
ChildReadError(c) ==
  /\ child[c] = "read" /\ taken[c] = sent[c]
  /\ link[c] = "reset" /\ link' = [link EXCEPT ![c] = "rst"]
  /\ UNCHANGED <<sent, writer, reader, backlog, parent, serving, saving, signals>>

ChildEnds(c) == holders' = [holders EXCEPT ![c] = @ \ {"child"}] /\ ProcessEnds

AtEof(c) == taken[c] = sent[c] /\ link[c] \in {"half", "gone", "rst"}

\* Mutation: a read that does not fill the buffer ends the loop as well.
ChildEofOnShortRead(c) ==
  /\ ChildGoes(c, "read", "exited") /\ (AtEof(c) \/ len[c] \in 1 .. BUF_SIZE - 1)
  /\ ChildEnds(c) /\ UNCHANGED <<client, parent, taken, got, len, saving>>

ChildEof(c) ==
  /\ ChildGoes(c, "read", "exited") /\ AtEof(c)
  /\ ChildEnds(c) /\ UNCHANGED <<client, parent, taken, got, len, saving>>

\* write(clnt_sock, ..): echoed, lost on a client that is gone (which answers
\* with a RST), refused once, or answered by SIGPIPE.
ChildEcho(c) ==
  /\ ChildGoes(c, "echo", IF link[c] = "rst" THEN "exited" ELSE "store")
  /\ got' = IF link[c] \in {"open", "half"} THEN [got EXCEPT ![c] = @ + len[c]] ELSE got
  /\ link' = IF link[c] \in {"gone", "reset"} THEN [link EXCEPT ![c] = "rst"] ELSE link
  /\ IF link[c] = "rst" THEN ChildEnds(c) ELSE UNCHANGED <<holders, signals>>
  /\ UNCHANGED <<sent, writer, reader, backlog, parent, taken, len, saving>>

InHand(c) == [k \in 1 .. len[c] |-> <<c, taken[c] - len[c] + k>>]

\* The first k of the units in hand go to the pipe, if there is room for them.
Store(c, k) ==
  /\ ChildGoes(c, "store", "read")
  /\ Len(pipe) + k <= PipeCap /\ pipe' = pipe \o SubSeq(InHand(c), 1, k)
  /\ UNCHANGED <<client, parent, taken, got, len, holders, file, disk, saves, saver, signals>>

\* Mutation: a short write to a full pipe goes unnoticed.
ChildStoreShort(c) == Store(c, IF PipeCap - Len(pipe) < len[c] THEN PipeCap - Len(pipe) ELSE len[c])

\* write(fds[1], ..) is atomic and waits for room; there is always a process
\* with fds[0] open, so it is never refused.
ChildStore(c) == Store(c, len[c])

-----------------------------------------------------------------------------
(* The saver, l.57-71. *)

Readable == IF Len(pipe) < BUF_SIZE THEN Len(pipe) ELSE BUF_SIZE

\* Where the loop ends after n reads.  fwrite() only fills the stream's buffer,
\* which ten reads of BUF_SIZE do not exceed.
Copies(n) ==
  /\ saver = "run" /\ saves < n /\ saves' = saves + 1 /\ pipe # << >>
  /\ file' = file \o SubSeq(pipe, 1, Readable)
  /\ pipe' = SubSeq(pipe, Readable + 1, Len(pipe))
  /\ UNCHANGED <<client, parent, serving, disk, saver, signals>>

\* Mutation: the loop runs while i <= SAVES.
SaverOnceMore == Copies(SAVES + 1)
SaverCopies == Copies(SAVES)

SaverEnds(how, content) ==
  /\ saver = "run" /\ saver' = how /\ disk' = content /\ ProcessEnds
  /\ UNCHANGED <<client, parent, serving, pipe, file, saves>>

\* Mutation: the loop also ends when there is nothing more to read for now.
SaverGivesUp == saves > 0 /\ pipe = << >> /\ SaverEnds("exited", file)

\* fclose() writes the buffer out; a saver that is killed never does.
SaverExits == saves = SAVES /\ SaverEnds("exited", file)
KillSaver == SaverEnds("killed", disk)

-----------------------------------------------------------------------------

ClientStep(c) ==
  \/ Connect(c) \/ WriteLine(c) \/ Quit(c) \/ ReaderEof(c) \/ Interrupt(c)

ParentStep == Accept \/ Fork \/ CloseClnt \/ ReadChildproc

ChildStep(c) ==
  \/ ChildRead(c) \/ ChildReadError(c) \/ ChildEof(c) \/ ChildEcho(c) \/ ChildStore(c)

SaverStep == SaverCopies \/ SaverExits

Next ==
  \/ \E c \in Clnt : ClientStep(c)
  \/ ParentStep
  \/ \E c \in Clnt : ChildStep(c)
  \/ SaverStep \/ KillSaver

\* The scheduler runs every process of the server, and a reader that has
\* something to read.  Nobody has to connect, type or quit.
Spec ==
  /\ Init /\ [][Next]_vars
  /\ WF_vars(ParentStep) /\ WF_vars(SaverStep)
  /\ \A c \in Clnt : WF_vars(ChildStep(c)) /\ WF_vars(ReaderEof(c))

-----------------------------------------------------------------------------

Saved == file \o pipe

\* The units of c among those.
SavedOf(c) == {u \in {Saved[i] : i \in DOMAIN Saved} : u[1] = c}

(* What is saved of a client is what it sent, in its order and without a   *)
(* gap, up to what its child still has in hand, however the children's     *)
(* writes to the pipe interleave and the saver's reads cut them.           *)
StoredInOrder ==
  /\ \A i, j \in DOMAIN Saved :
       i < j /\ Saved[i][1] = Saved[j][1] => Saved[i][2] < Saved[j][2]
  /\ \A c \in Clnt : \E n \in 0 .. taken[c] :
       SavedOf(c) = {c} \X (1 .. n) /\ (child[c] = "read" => n = taken[c])

(* echomsg.txt gets all that SAVES reads took, or nothing: what clients    *)
(* were echoed is on disk only once the saver has ended by itself, and is  *)
(* lost with a saver that is killed (l.63-69).                             *)
DiskAllOrNothing ==
  /\ disk # << >> => saver = "exited" /\ saves = SAVES /\ disk = file
  /\ saver = "exited" => disk = file

(* A client that typed "q" has been echoed all it sent when it sees end of *)
(* file, unless no child could be forked for it.                           *)
EofAfterEcho ==
  \A c \in Clnt : reader[c] = "done" /\ child[c] # "none" => got[c] = sent[c]

(* Children stay zombies exactly when their SIGCHLD was merged with that   *)
(* of another: the handler waits for one child only (l.108-114).           *)
ZombiesAreMergedSignals == zombies = merged + (IF sigchld THEN 1 ELSE 0)

(* A client that typed "q" sees end of file, or is interrupted, unless the *)
(* saver has stopped reading the pipe the children write to.               *)
QuitEnds ==
  \A c \in Clnt : writer[c] = "done" ~> reader[c] # "run" \/ saver # "run"
=============================================================================
