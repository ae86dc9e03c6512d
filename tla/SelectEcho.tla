----------------------------- MODULE SelectEcho -----------------------------
(***************************************************************************)
(* Chapter_12_IOMultiplexing/tcpServer_select.c: one process echoes to all *)
(* its clients.  select() works on a copy of the set reads; the loop then  *)
(* walks the descriptors upwards, accepts on serv_sock, reads the others   *)
(* and closes those at end of file, changing reads while it goes.          *)
(*                                                                         *)
(* Data are units; one read() takes up to BUF_SIZE of them.  write()       *)
(* blocks the process while a client does not read what is echoed to it.   *)
(***************************************************************************)
EXTENDS Integers, Sequences

CONSTANTS
  Conn,         \* the TCP connections clients make, each made once
  MaxFd,        \* the largest descriptor the process may open
  BUF_SIZE,     \* units one read() returns at most
  MaxSent,      \* bound, per connection: units its client sends
  Stallable,    \* connections whose client may stop reading
  NoConn        \* the content of a free descriptor

serv_sock == 3
Fd == 4 .. MaxFd

ASSUME SelectAssumption ==
  /\ MaxFd \in Nat /\ MaxFd >= serv_sock     \* serv_sock is open itself
  /\ MaxSent \in [Conn -> Nat] /\ BUF_SIZE \in Nat \ {0}
  /\ Stallable \subseteq Conn /\ NoConn \notin Conn

VARIABLES
  tcp,          \* per connection: its state as the server's kernel sees it
  sent, taken,  \* per connection: units the client sent, units read() returned
  got,          \* per connection: units echoed to a client that is there
  full,         \* per connection: is there no room for what is written to it?
  backlog,      \* connections accept() has not returned yet
  fdtab,        \* the open descriptors
  reads, cpy_reads, fd_max, i,
  str_len,      \* units that were read and are not yet written
  pc            \* "select", "scan", "write" (l.89) or, after SIGPIPE, "killed"

clients == <<tcp, sent>>
data == <<taken, got, str_len>>
watch == <<fdtab, reads, cpy_reads, fd_max>>
vars == <<clients, data, full, backlog, watch, i, pc>>

TypeOK ==
  /\ tcp \in [Conn -> {"none", "open", "half", "gone", "rst", "reset", "closed"}]
  /\ {sent, taken, got} \subseteq [Conn -> Nat]
  /\ \A c \in Conn : got[c] <= taken[c] /\ taken[c] <= sent[c]
  /\ full \in [Conn -> BOOLEAN] /\ str_len \in 0 .. BUF_SIZE
  /\ backlog \in Seq(Conn) /\ fdtab \in [Fd -> Conn \cup {NoConn}]
  /\ reads \cup cpy_reads \cup {fd_max} \subseteq Fd \cup {serv_sock} /\ i \in 0 .. MaxFd + 1
  /\ pc \in {"select", "scan", "write", "killed"}

Init ==
  /\ tcp = [c \in Conn |-> "none"] /\ backlog = << >>
  /\ sent = [c \in Conn |-> 0] /\ taken = sent /\ got = sent
  /\ full = [c \in Conn |-> FALSE] /\ str_len = 0
  /\ fdtab = [f \in Fd |-> NoConn]
  /\ reads = {serv_sock} /\ cpy_reads = {} /\ fd_max = serv_sock
  /\ i = 0 /\ pc = "select"

-----------------------------------------------------------------------------
(* The clients (external). *)

Connect(c) ==
  /\ tcp[c] = "none" /\ tcp' = [tcp EXCEPT ![c] = "open"]
  /\ backlog' = Append(backlog, c)
  /\ UNCHANGED <<sent, data, full, watch, i, pc>>

ClientSend(c) ==
  /\ tcp[c] = "open" /\ sent[c] < MaxSent[c] /\ sent' = [sent EXCEPT ![c] = @ + 1]
  /\ UNCHANGED <<tcp, data, full, backlog, watch, i, pc>>

\* shutdown(SHUT_WR), close(), or a close() that resets the connection.
ClientLeave(c) ==
  /\ \/ tcp[c] = "open" /\ \E s \in {"half", "gone", "reset"} : tcp' = [tcp EXCEPT ![c] = s]
     \/ tcp[c] = "half" /\ tcp' = [tcp EXCEPT ![c] = "gone"]
  /\ full' = [full EXCEPT ![c] = @ /\ tcp'[c] = "half"]
  /\ UNCHANGED <<sent, data, backlog, watch, i, pc>>

\* A client that let its buffers fill reads again.
Resume(c) ==
  /\ full[c] /\ full' = [full EXCEPT ![c] = FALSE]
  /\ UNCHANGED <<clients, data, backlog, watch, i, pc>>

-----------------------------------------------------------------------------
(* The server, l.46-94. *)

Ended(c) == tcp[c] \in {"half", "gone", "rst"}

Ready(f) ==
  IF f = serv_sock THEN backlog # << >>
  ELSE fdtab[f] # NoConn
       /\ LET c == fdtab[f] IN taken[c] < sent[c] \/ Ended(c) \/ tcp[c] = "reset"

StartScan(set) ==
  /\ pc = "select" /\ pc' = "scan" /\ i' = 0
  /\ cpy_reads' = set
  /\ UNCHANGED <<clients, data, full, backlog, fdtab, reads, fd_max>>

\* Mutation: the loop tests reads, not the set select() has filled in.
SelectKeepsAll == (\E f \in reads : Ready(f)) /\ StartScan(reads)

\* select() on the copy of reads, descriptors 0..fd_max; on a timeout the
\* loop starts again.
Select ==
  LET ready == {f \in reads : f <= fd_max /\ Ready(f)} IN ready # {} /\ StartScan(ready)

\* The descriptors for which the loop will still find FD_ISSET(i, &cpy_reads).
Ahead == {f \in cpy_reads : i <= f /\ f <= fd_max}

\* The loop comes to f.
NextSet(f) ==
  /\ pc = "scan" /\ f \in Ahead /\ (\A g \in Ahead : f <= g)
  /\ i' = f + 1 /\ UNCHANGED <<sent, cpy_reads>>

ScanEnds ==
  /\ pc = "scan" /\ Ahead = {} /\ pc' = "select"
  /\ UNCHANGED <<clients, data, full, backlog, watch, i>>

FreeFd == {f \in Fd : fdtab[f] = NoConn}

\* The next connection is given the lowest free descriptor, f.
Admit(f) ==
  /\ NextSet(serv_sock) /\ backlog # << >> /\ (\A g \in FreeFd : f <= g)
  /\ fdtab' = [fdtab EXCEPT ![f] = Head(backlog)] /\ backlog' = Tail(backlog)
  /\ reads' = reads \cup {f}
  /\ UNCHANGED <<tcp, data, full, pc>>

\* Mutations: fd_max is the descriptor accepted last; it counts the clients.
AcceptSetsMax == \E f \in FreeFd : Admit(f) /\ fd_max' = f
AcceptCountsMax == \E f \in FreeFd : Admit(f) /\ fd_max' = fd_max + 1

\* l.74-79.
Accept == \E f \in FreeFd : Admit(f) /\ fd_max' = IF fd_max < f THEN f ELSE fd_max

\* accept() fails with every descriptor in use.  FD_SET(-1, ..) is undefined;
\* compiled here it sets bit 63, of a descriptor that is in reads already.
AcceptFails ==
  /\ NextSet(serv_sock) /\ FreeFd = {}
  /\ UNCHANGED <<tcp, data, full, backlog, fdtab, reads, fd_max, pc>>

\* l.84: read() returns data, which is to be echoed.
Read(f) ==
  LET c == fdtab[f] IN
  /\ NextSet(f) /\ f # serv_sock
  /\ \E k \in 1 .. BUF_SIZE :
       /\ k = BUF_SIZE \/ taken[c] + k = sent[c]
       /\ taken[c] + k <= sent[c] /\ taken' = [taken EXCEPT ![c] = @ + k]
       /\ str_len' = k
  /\ pc' = "write"
  /\ UNCHANGED <<tcp, got, full, backlog, fdtab, reads, fd_max>>

\* The connection that was read last: the loop has gone past its descriptor.
Served == fdtab[i - 1]

\* l.89: write() waits for room.  A client that is gone answers with a RST,
\* after which write() raises SIGPIPE.
Write ==
  LET c == Served
      there == tcp[c] \in {"open", "half"} IN
  /\ pc = "write" /\ ~ full[c]
  /\ got' = IF there THEN [got EXCEPT ![c] = @ + str_len] ELSE got
  /\ \E b \in BOOLEAN : (b => there /\ c \in Stallable) /\ full' = [full EXCEPT ![c] = b]
  /\ tcp' = IF tcp[c] \in {"gone", "reset"} THEN [tcp EXCEPT ![c] = "rst"] ELSE tcp
  /\ pc' = IF tcp[c] = "rst" THEN "killed" ELSE "scan"
  /\ str_len' = 0 /\ UNCHANGED <<sent, taken, backlog, watch, i>>

\* The loop comes to f, on which read() has no data to return; the connection
\* is then in state s.
NoData(f, s) ==
  /\ NextSet(f) /\ f # serv_sock /\ taken[fdtab[f]] = sent[fdtab[f]]
  /\ tcp' = [tcp EXCEPT ![fdtab[f]] = s]
  /\ UNCHANGED <<data, backlog, fd_max, pc>>

\* read() returns -1, once, and so does write(i, buf, -1).
ReadError(f) == tcp[fdtab[f]] = "reset" /\ NoData(f, "rst") /\ UNCHANGED <<full, fdtab, reads>>

\* The connection is not written to any more.
Close(f) ==
  /\ fdtab' = [fdtab EXCEPT ![f] = NoConn]
  /\ full' = [full EXCEPT ![fdtab[f]] = FALSE]

\* Mutations: FD_CLR is forgotten; read() is not waited for, and the
\* connection is closed as soon as the client has shut it down.
CloseStaysSet(f) == Ended(fdtab[f]) /\ NoData(f, "closed") /\ Close(f) /\ reads' = reads
CloseAtOnce(f) ==
  /\ NextSet(f) /\ f # serv_sock /\ Ended(fdtab[f])
  /\ tcp' = [tcp EXCEPT ![fdtab[f]] = "closed"]
  /\ Close(f) /\ reads' = reads \ {f}
  /\ UNCHANGED <<data, backlog, fd_max, pc>>

\* l.85-87: read() returns 0.
CloseRequest(f) == Ended(fdtab[f]) /\ NoData(f, "closed") /\ Close(f) /\ reads' = reads \ {f}

-----------------------------------------------------------------------------

ClientStep(c) == Connect(c) \/ ClientSend(c) \/ ClientLeave(c) \/ Resume(c)

ServerStep ==
  \/ Select \/ ScanEnds \/ Accept \/ AcceptFails \/ Write
  \/ \E f \in Fd \ FreeFd : Read(f) \/ ReadError(f) \/ CloseRequest(f)

Next == pc # "killed" /\ ((\E c \in Conn : ClientStep(c)) \/ ServerStep)

\* The server is one process and is run; clients do as they please.
Spec == Init /\ [][Next]_vars /\ WF_vars(pc # "killed" /\ ServerStep)

-----------------------------------------------------------------------------

(* The set bits the loop has not come to yet are those of descriptors that *)
(* are still open and still ready, though the loop accepts and closes as   *)
(* it goes and may wait in write() between: read() and accept() never      *)
(* block the one process.                                                  *)
ScanNeverBlocks ==
  pc \in {"scan", "write"} => \A f \in cpy_reads : f >= i => Ready(f)

(* Every open connection is watched, within the descriptors select() and   *)
(* the loop look at, and nothing else is, although fd_max never shrinks    *)
(* and descriptors are reused.                                             *)
WatchedAreOpen ==
  /\ reads \ {serv_sock} = {f \in Fd : fdtab[f] # NoConn}
  /\ \A f \in reads : f <= fd_max

(* A client that ended its side with shutdown() has everything echoed      *)
(* before the server closes.                                               *)
ClosedAfterEcho ==
  [][\A c \in Conn : tcp[c] = "half" /\ tcp'[c] = "closed" => got[c] = sent[c]]_vars

(* What a client sent is read in the end, unless it waits for a descriptor *)
(* or another client's SIGPIPE ends the server, and provided that no       *)
(* client stops reading its echoes for good: write() (l.89) has no timeout *)
(* and the one process waits in it.                                        *)
EverybodyServed ==
  (\A c \in Conn : []<>(~ full[c]))
    => \A c \in Conn :
         tcp[c] # "none" /\ taken[c] < sent[c]
           ~> taken[c] = sent[c] \/ pc = "killed" \/ \E k \in DOMAIN backlog : backlog[k] = c
=============================================================================
