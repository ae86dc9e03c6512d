----------------------------- MODULE ChatServer -----------------------------
(***************************************************************************)
(* Chapter_18/chat_server.c: the relay.  main accepts connections, stores  *)
(* each descriptor in the table clnt_socks under mutx and starts a thread  *)
(* that is given the ADDRESS of main's variable clnt_sock.  A thread reads *)
(* its socket and writes what it read to every descriptor of the table,    *)
(* holding mutx; at end of file it removes its descriptor from the table.  *)
(*                                                                         *)
(* A chunk is what one read() returns; chunks are told apart by sender and *)
(* number; what they contain is not modelled.  Every access               *)
(* to the table is made under mutx, so the critical sections of main and   *)
(* of the removal are one action each; send_msg may block in write() while *)
(* it holds mutx and is one action per descriptor.                         *)
(***************************************************************************)
EXTENDS Integers, Sequences, FiniteSets

CONSTANTS
  Conn,         \* the TCP connections clients make, each made once
  MaxFd,        \* the largest descriptor the process may open
  MAX_CLNT,     \* the size of clnt_socks
  MaxThreads,   \* bound: threads created in a behaviour
  MaxSent,      \* bound: chunks a client sends
  Stallable,    \* connections whose client may stop reading for a while
  NoConn,       \* the content of a free descriptor
  NoThread      \* mutx is free

Fd == 4 .. MaxFd        \* 0..2 are the standard streams, 3 is serv_sock
Thread == 1 .. MaxThreads
Empty == << >>          \* what a failed read() leaves in msg: no bytes

ASSUME ChatAssumption ==
  /\ MaxFd \in Nat /\ MAX_CLNT \in Nat
  /\ MaxThreads \in Nat /\ MaxSent \in Nat
  /\ Stallable \subseteq Conn
  /\ NoConn \notin Conn
  /\ NoThread \notin Nat

VARIABLES
  \* The clients and the network.
  tcp,          \* per connection: its state as the server's kernel sees it
  sent,         \* per connection: how many chunks the client sent
  full,         \* per connection: is there no room for what is written to it?
  delivered,    \* per connection: the chunks handed to the client, in order
  \* The server's kernel.
  backlog,      \* connections accept() has not returned yet
  taken,        \* per connection: how many chunks read() returned
  fdtab,        \* the open descriptors
  \* The globals, l.24-26.
  clnt_socks, clnt_cnt, mutx,
  \* main: its control, its variable clnt_sock (l.30), which is shared, and a
  \* history of the registrations for which no thread could be created.
  mpc, msock, unserved,
  \* handle_clnt and send_msg, per thread: control, clnt_sock, i and msg.
  created, pc, sock, idx, msg,
  \* History: the chunks relayed, in the order their broadcasts took mutx.
  log,
  \* "up", "killed" (by a signal) or "overrun" (clnt_socks written past its end).
  server

clients == <<tcp, sent, full, delivered>>
kernel  == <<backlog, taken, fdtab>>
globals == <<clnt_socks, clnt_cnt, mutx>>
mainVars == <<mpc, msock, unserved, created>>
locals  == <<pc, sock, idx, msg, log>>
vars == <<clients, kernel, globals, mainVars, locals, server>>

Tcp == {"none", "open", "fin", "finw", "dead", "reset", "closed"}
Chunk == Conn \X (1 .. MaxSent)     \* <<sender, how many-th of that sender>>

TypeOK ==
  /\ tcp \in [Conn -> Tcp]
  /\ sent \in [Conn -> 0 .. MaxSent]
  /\ full \in [Conn -> BOOLEAN]
  /\ delivered \in [Conn -> Seq(Chunk)]
  /\ backlog \in Seq(Conn)
  /\ taken \in [Conn -> 0 .. MaxSent]
  /\ fdtab \in [Fd -> Conn \cup {NoConn}]
  /\ clnt_socks \in [0 .. MAX_CLNT -> Fd \cup {0, -1}]
  /\ clnt_cnt \in Nat
  /\ mutx \in Thread \cup {NoThread}
  /\ mpc \in {"accept", "register", "create"}
  /\ msock \in Fd \cup {-1}
  /\ unserved \in Nat
  /\ created \in 0 .. MaxThreads
  /\ pc \in [Thread -> {"none", "start", "read", "lock", "send", "remove", "close", "done"}]
  /\ sock \in [Thread -> Fd \cup {-1}]
  /\ idx \in [Thread -> Nat]
  /\ msg \in [Thread -> Chunk \cup {Empty}]
  /\ log \in Seq(Chunk)
  /\ server \in {"up", "killed", "overrun"}

Init ==
  /\ tcp = [c \in Conn |-> "none"]
  /\ sent = [c \in Conn |-> 0]
  /\ full = [c \in Conn |-> FALSE]
  /\ delivered = [c \in Conn |-> << >>]
  /\ backlog = << >>
  /\ taken = [c \in Conn |-> 0]
  /\ fdtab = [f \in Fd |-> NoConn]
  /\ clnt_socks = [k \in 0 .. MAX_CLNT |-> 0]
  /\ clnt_cnt = 0 /\ mutx = NoThread
  /\ mpc = "accept" /\ msock = -1 /\ unserved = 0 /\ created = 0
  /\ pc = [t \in Thread |-> "none"]
  /\ sock = [t \in Thread |-> -1]
  /\ idx = [t \in Thread |-> 0]
  /\ msg = [t \in Thread |-> Empty]
  /\ log = << >> /\ server = "up"

-----------------------------------------------------------------------------
(* The clients and their kernels (external). *)

Connect(c) ==
  /\ tcp[c] = "none"
  /\ tcp' = [tcp EXCEPT ![c] = "open"] /\ backlog' = Append(backlog, c)
  /\ UNCHANGED <<sent, full, delivered, taken, fdtab, globals, mainVars, locals, server>>

ClientSend(c) ==
  /\ tcp[c] = "open" /\ sent[c] < MaxSent
  /\ sent' = [sent EXCEPT ![c] = @ + 1]
  /\ UNCHANGED <<tcp, full, delivered, kernel, globals, mainVars, locals, server>>

\* close() or exit() of the client: its FIN, or a RST if it left data unread.
ClientLeave(c) ==
  /\ tcp[c] = "open"
  /\ \E s \in {"fin", "reset"} : tcp' = [tcp EXCEPT ![c] = s]
  /\ full' = [full EXCEPT ![c] = FALSE]
  /\ UNCHANGED <<sent, delivered, kernel, globals, mainVars, locals, server>>

\* The RST that answers data sent to a client that is gone.
RstArrives(c) ==
  /\ tcp[c] = "finw"
  /\ tcp' = [tcp EXCEPT ![c] = "dead"]
  /\ UNCHANGED <<sent, full, delivered, kernel, globals, mainVars, locals, server>>

\* A client that let its buffers fill reads again.
Resume(c) ==
  /\ full[c]
  /\ full' = [full EXCEPT ![c] = FALSE]
  /\ UNCHANGED <<tcp, sent, delivered, kernel, globals, mainVars, locals, server>>

-----------------------------------------------------------------------------
(* main, l.53-71. *)

FreeFd == {f \in Fd : fdtab[f] = NoConn}

\* accept() returns the lowest free descriptor ...
Accept ==
  /\ mpc = "accept" /\ created < MaxThreads /\ backlog # << >>
  /\ \E f \in FreeFd :
       /\ \A g \in FreeFd : f <= g
       /\ msock' = f
       /\ fdtab' = [fdtab EXCEPT ![f] = Head(backlog)]
  /\ backlog' = Tail(backlog) /\ mpc' = "register"
  /\ UNCHANGED <<clients, taken, globals, unserved, created, locals, server>>

\* ... or -1, which main does not look at.
AcceptFails ==
  /\ mpc = "accept" /\ created < MaxThreads /\ FreeFd = {}
  /\ msock' = -1 /\ mpc' = "register"
  /\ UNCHANGED <<clients, kernel, globals, unserved, created, locals, server>>

\* Mutation: clnt_socks[++clnt_cnt] = clnt_sock.
RegisterPreIncrement ==
  /\ mpc = "register" /\ mutx = NoThread /\ clnt_cnt < MAX_CLNT
  /\ clnt_socks' = [clnt_socks EXCEPT ![clnt_cnt + 1] = msock]
  /\ clnt_cnt' = clnt_cnt + 1 /\ mpc' = "create"
  /\ UNCHANGED <<clients, kernel, mutx, msock, unserved, created, locals, server>>

\* Mutation: main does not take mutx.
RegisterUnlocked ==
  /\ mpc = "register" /\ clnt_cnt < MAX_CLNT
  /\ clnt_socks' = [clnt_socks EXCEPT ![clnt_cnt] = msock]
  /\ clnt_cnt' = clnt_cnt + 1 /\ mpc' = "create"
  /\ UNCHANGED <<clients, kernel, mutx, msock, unserved, created, locals, server>>

\* clnt_socks[clnt_cnt++] = clnt_sock under mutx, with no look at MAX_CLNT.
Register ==
  /\ mpc = "register" /\ mutx = NoThread
  /\ IF clnt_cnt < MAX_CLNT
       THEN /\ clnt_socks' = [clnt_socks EXCEPT ![clnt_cnt] = msock]
            /\ UNCHANGED server
       ELSE /\ server' = "overrun"
            /\ UNCHANGED clnt_socks
  /\ clnt_cnt' = clnt_cnt + 1 /\ mpc' = "create"
  /\ UNCHANGED <<clients, kernel, mutx, msock, unserved, created, locals>>

\* pthread_create(.., &clnt_sock) and pthread_detach.
CreateThread ==
  /\ mpc = "create" /\ created < MaxThreads
  /\ created' = created + 1 /\ pc' = [pc EXCEPT ![created + 1] = "start"]
  /\ mpc' = "accept"
  /\ UNCHANGED <<clients, kernel, globals, msock, unserved, sock, idx, msg, log, server>>

\* pthread_create() fails and main does not look: the entry stays, nobody
\* serves it, and an old or unset t_id is detached, which may end the process.
CreateFails ==
  /\ mpc = "create" /\ mpc' = "accept"
  /\ unserved' = unserved + 1 /\ server' \in {"up", "killed"}
  /\ UNCHANGED <<clients, kernel, globals, msock, created, locals>>

-----------------------------------------------------------------------------
(* handle_clnt, l.79-115. *)

\* clnt_sock = *((int*)arg): whatever main's variable holds by now.
Start(t) ==
  /\ pc[t] = "start"
  /\ sock' = [sock EXCEPT ![t] = msock] /\ pc' = [pc EXCEPT ![t] = "read"]
  /\ UNCHANGED <<clients, kernel, globals, mainVars, idx, msg, log, server>>

\* The connection behind a descriptor; NoConn for -1 and closed descriptors.
ConnOf(f) == IF f \in Fd THEN fdtab[f] ELSE NoConn

\* Mutation: static char msg[BUF_SIZE], one for all threads.
ReadIntoStatic(t) ==
  LET c == ConnOf(sock[t]) IN
  /\ pc[t] = "read" /\ c # NoConn /\ taken[c] < sent[c]
  /\ taken' = [taken EXCEPT ![c] = @ + 1]
  /\ msg' = [u \in Thread |-> <<c, taken[c] + 1>>]
  /\ pc' = [pc EXCEPT ![t] = "lock"]
  /\ UNCHANGED <<clients, backlog, fdtab, globals, mainVars, sock, idx, log, server>>

\* read() returns a chunk.
ReadChunk(t) ==
  LET c == ConnOf(sock[t]) IN
  /\ pc[t] = "read" /\ c # NoConn /\ taken[c] < sent[c]
  /\ taken' = [taken EXCEPT ![c] = @ + 1]
  /\ msg' = [msg EXCEPT ![t] = <<c, taken[c] + 1>>]
  /\ pc' = [pc EXCEPT ![t] = "lock"]
  /\ UNCHANGED <<clients, backlog, fdtab, globals, mainVars, sock, idx, log, server>>

\* read() returns 0: the loop ends.
ReadEof(t) ==
  LET c == ConnOf(sock[t]) IN
  /\ pc[t] = "read" /\ c # NoConn /\ taken[c] = sent[c]
  /\ tcp[c] \in {"fin", "finw", "dead"}
  /\ pc' = [pc EXCEPT ![t] = "remove"]
  /\ UNCHANGED <<clients, kernel, globals, mainVars, sock, idx, msg, log, server>>

\* read() returns -1, which is != 0, and an empty msg is broadcast: the
\* descriptor is bad, every time, or the connection was reset, once.
ReadError(t) ==
  LET c == ConnOf(sock[t]) IN
  /\ pc[t] = "read"
  /\ \/ c = NoConn /\ UNCHANGED tcp
     \/ /\ c # NoConn
        /\ taken[c] = sent[c] /\ tcp[c] = "reset"
        /\ tcp' = [tcp EXCEPT ![c] = "dead"]
  /\ msg' = [msg EXCEPT ![t] = Empty] /\ pc' = [pc EXCEPT ![t] = "lock"]
  /\ UNCHANGED <<sent, full, delivered, kernel, globals, mainVars, sock, idx, log, server>>

-----------------------------------------------------------------------------
(* send_msg, l.117-127. *)

\* Mutation: i is not set back to 0.
LockSendKeepsIndex(t) ==
  /\ pc[t] = "lock" /\ mutx = NoThread
  /\ mutx' = t
  /\ log' = IF msg[t] = Empty THEN log ELSE Append(log, msg[t])
  /\ pc' = [pc EXCEPT ![t] = "send"]
  /\ UNCHANGED <<clients, kernel, clnt_socks, clnt_cnt, mainVars, sock, idx, msg, server>>

\* Mutation: send_msg does not wait for mutx.
LockSendUnlocked(t) ==
  /\ pc[t] = "lock"
  /\ mutx' = t /\ idx' = [idx EXCEPT ![t] = 0]
  /\ log' = IF msg[t] = Empty THEN log ELSE Append(log, msg[t])
  /\ pc' = [pc EXCEPT ![t] = "send"]
  /\ UNCHANGED <<clients, kernel, clnt_socks, clnt_cnt, mainVars, sock, msg, server>>

LockSend(t) ==
  /\ pc[t] = "lock" /\ mutx = NoThread
  /\ mutx' = t /\ idx' = [idx EXCEPT ![t] = 0]
  /\ log' = IF msg[t] = Empty THEN log ELSE Append(log, msg[t])
  /\ pc' = [pc EXCEPT ![t] = "send"]
  /\ UNCHANGED <<clients, kernel, clnt_socks, clnt_cnt, mainVars, sock, msg, server>>

\* What write(clnt_socks[idx], ..) finds.
Target(t) == ConnOf(clnt_socks[idx[t]])

Writing(t) ==
  /\ pc[t] = "send" /\ idx[t] < clnt_cnt
  /\ idx' = [idx EXCEPT ![t] = @ + 1]
  /\ UNCHANGED <<sent, kernel, globals, mainVars, pc, sock, msg, log>>

\* The chunk goes to a client that is there and has room for it; it may fill
\* the buffers of one that does not read.
WriteChunk(t) ==
  LET c == Target(t) IN
  /\ Writing(t) /\ msg[t] # Empty /\ c # NoConn /\ tcp[c] = "open"
  /\ ~ full[c]
  /\ delivered' = [delivered EXCEPT ![c] = Append(@, msg[t])]
  /\ \E b \in BOOLEAN : (b => c \in Stallable) /\ full' = [full EXCEPT ![c] = b]
  /\ UNCHANGED <<tcp, server>>

\* It goes to a client that has left: written, lost, answered by a RST.
WriteLost(t) ==
  LET c == Target(t) IN
  /\ Writing(t) /\ msg[t] # Empty /\ c # NoConn
  /\ tcp[c] \in {"fin", "finw"}
  /\ tcp' = [tcp EXCEPT ![c] = "finw"]
  /\ UNCHANGED <<delivered, full, server>>

\* Nothing is written: a bad descriptor (EBADF), or no bytes.
WriteNothing(t) ==
  LET c == Target(t) IN
  /\ Writing(t)
  /\ \/ c = NoConn
     \/ c # NoConn /\ msg[t] = Empty /\ tcp[c] \in {"open", "fin", "finw"}
  /\ UNCHANGED <<tcp, delivered, full, server>>

\* ECONNRESET is reported once; the next write raises SIGPIPE, which ends the
\* process.
WriteReset(t) ==
  LET c == Target(t) IN
  /\ Writing(t) /\ c # NoConn
  /\ \/ tcp[c] = "reset" /\ tcp' = [tcp EXCEPT ![c] = "dead"] /\ UNCHANGED server
     \/ tcp[c] = "dead" /\ server' = "killed" /\ UNCHANGED tcp
  /\ UNCHANGED <<delivered, full>>

\* Mutation: an empty message returns from send_msg without the unlock.
UnlockUnlessEmpty(t) ==
  /\ pc[t] = "send" /\ idx[t] >= clnt_cnt
  /\ mutx' = IF msg[t] = Empty THEN mutx ELSE NoThread
  /\ pc' = [pc EXCEPT ![t] = "read"] /\ msg' = [msg EXCEPT ![t] = Empty]
  /\ UNCHANGED <<clients, kernel, clnt_socks, clnt_cnt, mainVars, sock, idx, log, server>>

UnlockSend(t) ==
  /\ pc[t] = "send" /\ idx[t] >= clnt_cnt
  /\ mutx' = NoThread /\ pc' = [pc EXCEPT ![t] = "read"]
  /\ msg' = [msg EXCEPT ![t] = Empty]
  /\ UNCHANGED <<clients, kernel, clnt_socks, clnt_cnt, mainVars, sock, idx, log, server>>

-----------------------------------------------------------------------------
(* The end of handle_clnt, l.97-114. *)

\* The entries that hold descriptor f.
Slots(f) == {k \in 0 .. clnt_cnt - 1 : clnt_socks[k] = f}

\* l.104-107 from i = k: i is incremented by the test, before it is used.
Shifted(k) ==
  [j \in 0 .. MAX_CLNT |-> IF k < j /\ j <= clnt_cnt - 1 THEN clnt_socks[j + 1]
                                                         ELSE clnt_socks[j]]

\* l.99-110: from the first entry that holds f, if any.
TakeOff(f) ==
  IF Slots(f) = {}
    THEN UNCHANGED clnt_socks
    ELSE \E k \in Slots(f) : (\A j \in Slots(f) : k <= j) /\ clnt_socks' = Shifted(k)

\* Mutation: clnt_cnt-- is done inside the if and again after the loop.
RemoveTwice(t) ==
  /\ pc[t] = "remove" /\ mutx = NoThread
  /\ TakeOff(sock[t])
  /\ clnt_cnt' = IF Slots(sock[t]) = {} THEN clnt_cnt - 1 ELSE clnt_cnt - 2
  /\ pc' = [pc EXCEPT ![t] = "close"]
  /\ UNCHANGED <<clients, kernel, mutx, mainVars, sock, idx, msg, log, server>>

\* l.97-112: the critical section that removes the thread's descriptor.
Remove(t) ==
  /\ pc[t] = "remove" /\ mutx = NoThread /\ TakeOff(sock[t])
  /\ clnt_cnt' = clnt_cnt - 1 /\ pc' = [pc EXCEPT ![t] = "close"]
  /\ UNCHANGED <<clients, kernel, mutx, mainVars, sock, idx, msg, log, server>>

\* close(clnt_sock), after mutx was released.
Close(t) ==
  LET c == ConnOf(sock[t]) IN
  /\ pc[t] = "close"
  /\ pc' = [pc EXCEPT ![t] = "done"]
  /\ IF c = NoConn
       THEN UNCHANGED <<tcp, fdtab>>
       ELSE /\ fdtab' = [fdtab EXCEPT ![sock[t]] = NoConn]
            /\ tcp' = [tcp EXCEPT ![c] = "closed"]
  /\ UNCHANGED <<sent, full, delivered, backlog, taken, globals, mainVars,
                 sock, idx, msg, log, server>>

-----------------------------------------------------------------------------

ClientStep(c) ==
  \/ Connect(c) \/ ClientSend(c) \/ ClientLeave(c) \/ RstArrives(c) \/ Resume(c)

MainStep == Accept \/ AcceptFails \/ Register \/ CreateThread \/ CreateFails

ThreadStep(t) ==
  \/ Start(t)
  \/ ReadChunk(t) \/ ReadEof(t) \/ ReadError(t)
  \/ LockSend(t)
  \/ WriteChunk(t) \/ WriteLost(t) \/ WriteNothing(t) \/ WriteReset(t)
  \/ UnlockSend(t)
  \/ Remove(t) \/ Close(t)

Next ==
  /\ server = "up"
  /\ \/ \E c \in Conn : ClientStep(c)
     \/ MainStep
     \/ \E t \in Thread : ThreadStep(t)

Spec == Init /\ [][Next]_vars

\* The scheduler runs every thread; what clients do is theirs.
FairSpec == Spec /\ \A t \in Thread : WF_vars(server = "up" /\ ThreadStep(t))

-----------------------------------------------------------------------------
(* What the server promises. *)

Room == INSTANCE ChatRoom WITH Conn <- Conn, Chunk <- Chunk, log <- log, delivered <- delivered

(* The server implements the room: every chunk read is relayed by one      *)
(* broadcast at most, and whoever is written to is written the chunk of    *)
(* the broadcast that holds mutx (send_msg, l.117-127).                    *)
ImplementsRoom == Room!RoomSpec

(* Everybody sees the chunks in the order of the log, whatever threads and  *)
(* descriptors do; it is a theorem of the room, checked here as well.      *)
SameOrder == Room!SameOrder

Listed == {clnt_socks[k] : k \in 0 .. clnt_cnt - 1}
Active(t) == pc[t] \in {"read", "lock", "send", "remove", "close"}
Pending(f) == mpc = "register" /\ msock = f

(* While a thread is broadcasting, nobody changes the table it walks       *)
(* (l.58-62 and l.97-112 take mutx too).                                   *)
TableStable ==
  [][mutx # NoThread /\ mutx' = mutx => UNCHANGED <<clnt_socks, clnt_cnt>>]_vars

(* A broadcast reaches, entry after entry, every client of the table that  *)
(* is still there, whatever connects, leaves or is closed meanwhile.  A    *)
(* descriptor main has accepted but not stored is a reused one.            *)
BroadcastCovers ==
  \A t \in Thread : pc[t] = "send" /\ msg[t] # Empty =>
    \A k \in 0 .. idx[t] - 1 :
      LET c == ConnOf(clnt_socks[k]) IN
        c # NoConn /\ tcp[c] = "open" /\ ~ Pending(clnt_socks[k])
          => \E j \in 1 .. Len(delivered[c]) : delivered[c][j] = msg[t]

(* clnt_cnt counts the threads that were registered and have not taken     *)
(* themselves off, however many of them run on the same descriptor or on   *)
(* -1, and for good every registration whose pthread_create() failed.      *)
Registered == {t \in Thread : pc[t] \notin {"none", "close", "done"}}
CountMatches ==
  clnt_cnt = Cardinality(Registered) + unserved + (IF mpc = "create" THEN 1 ELSE 0)

(* As long as no thread has taken its descriptor off, every open           *)
(* connection is in the table exactly once.                                *)
TableExactUntilDeparture ==
  (\A t \in Thread : pc[t] \notin {"close", "done"}) /\ server # "overrun" =>
    /\ \A j, k \in 0 .. clnt_cnt - 1 :
         j # k => clnt_socks[j] # clnt_socks[k] \/ clnt_socks[j] = -1
    /\ \A f \in Fd : fdtab[f] # NoConn => f \in Listed \/ Pending(f)

(* A broadcast ends, unless a client it writes to stops reading for good:  *)
(* send_msg gives mutx back or has killed the server (l.120-126).          *)
LockReleased ==
  (\A c \in Conn : []<>(~ full[c]))
    => \A t \in Thread : mutx = t ~> (mutx # t \/ server # "up")

(* The inductive invariant behind the theorems of ChatServerProofs.        *)
CreatedInOrder == \A t \in Thread : pc[t] = "none" <=> t > created
InBounds == server = "up" => clnt_cnt <= MAX_CLNT
HolderSends == \A t \in Thread : pc[t] = "send" <=> mutx = t

\* t has read a chunk and waits for mutx.
Carries(t) == pc[t] = "lock" /\ msg[t] # Empty

\* A chunk is in one thread's hands or in the log, and was taken from its socket.
ChunksApart ==
  /\ \A k \in 1 .. Len(log) : log[k][2] <= taken[log[k][1]]
  /\ \A j, k \in 1 .. Len(log) : log[j] = log[k] => j = k
  /\ \A t \in Thread : Carries(t) =>
       /\ msg[t][2] <= taken[msg[t][1]]
       /\ \A k \in 1 .. Len(log) : log[k] # msg[t]
       /\ \A u \in Thread : Carries(u) /\ msg[u] = msg[t] => u = t

\* What was taken from a socket is in the log or in a thread's hands.
NothingLost == \A c \in Conn : \A n \in 1 .. taken[c] :
  \/ \E k \in 1 .. Len(log) : log[k] = <<c, n>>
  \/ \E t \in Thread : Carries(t) /\ msg[t] = <<c, n>>

(* Whatever was read from a client is relayed once (l.87-93): it is about  *)
(* to be, in one thread's hands, or it was, by one broadcast; also when    *)
(* two threads have copied one descriptor and share the client's chunks.   *)
RelayedOnce ==
  \A c \in Conn : \A n \in 1 .. taken[c] :
    LET logged == {k \in 1 .. Len(log) : log[k] = <<c, n>>}
        held   == {t \in Thread : Carries(t) /\ msg[t] = <<c, n>>}
    IN \/ held = {} /\ \E k \in 1 .. Len(log) : logged = {k}
       \/ logged = {} /\ \E t \in Thread : held = {t}

\* What is being written is what was logged last.
SendsLast == \A t \in Thread :
  pc[t] = "send" /\ msg[t] # Empty => log # << >> /\ log[Len(log)] = msg[t]

IInv ==
  /\ TypeOK /\ CreatedInOrder /\ CountMatches /\ InBounds
  /\ HolderSends /\ ChunksApart /\ NothingLost /\ SendsLast

(* The comments of l.99 and l.101: a client that disconnected is taken off *)
(* the table before its descriptor is closed.                              *)
DepartedIsUnlisted == \A t \in Thread : pc[t] = "close" => sock[t] \notin Listed

(* The comment of l.64: a thread of its own serves each client.            *)
ServedByOwnThread ==
  \A t, u \in Thread : Active(t) /\ Active(u) /\ t # u =>
    sock[t] # sock[u] \/ ConnOf(sock[t]) = NoConn
=============================================================================
