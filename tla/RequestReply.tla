----------------------------- MODULE RequestReply -----------------------------
(***************************************************************************)
(* The servers that answer one request after another on a connection:      *)
(*   "fork"     Chapter_10: an echo, a child per client                    *)
(*   "calc"     Assignment_week7_2: a calculator, a child per client       *)
(*   "compute"  Program/Compute: a calculator, one request per client      *)
(*   "echo"     Program/Echo: an echo, five clients one after another      *)
(*   "chat"     Program/Chat: one client, whose answers are typed          *)
(* prog says which of them a behaviour is of.  A message is "ok", "div0"   *)
(* (a division by zero) or "long" (a line that, with the ":Server" or      *)
(* "::SERVER" the two echoes append, fills the server's array of 100 and   *)
(* more), and arrives in one recv().                                       *)
(***************************************************************************)
EXTENDS Integers, Sequences, FiniteSets

CONSTANTS
  Clnt,
  MaxReq,       \* bound: messages a client sends
  MaxFd,        \* bound: on limit
  MaxServed,    \* clients "echo" serves, 5 in the code
  None

\* What the constants must satisfy.
RequestReplyAssumption ==
  MaxReq \in Nat \ {0} /\ MaxFd \in Nat \ {0} /\ MaxServed \in Nat \ {0} /\ None \notin Clnt

VARIABLES
  prog,
  limit,                \* the sockets a process may have open besides the listening one
  cl, sent,             \* per client: control, messages sent
  req, rep,             \* per client: message underway, parts of answers underway
  fit,                  \* per client: has every answer fitted its recv()?
  broken,               \* per client: was its server's last write answered by a reset?
  queue,                \* the connections that wait for accept()
  spc, cur, served,     \* the server: control, accept_no, clients accepted
  held,                 \* the clients whose socket the server has open
  serving               \* per client: control of the process that serves it

client == <<cl, sent>>
wire == <<req, rep, fit, broken>>
server == <<queue, spc, cur, served, held, limit>>
vars == <<prog, client, wire, server, serving>>

Forked == {"fork", "calc"}

TypeOK ==
  /\ prog \in Forked \cup {"compute", "echo", "chat"}
  /\ cl \in [Clnt -> {"start", "send", "recv", "stuck", "gone", "reset"}]
  /\ sent \in [Clnt -> 0 .. MaxReq] /\ rep \in [Clnt -> Nat]
  /\ req \in [Clnt -> {"none", "ok", "div0", "long"}] /\ broken \in [Clnt -> BOOLEAN]
  /\ fit \in [Clnt -> {"all", "long", "out"}]
  /\ queue \in Seq(Clnt) /\ cur \in Clnt \cup {None} /\ held \subseteq Clnt
  /\ served \in 0 .. MaxServed /\ limit \in 1 .. MaxFd
  /\ spc \in {"accept", "fork", "close", "busy", "over"}
  /\ serving \in [Clnt -> {"none", "recv", "send", "long", "spin", "over"}]
  \* a process that forks has one client's socket open at most
  /\ prog \in Forked => held \subseteq {cur}

Init ==
  /\ prog \in Forked \cup {"compute", "echo", "chat"}
  /\ limit \in (IF prog = "compute" THEN 1 .. MaxFd ELSE {MaxFd})
  /\ cl = [c \in Clnt |-> "start"] /\ req = [c \in Clnt |-> "none"] /\ serving = req
  /\ sent = [c \in Clnt |-> 0] /\ rep = sent /\ broken = [c \in Clnt |-> FALSE]
  /\ fit = [c \in Clnt |-> "all"]
  /\ queue = << >> /\ spc = "accept" /\ cur = None /\ served = 0 /\ held = {}

Serve(c, from, to) == serving[c] = from /\ serving' = [serving EXCEPT ![c] = to]

\* The server's side of c's connection is open: it waits, or a process has it.
Up(c) ==
  \/ \E k \in DOMAIN queue : queue[k] = c
  \/ c \in held \/ serving[c] \in {"recv", "send", "long"}

-----------------------------------------------------------------------------
(* The clients. *)

ClientGoes(c, from, to) ==
  cl[c] \in from /\ cl' = [cl EXCEPT ![c] = to] /\ UNCHANGED <<prog, broken, serving>>

Connect(c) ==
  /\ spc # "over" /\ ClientGoes(c, {"start"}, "send") /\ queue' = Append(queue, c)
  /\ UNCHANGED <<limit, sent, req, rep, fit, spc, cur, served, held>>

CountSent(c) ==
  sent[c] < MaxReq /\ sent' = [sent EXCEPT ![c] = @ + 1] /\ UNCHANGED <<rep, fit, server>>

\* What is sent to a server that is gone is lost, or ends the client.
Send(c, message) ==
  /\ CountSent(c)
  /\ \/ Up(c) /\ ClientGoes(c, {"send"}, "recv") /\ req' = [req EXCEPT ![c] = message]
     \/ ~ Up(c) /\ (\E s \in {"recv", "gone"} : ClientGoes(c, {"send"}, s)) /\ UNCHANGED req

\* A line that meets one the server has not read is read with it.
ForkSend(c) ==
  prog = "fork" /\ \E message \in {"ok", "long"} : (req[c] = "long" => message = "long") /\ Send(c, message)

\* At the end of stdin nothing is sent, and of an empty line neither where the
\* newline is cut off: the client waits all the same.
SendNothing(c) ==
  prog \in {"fork", "chat"} /\ ClientGoes(c, {"send"}, "stuck") /\ CountSent(c) /\ UNCHANGED req

CalcSend(c) == prog = "calc" /\ \E message \in {"ok", "div0"} : Send(c, message)

\* Always 100 bytes, which are read as such: what is sent before the last were
\* read could as well be sent after.
EchoSend(c) == prog = "echo" /\ req[c] = "none" /\ \E message \in {"ok", "long"} : Send(c, message)

ChatSend(c) == prog = "chat" /\ Send(c, "ok")

\* 23 + 35, once.
ComputeSend(c) == prog = "compute" /\ sent[c] = 0 /\ Send(c, "ok")

\* Of an answer that is too long only the first part is taken; from then on a
\* recv() may take several parts that are there, of any answers.
RecvReply(c) ==
  /\ prog # "compute" /\ ClientGoes(c, {"recv", "stuck"}, "send")
  /\ \E k \in 1 .. rep[c] : (k > 1 => fit[c] = "out") /\ rep' = [rep EXCEPT ![c] = @ - k]
  /\ fit' = [fit EXCEPT ![c] = IF @ = "long" THEN "out" ELSE @]
  /\ UNCHANGED <<sent, req, server>>

\* An end of file is taken for an answer, an error ends the client.
RecvEnd(c) ==
  /\ prog # "compute" /\ rep[c] = 0 /\ ~ Up(c)
  /\ \E s \in {"send", "gone"} : ClientGoes(c, {"recv", "stuck"}, s)
  /\ UNCHANGED <<sent, req, rep, fit, server>>

ComputeRecv(c) ==
  /\ prog = "compute" /\ (rep[c] > 0 \/ ~ Up(c)) /\ ClientGoes(c, {"recv"}, "gone")
  /\ rep' = [rep EXCEPT ![c] = 0] /\ UNCHANGED <<sent, req, fit, server>>

\* A client is killed: its connection ends, or is reset if an answer is unread.
Kill(c) ==
  /\ ClientGoes(c, {"send", "recv", "stuck"}, IF rep[c] > 0 THEN "reset" ELSE "gone")
  /\ rep' = [rep EXCEPT ![c] = 0] /\ UNCHANGED <<sent, req, fit, server>>

-----------------------------------------------------------------------------
(* The servers: accept() and fork(). *)

ServerGoes(from, to) == spc = from /\ spc' = to /\ UNCHANGED <<prog, client, wire, limit>>

Accept ==
  /\ queue # << >> /\ cur' = Head(queue) /\ queue' = Tail(queue)
  /\ held' = held \cup {Head(queue)}

AcceptAndFork == prog \in Forked /\ ServerGoes("accept", "fork") /\ Accept /\ UNCHANGED <<served, serving>>

AcceptAndServe ==
  /\ prog \in {"echo", "chat"} /\ ServerGoes("accept", "busy") /\ Accept
  /\ served' = served + 1 /\ Serve(Head(queue), "none", "recv")

ComputeAccept ==
  /\ prog = "compute" /\ ServerGoes("accept", "busy") /\ Accept
  /\ Cardinality(held) < limit /\ Serve(Head(queue), "none", "recv") /\ UNCHANGED served

\* The end of the server: all its sockets are closed.
ServerEnds == spc' = "over" /\ held' = {} /\ queue' = << >> /\ UNCHANGED <<cur, served, limit>>

\* accept_no is never closed: in the end there is no descriptor for accept().
ComputeExhausted ==
  /\ prog = "compute" /\ spc = "accept" /\ Cardinality(held) = limit /\ ServerEnds
  /\ UNCHANGED <<prog, client, wire, serving>>

Fork ==
  /\ \/ ServerGoes("fork", "close") /\ Serve(cur, "none", "recv") /\ UNCHANGED held
     \/ ServerGoes("fork", "accept") /\ held' = held \ {cur} /\ UNCHANGED serving
  /\ UNCHANGED <<queue, cur, served>>

\* Mutation: the parent leaves the socket to the child.
KeepCopy == ServerGoes("close", "accept") /\ UNCHANGED <<queue, cur, served, held, serving>>

CloseCopy ==
  ServerGoes("close", "accept") /\ held' = held \ {cur} /\ UNCHANGED <<queue, cur, served, serving>>

-----------------------------------------------------------------------------
(* The servers: recv().  It returns -1 once after a reset, which all of    *)
(* them go on with like with a message.                                    *)

Got(c) == req[c] # "none" \/ cl[c] = "reset"
AtEnd(c) == req[c] = "none" /\ cl[c] = "gone"

Take(c, next) ==
  /\ Serve(c, "recv", next) /\ req' = [req EXCEPT ![c] = "none"]
  /\ UNCHANGED <<prog, client, rep, fit, broken, server>>

\* What is to be done after recv(): for a long line, more than fits the array.
Reply(c) == IF req[c] = "long" THEN "long" ELSE "send"

ForkServe(c) == prog = "fork" /\ Got(c) /\ Take(c, Reply(c))
ForkEnd(c) == prog = "fork" /\ AtEnd(c) /\ Take(c, "over")
CalcServe(c) == prog = "calc" /\ Got(c) /\ req[c] # "div0" /\ Take(c, "send")

\* SIGFPE
CalcDivides(c) == prog = "calc" /\ Got(c) /\ req[c] = "div0" /\ Take(c, "over")

\* The child goes back to the parent's loop, where accept() fails for ever.
CalcEnd(c) == prog = "calc" /\ AtEnd(c) /\ Take(c, "spin")

EchoServe(c) == prog = "echo" /\ Got(c) /\ Take(c, Reply(c))

EchoEnd(c) ==
  /\ prog = "echo" /\ AtEnd(c) /\ Serve(c, "recv", "over")
  /\ IF served = MaxServed THEN ServerEnds
       ELSE spc' = "accept" /\ held' = held \ {c} /\ UNCHANGED <<queue, cur, served, limit>>
  /\ UNCHANGED <<prog, client, wire>>

\* The end of file is not noticed.
ChatServe(c) == prog = "chat" /\ (Got(c) \/ AtEnd(c)) /\ Take(c, "send")
ComputeServe(c) == prog = "compute" /\ (Got(c) \/ AtEnd(c)) /\ Take(c, "send")

-----------------------------------------------------------------------------
(* The servers: send(). *)

\* The first answer to a client that has gone is lost, and answered by a reset.
Write(c, from, k, next) ==
  /\ Serve(c, from, next)
  /\ IF cl[c] = "gone" THEN broken' = [broken EXCEPT ![c] = TRUE] /\ UNCHANGED rep
                       ELSE rep' = [rep EXCEPT ![c] = @ + k] /\ UNCHANGED broken
  /\ UNCHANGED <<prog, client, req>>

SigPiped(c) == cl[c] = "reset" \/ broken[c]

\* Mutation: the message and ":Server" are sent one after the other.
AnswerInTwo(c) == prog # "compute" /\ ~ SigPiped(c) /\ Write(c, "send", 2, "recv") /\ UNCHANGED <<fit, server>>

Answer(c) == prog # "compute" /\ ~ SigPiped(c) /\ Write(c, "send", 1, "recv") /\ UNCHANGED <<fit, server>>

\* An answer longer than the array, and so than what the client's recv() takes.
AnswerTooLong(c) ==
  /\ ~ SigPiped(c) /\ Write(c, "long", 2, "recv") /\ UNCHANGED server
  /\ fit' = [fit EXCEPT ![c] = IF @ = "all" THEN "long" ELSE "out"]

\* 93 characters and ":Server": only their NUL is past the server's array.
AnswerJustFits(c) ==
  prog = "fork" /\ ~ SigPiped(c) /\ Write(c, "long", 1, "recv") /\ UNCHANGED <<fit, server>>

\* The server's fgets() fails, and what recv() put into the array is sent: nothing.
ChatAnswerNothing(c) ==
  /\ prog = "chat" /\ cl[c] = "gone" /\ ~ broken[c] /\ Serve(c, "send", "recv")
  /\ UNCHANGED <<prog, client, wire, server>>

\* The next client; the socket of this one stays open.
ComputeAnswer(c) ==
  /\ prog = "compute" /\ Write(c, "send", 1, "over") /\ spc' = "accept"
  /\ UNCHANGED <<fit, queue, cur, served, held, limit>>

\* A signal ends the process that serves the client.
Killed(c, from) ==
  /\ Serve(c, from, "over") /\ UNCHANGED <<prog, client, wire>>
  /\ IF prog \in Forked THEN UNCHANGED server ELSE ServerEnds

SigPipe(c) == SigPiped(c) /\ Killed(c, "send")

\* What strcat() wrote past the array may end it too (or SIGPIPE, as above).
Overflow(c) == Killed(c, "long")

-----------------------------------------------------------------------------

UserStep(c) ==
  \/ Connect(c) \/ Kill(c)
  \/ ForkSend(c) \/ SendNothing(c) \/ CalcSend(c) \/ EchoSend(c) \/ ChatSend(c)

ClientStep(c) == ComputeSend(c) \/ RecvReply(c) \/ RecvEnd(c) \/ ComputeRecv(c)

ServerStep ==
  \/ AcceptAndFork \/ AcceptAndServe \/ ComputeAccept \/ ComputeExhausted
  \/ Fork \/ CloseCopy

ServingStep(c) ==
  \/ ForkServe(c) \/ ForkEnd(c) \/ CalcServe(c) \/ CalcDivides(c) \/ CalcEnd(c)
  \/ EchoServe(c) \/ EchoEnd(c) \/ ChatServe(c) \/ ComputeServe(c)
  \/ Answer(c) \/ AnswerTooLong(c) \/ AnswerJustFits(c) \/ ChatAnswerNothing(c)
  \/ ComputeAnswer(c) \/ SigPipe(c) \/ Overflow(c)

Next ==
  \/ \E c \in Clnt : UserStep(c) \/ ClientStep(c) \/ ServingStep(c)
  \/ ServerStep

\* Every process that can go on is run; no client has to type anything.
Spec ==
  /\ Init /\ [][Next]_vars /\ WF_vars(ServerStep)
  /\ \A c \in Clnt : WF_vars(ClientStep(c)) /\ WF_vars(ServingStep(c))

-----------------------------------------------------------------------------

\* Nothing is promised any more: the server, or the process that serves c, has
\* ended the conversation, or c has; or an answer was longer than c's recv().
Over(c) ==
  \/ cl[c] \in {"gone", "reset"} \/ serving[c] \in {"spin", "over"}
  \/ (cl[c] # "start" /\ ~ Up(c)) \/ fit[c] # "all"

\* What c waits for.
Waits(c) == IF cl[c] = "recv" THEN "answer" ELSE IF cl[c] = "stuck" THEN "nothing" ELSE "no"

Conversation == INSTANCE Dialogue WITH
  waits <- [c \in Clnt |-> IF Over(c) THEN "no" ELSE Waits(c)],
  question <- [c \in Clnt |->
                IF ~ Over(c) /\ (req[c] # "none" \/ serving[c] \in {"send", "long"}) THEN 1 ELSE 0],
  answer <- [c \in Clnt |-> IF Over(c) THEN 0 ELSE rep[c]],
  over <- [c \in Clnt |-> Over(c)]

(* Until an answer is longer than the client's recv() - which lines of 94  *)
(* characters in Chapter_10 and of 92 in Program/Echo bring about, and     *)
(* after which nothing is claimed - every connection of every server is    *)
(* such a conversation: question and answer stay in step although neither  *)
(* side counts; a client that waits for an answer is owed exactly one, one *)
(* that sent nothing waits for nothing until the end, and any other is     *)
(* owed none, whichever other clients were killed, crashed their child,    *)
(* were reset or got out of step.                                          *)
ImplementsDialogue == Conversation!Spec

(* With a child per client, or one request per client, nobody waits for    *)
(* ever who has sent something, also if answers came in two: what comes    *)
(* may be the end of file after a division by zero, a failed fork(), a     *)
(* line too long or the end of the server.  Who has sent nothing ("stuck") *)
(* does wait until killed (Chapter_10/tcp_client.c:55-64).                 *)
Answered ==
  \A c \in Clnt :
    prog \in Forked \cup {"compute"} /\ cl[c] = "recv" ~> cl[c] # "recv"
=============================================================================
