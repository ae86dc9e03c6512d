-------------------------------- MODULE Quiz2 --------------------------------
(***************************************************************************)
(* Quiz2: quiz2_server.c takes the number of a service from a multicast    *)
(* datagram.  Service 1 takes a second datagram, answers its sender and    *)
(* sends a file over TCP to whoever connects; service 2 is a chat over     *)
(* another socket that ends with anybody's "q".  quiz2_client.c is the     *)
(* other side.                                                             *)
(*                                                                         *)
(* A datagram is its sender and its text; it may be lost, those that       *)
(* arrive stay in order.  A file is "missing", "small" or "large".         *)
(***************************************************************************)
EXTENDS Integers, Sequences, FiniteSets

CONSTANTS
  Clnt,         \* the clients, each run once
  Answers,      \* per client: what its user may type for the service
  GroupDigits,  \* which of 1 and 2 are in the group's address or port
  File,         \* what konkuk.txt is
  MaxLines,     \* bound: chat lines a client sends before "q"
  None

\* The service numbers strstr() finds in a text.
Digits == [answer \in {"1", "2", "3", "12"} |->
             CASE answer = "1" -> {1} [] answer = "2" -> {2}
               [] answer = "3" -> {} [] answer = "12" -> {1, 2}]
Text == DOMAIN Digits \cup {"request"}
In(text) == IF text = "request" THEN GroupDigits ELSE Digits[text]

ASSUME Quiz2Assumption ==
  /\ Answers \in [Clnt -> SUBSET DOMAIN Digits] /\ MaxLines \in Nat
  /\ GroupDigits \subseteq {1, 2} /\ 2 \in GroupDigits     \* 224..239
  /\ File \in {"missing", "small", "large"} /\ None \notin Clnt

VARIABLES
  cl,           \* per client: its control
  lines,        \* per client: chat lines sent
  mcast, mcOpen,        \* serv_sock: what waits in it, and is it open?
  chatq, chatOpen,      \* udp_sock: the same
  replies, answers,     \* per client: datagrams waiting in sock and chat_sock
  listening, backlog,   \* tcpsocket
  spc, peer, clisocket, \* the server: its control, clnt_adr, and clisocket
  child,        \* per client: the child that serves it
  aborted       \* history: has accept() failed?

dgrams == <<mcast, mcOpen, chatq, chatOpen, replies, answers>>
tcp == <<listening, backlog, clisocket, child>>
vars == <<cl, lines, dgrams, tcp, spc, peer, aborted>>

Over == {"done", "refused", "killed"}

TypeOK ==
  /\ cl \in [Clnt -> {"start", "request", "reply", "connect", "recv", "type", "answer"} \cup Over]
  /\ lines \in [Clnt -> 0 .. MaxLines]
  /\ mcast \in Seq(Clnt \X Text) /\ chatq \in Seq(Clnt \X {"line", "q"})
  /\ {mcOpen, chatOpen, listening, aborted} \subseteq BOOLEAN
  /\ ~ (mcOpen /\ chatOpen)     \* they share a descriptor
  /\ replies \in [Clnt -> 0 .. 2] /\ answers \in [Clnt -> 0 .. 1] /\ backlog \in Seq(Clnt)
  /\ spc \in {"select", "request", "reply", "listen", "accept", "fork", "close",
              "bind", "chat", "answer", "dead"}
  /\ {peer, clisocket} \subseteq Clnt \cup {None}
  /\ child \in [Clnt -> {"none", "send", "bye", "exited", "crashed"}]

Init ==
  /\ cl = [c \in Clnt |-> "start"] /\ child = [c \in Clnt |-> "none"]
  /\ lines = [c \in Clnt |-> 0] /\ replies = lines /\ answers = lines
  /\ mcast = << >> /\ chatq = << >> /\ backlog = << >>
  /\ mcOpen = TRUE /\ chatOpen = FALSE /\ listening = FALSE /\ aborted = FALSE
  /\ spc = "select" /\ peer = None /\ clisocket = None

ClientGoes(c, from, to) ==
  cl[c] = from /\ cl' = [cl EXCEPT ![c] = to] /\ UNCHANGED <<spc, peer, aborted>>
ServerMoves(from, to) == spc = from /\ spc' = to /\ UNCHANGED <<cl, lines>>
ServerGoes(from, to) == ServerMoves(from, to) /\ UNCHANGED aborted

\* What a queue is after a sendto(): the datagram is lost, or the socket has it.
Sent(queue, open, d) == {queue} \cup (IF open THEN {Append(queue, d)} ELSE {})

ToServer(d) ==
  mcast' \in Sent(mcast, mcOpen, d) /\ UNCHANGED <<mcOpen, chatq, chatOpen, replies, answers, tcp>>
ToChat(d) ==
  chatq' \in Sent(chatq, chatOpen, d) /\ UNCHANGED <<mcast, mcOpen, chatOpen, replies, answers, tcp>>

-----------------------------------------------------------------------------
(* The client: service 1, l.70-136. *)

SendSelection(c) ==
  /\ \E answer \in Answers[c] :
       ClientGoes(c, "start", IF answer = "1" THEN "request" ELSE "type") /\ ToServer(<<c, answer>>)
  /\ UNCHANGED lines

SendRequest(c) == ClientGoes(c, "request", "reply") /\ ToServer(<<c, "request">>) /\ UNCHANGED lines

RecvReply(c) ==
  /\ ClientGoes(c, "reply", "connect")
  /\ replies[c] > 0 /\ replies' = [replies EXCEPT ![c] = @ - 1]
  /\ UNCHANGED <<lines, mcast, mcOpen, chatq, chatOpen, answers, tcp>>

\* The reply is sent before listen() is called.
Connect(c) ==
  /\ \/ listening /\ ClientGoes(c, "connect", "recv") /\ backlog' = Append(backlog, c)
     \/ ~ listening /\ ClientGoes(c, "connect", "refused") /\ UNCHANGED backlog
  /\ UNCHANGED <<lines, dgrams, listening, clisocket, child>>

\* End of file: the child shut the socket down, or no process has it any more.
RecvEof(c) ==
  /\ \/ child[c] = "exited"
     \/ child[c] # "send" /\ child[c] # "bye" /\ clisocket # c /\ \A k \in DOMAIN backlog : backlog[k] # c
  /\ ClientGoes(c, "recv", "done") /\ UNCHANGED <<lines, dgrams, tcp>>

(* The client: service 2, l.149-168. *)

SendLine(c) ==
  /\ lines[c] < MaxLines /\ lines' = [lines EXCEPT ![c] = @ + 1]
  /\ ClientGoes(c, "type", "answer") /\ ToChat(<<c, "line">>)

SendQuit(c) == ClientGoes(c, "type", "done") /\ ToChat(<<c, "q">>) /\ UNCHANGED lines

RecvAnswer(c) ==
  /\ ClientGoes(c, "answer", "type")
  /\ answers[c] > 0 /\ answers' = [answers EXCEPT ![c] = @ - 1]
  /\ UNCHANGED <<lines, mcast, mcOpen, chatq, chatOpen, replies, tcp>>

\* A user ends a client, most of which can wait for ever.
Kill(c) ==
  /\ cl[c] # "start" /\ cl[c] \notin Over /\ ClientGoes(c, cl[c], "killed")
  /\ UNCHANGED <<lines, dgrams, tcp>>

-----------------------------------------------------------------------------
(* The server: service 1, l.105-213. *)

\* Mutation: the multicast socket stays open during the chat.
SelectionKeepsSocket ==
  /\ mcOpen /\ mcast # << >> /\ mcast' = Tail(mcast) /\ peer' = Head(mcast)[1]
  /\ LET found == In(Head(mcast)[2]) IN
       ServerGoes("select", IF 1 \in found THEN "request" ELSE IF 2 \in found THEN "bind" ELSE "select")
  /\ UNCHANGED <<mcOpen, chatq, chatOpen, replies, answers, tcp>>

\* "1" anywhere in the datagram is service 1, else "2" is service 2, for which
\* the multicast socket is closed.
Selection ==
  /\ mcOpen /\ mcast # << >> /\ peer' = Head(mcast)[1]
  /\ LET found == In(Head(mcast)[2]) IN
       \/ 1 \in found /\ ServerGoes("select", "request") /\ mcast' = Tail(mcast) /\ mcOpen' = TRUE
       \/ found = {2} /\ ServerGoes("select", "bind") /\ mcast' = << >> /\ mcOpen' = FALSE
       \/ found = {} /\ ServerGoes("select", "select") /\ mcast' = Tail(mcast) /\ mcOpen' = TRUE
  /\ UNCHANGED <<chatq, chatOpen, replies, answers, tcp>>

\* The next datagram, whoever sent it and whatever it says, is the request.
Request ==
  /\ ServerGoes("request", "reply")
  /\ mcast # << >> /\ mcast' = Tail(mcast) /\ peer' = Head(mcast)[1]
  /\ UNCHANGED <<mcOpen, chatq, chatOpen, replies, answers, tcp>>

ReplyTo(to) ==
  /\ ServerGoes("reply", "listen")
  /\ replies' \in {replies, [c \in Clnt |-> IF c \in to THEN replies[c] + 1 ELSE replies[c]]}
  /\ UNCHANGED <<mcast, mcOpen, chatq, chatOpen, answers, tcp, peer>>

\* Mutation: the answer goes to everybody who waits for one.
ReplyToGroup == ReplyTo({c \in Clnt : cl[c] = "reply" /\ replies[c] = 0})
Reply == ReplyTo({peer})

Listen ==
  /\ ServerGoes("listen", "accept") /\ listening' = TRUE
  /\ UNCHANGED <<dgrams, backlog, clisocket, child, peer>>

Accept ==
  /\ ServerGoes("accept", "fork") /\ backlog # << >> /\ backlog' = Tail(backlog)
  /\ clisocket' = Head(backlog) /\ peer' = clisocket'
  /\ UNCHANGED <<dgrams, listening, child>>

\* No memory or descriptor is free: the next service, and who has connected waits
\* for the accept() of another.
AcceptFails ==
  ServerMoves("accept", "select") /\ aborted' = TRUE /\ UNCHANGED <<dgrams, tcp, peer>>

\* fork() may fail: then the client is just closed.
Fork ==
  /\ ServerGoes("fork", "close")
  /\ child' \in {child, [child EXCEPT ![clisocket] = "send"]}
  /\ UNCHANGED <<dgrams, listening, backlog, clisocket, peer>>

\* Mutation: the parent leaves the socket to the child.
KeepCli == ServerGoes("close", "select") /\ UNCHANGED <<dgrams, tcp, peer>>

CloseCli ==
  /\ ServerGoes("close", "select") /\ clisocket' = None
  /\ UNCHANGED <<dgrams, listening, backlog, child, peer>>

ChildGoes(c, from, to) ==
  /\ child[c] = from /\ child' = [child EXCEPT ![c] = to]
  /\ UNCHANGED <<cl, lines, dgrams, listening, backlog, clisocket, spc, peer, aborted>>

\* The child sends the file.  It dies of fread(NULL) if there is none, maybe of
\* fread() from the file it closed after a full block, and of SIGPIPE.
ChildSends(c) ==
  \/ File # "missing" /\ ChildGoes(c, "send", "bye")
  \/ (File # "small" \/ cl[c] # "recv") /\ ChildGoes(c, "send", "crashed")

\* shutdown(), close() and return.
ChildEnds(c) == ChildGoes(c, "bye", "exited")

(* The server: service 2, l.216-252. *)

\* bind() of the chat's socket; an error ends the server.
Bind ==
  /\ \/ ServerGoes("bind", "chat") /\ chatOpen' = TRUE
     \/ ServerGoes("bind", "dead") /\ UNCHANGED chatOpen
  /\ UNCHANGED <<mcast, mcOpen, chatq, replies, answers, tcp, peer>>

TakeLine ==
  /\ ServerGoes("chat", "answer")
  /\ chatq # << >> /\ Head(chatq)[2] = "line" /\ chatq' = Tail(chatq)
  /\ UNCHANGED <<mcast, mcOpen, chatOpen, replies, answers, tcp>>

\* Mutation: clnt_adr is filled in for the first line only.
ChatLineFirstPeer == TakeLine /\ peer' = peer
ChatLine == TakeLine /\ peer' = Head(chatq)[1]

\* Anybody's "q" ends the chat; recvfrom() on the closed serv_sock then fails
\* for ever.
ChatQuit ==
  /\ ServerGoes("chat", "select") /\ chatq # << >> /\ Head(chatq)[2] = "q"
  /\ peer' = Head(chatq)[1] /\ chatq' = << >> /\ chatOpen' = FALSE
  /\ UNCHANGED <<mcast, mcOpen, replies, answers, tcp>>

ChatAnswer ==
  /\ ServerGoes("answer", "chat") /\ answers' \in {answers, [answers EXCEPT ![peer] = @ + 1]}
  /\ UNCHANGED <<mcast, mcOpen, chatq, chatOpen, replies, tcp, peer>>

-----------------------------------------------------------------------------

ClientStep(c) ==
  \/ SendSelection(c) \/ SendRequest(c) \/ RecvReply(c) \/ Connect(c) \/ RecvEof(c)
  \/ SendLine(c) \/ SendQuit(c) \/ RecvAnswer(c)

ServerStep ==
  \/ Selection \/ Request \/ Reply \/ Listen \/ Accept \/ Fork \/ CloseCli
  \/ Bind \/ ChatLine \/ ChatQuit \/ ChatAnswer

ChildStep(c) == ChildSends(c) \/ ChildEnds(c)

Next ==
  \/ \E c \in Clnt : ClientStep(c) \/ Kill(c) \/ ChildStep(c)
  \/ ServerStep \/ AcceptFails

\* Every process that can go on is run, but nobody has to type anything.
Spec ==
  /\ Init /\ [][Next]_vars /\ WF_vars(ServerStep)
  /\ \A c \in Clnt : WF_vars(ChildStep(c)) /\ WF_vars(RecvEof(c))

-----------------------------------------------------------------------------

\* The queue of the listening socket is of the client answered last.
OneServed ==
  /\ \A k \in DOMAIN backlog : backlog[k] = peer
  /\ Len(backlog) <= (IF spc \in {"listen", "accept"} THEN 1 ELSE 0)
  /\ \A c \in Clnt : cl[c] = "refused" =>
       peer = c /\ spc \in {"listen", "accept"} /\ backlog = << >>

(* Unless an accept() has failed, the client that is served is the one     *)
(* that was answered last (l.119-148), however the datagrams of several    *)
(* clients interleave: nobody else is in the queue of the listening        *)
(* socket, and nobody at all when a service is selected.  A client is      *)
(* refused only between the very first reply and listen(), and then the    *)
(* server waits in accept() for that client: the price of answering before *)
(* listening.                                                              *)
ServedIsAnswered == ~ aborted => OneServed

(* Once connected, a client comes to an end of file, whatever the file is, *)
(* whether or not a child could be forked, and whatever service is next -  *)
(* unless an accept() fails (l.149-152), which may leave it waiting.       *)
ConnectedServed == \A c \in Clnt : cl[c] = "recv" ~> cl[c] \in Over \/ aborted

\* Lines of c that are on their way to the server, in its hands, or answered.
Underway(c) ==
  Cardinality({k \in DOMAIN chatq : chatq[k] = <<c, "line">>}) + answers[c]
    + (IF spc = "answer" /\ peer = c THEN 1 ELSE 0)

(* The chat answers a client once and only the line it is waiting with, so *)
(* no answer is left over for a later one, whoever else is chatting.       *)
AnswerFitsLine ==
  \A c \in Clnt :
    Underway(c) <= (IF cl[c] \in {"answer", "killed"} THEN 1 ELSE 0)
=============================================================================
