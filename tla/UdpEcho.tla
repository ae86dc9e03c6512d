------------------------------- MODULE UdpEcho -------------------------------
(***************************************************************************)
(* Chapter_6_UDP: uecho_server.c with its clients uecho_client.c and       *)
(* uecho_connect_client.c, whose socket only hears the server.  A client   *)
(* sends a line and takes the next datagram that comes for the answer;     *)
(* there is no timeout and nothing tells the lines apart.                  *)
(*                                                                         *)
(* The network loses, duplicates and reorders datagrams, and other hosts   *)
(* send to the clients.  The lines of a client are numbered; 0 is what a   *)
(* stranger sends.                                                         *)
(***************************************************************************)
EXTENDS Integers, FiniteSets, Bags

CONSTANTS
  Clnt,         \* the clients
  Connected,    \* those that call connect()
  MaxLines,     \* bound: lines a client sends
  MaxExtra,     \* bound, per client: duplicates and datagrams of strangers
  Server, Stranger, None

\* What the constants must satisfy.
UdpAssumption ==
  /\ Connected \subseteq Clnt /\ MaxLines \in Nat /\ MaxExtra \in Nat
  /\ Server \notin Clnt /\ Stranger \notin Clnt \cup {Server}

VARIABLES
  pc, lines, ans,       \* per client: control, lines sent, line of the last answer
  net,                  \* the datagrams underway
  msg,                  \* the server's message and clnt_adr, or None
  extra,        \* history, per client: duplicates and datagrams of strangers
  lost          \* history, per client: did the network lose one of its datagrams?

clients == <<pc, lines, ans>>
vars == <<clients, net, msg, extra, lost>>

Host == Clnt \cup {Server, Stranger}
Datagram == [src : Host, dst : Host, line : 0 .. MaxLines]

TypeOK ==
  /\ pc \in [Clnt -> {"type", "wait", "closed"}]
  /\ {lines, ans} \subseteq [Clnt -> 0 .. MaxLines]
  /\ IsABag(net) /\ BagToSet(net) \subseteq Datagram /\ msg \in Datagram \cup {None}
  /\ extra \in [Clnt -> 0 .. MaxExtra] /\ lost \in [Clnt -> BOOLEAN]

Init ==
  /\ pc = [c \in Clnt |-> "type"] /\ lines = [c \in Clnt |-> 0] /\ ans = lines
  /\ net = EmptyBag /\ msg = None
  /\ extra = [c \in Clnt |-> 0] /\ lost = [c \in Clnt |-> FALSE]

Packet(s, d, n) == [src |-> s, dst |-> d, line |-> n]
Of(c, d) == d.src = c \/ d.dst = c

Sends(d) == net' = net (+) SetToBag({d})
Takes(d) == net' = net (-) SetToBag({d})
Goes(c, from, to) == pc[c] = from /\ pc' = [pc EXCEPT ![c] = to]

-----------------------------------------------------------------------------
(* The clients, l.34-53. *)

SendLine(c) ==
  /\ Goes(c, "type", "wait") /\ lines[c] < MaxLines /\ lines' = [lines EXCEPT ![c] = @ + 1]
  /\ Sends(Packet(c, Server, lines'[c])) /\ UNCHANGED <<ans, msg, extra, lost>>

Quit(c) == Goes(c, "type", "closed") /\ UNCHANGED <<lines, ans, net, msg, extra, lost>>

\* Any datagram that reaches the socket is the answer.
Hear(c, from) ==
  /\ Goes(c, "wait", "type")
  /\ \E d \in BagToSet(net) :
       d.dst = c /\ d.src \in from /\ ans' = [ans EXCEPT ![c] = d.line] /\ Takes(d)
  /\ UNCHANGED <<lines, msg, extra, lost>>

\* Mutation: connect() was not called.
RecvFromAnybody(c) == Hear(c, Host)

\* connect() keeps the datagrams of strangers away.
RecvAnswer(c) == Hear(c, IF c \in Connected THEN {Server} ELSE Host)

-----------------------------------------------------------------------------
(* The server, l.38-53. *)

ServerRecv ==
  /\ msg = None /\ \E d \in BagToSet(net) : d.dst = Server /\ msg' = d /\ Takes(d)
  /\ UNCHANGED <<clients, extra, lost>>

\* Mutation: only the datagrams of one client are answered.
ServerSendsToOne ==
  /\ msg # None /\ msg' = None /\ UNCHANGED <<clients, extra, lost>>
  /\ IF msg.src \in Connected THEN Sends(Packet(Server, msg.src, msg.line)) ELSE UNCHANGED net

ServerSend ==
  /\ msg # None /\ msg' = None /\ UNCHANGED <<clients, extra, lost>>
  /\ Sends(Packet(Server, msg.src, msg.line))

-----------------------------------------------------------------------------
(* The network and other hosts (external). *)

Lose(c) ==
  /\ \E d \in BagToSet(net) : Of(c, d) /\ Takes(d)
  /\ lost' = [lost EXCEPT ![c] = TRUE] /\ UNCHANGED <<clients, msg, extra>>

Duplicate(c) ==
  /\ \E d \in BagToSet(net) : Of(c, d) /\ Sends(d)
  /\ extra[c] < MaxExtra /\ extra' = [extra EXCEPT ![c] = @ + 1]
  /\ UNCHANGED <<clients, msg, lost>>

\* A stranger can send to a client whose socket has a port.
Intrude(c) ==
  /\ extra[c] < MaxExtra /\ lines[c] > 0 /\ ~ BagIn(Packet(Stranger, c, 0), net)
  /\ Sends(Packet(Stranger, c, 0))
  /\ extra' = IF c \in Connected THEN extra ELSE [extra EXCEPT ![c] = @ + 1]
  /\ UNCHANGED <<clients, msg, lost>>

-----------------------------------------------------------------------------

Next ==
  \/ \E c \in Clnt : SendLine(c) \/ Quit(c) \/ RecvAnswer(c) \/ Lose(c) \/ Duplicate(c) \/ Intrude(c)
  \/ ServerRecv \/ ServerSend

\* The server and a client with something to read are run.
Spec ==
  /\ Init /\ [][Next]_vars /\ WF_vars(ServerRecv \/ ServerSend)
  /\ \A c \in Clnt : WF_vars(RecvAnswer(c))

-----------------------------------------------------------------------------

\* A datagram of c that its socket would take or the server echo.
Due(c, d) == Of(c, d) /\ (c \in Connected => Stranger \notin {d.src, d.dst})

\* Those underway, of which each copy has a number.
DueCopies(c) == UNION {{d} \X (1 .. net[d]) : d \in {e \in BagToSet(net) : Due(c, e)}}

\* How many of them there are, the message of the server included.
Underway(c) ==
  Cardinality(DueCopies(c)) + (IF msg # None THEN IF msg.src = c THEN 1 ELSE 0 ELSE 0)

(* As long as nothing was duplicated and no stranger got through, each     *)
(* answer is the echo of the line just sent, whatever is reordered or      *)
(* comes to the server from others; connect() is enough against strangers. *)
(* And a client is never more answers behind than the network made extra   *)
(* datagrams for it: stop and wait adds none of its own.                   *)
InStep ==
  \A c \in Clnt :
    /\ extra[c] = 0 /\ pc[c] # "wait" => ans[c] = lines[c]
    /\ Underway(c) <= extra[c] + (IF pc[c] = "wait" THEN 1 ELSE 0)

(* A line is answered unless one of the client's datagrams was lost.       *)
LineAnswered == \A c \in Clnt : pc[c] = "wait" ~> pc[c] # "wait" \/ lost[c]
=============================================================================
