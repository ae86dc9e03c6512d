------------------------------ MODULE MCPrograms ------------------------------
(***************************************************************************)
(* The small programs, which have nothing to do with each other, checked   *)
(* in one run: a behaviour is one of the program in which.  Plain names    *)
(* are those of SharedCounter.                                             *)
(***************************************************************************)
EXTENDS SharedCounter, Sequences

CONSTANTS
  c1, c2,
  Clnt, MaxReq, MaxFd, MaxServed,                       \* RequestReply
  Connected, MaxLines, MaxExtra, Server, Stranger,      \* UdpEcho
  BUF_SIZE, MaxText,                                    \* Texts
  MaxTyped, MaxName                                     \* ChatClient, CopyName

VARIABLES
  which,
  code, status, rest, ends, pipe,
  prog, limit, cl, sent, req, rep, fit, broken, queue, spc, cur, served, held, serving,
  pc, lines, ans, net, msg, extra, lost,
  text, buf, wire, turn, str_len, n, file, terminated, shown, want, heard,
  main, snd, rcv, tcp, incoming, typed,
  present, dir, name, step

\* The lengths of the lines; one of 3 characters fills the array (BUF_SIZE = 4).
MCFiles == {<<1>>, <<2, 1>>, <<1, 2>>, <<2, 1, 2>>, <<3>>, <<1, 3>>}

Pipes == INSTANCE PipePair
Servers == INSTANCE RequestReply
Udp == INSTANCE UdpEcho
Arrays == INSTANCE Texts WITH prog <- text, net <- wire, Files <- MCFiles
Client == INSTANCE ChatClient
Copies == INSTANCE CopyName WITH pc <- step

ASSUME ProgramsAssumption ==
  /\ Servers!RequestReplyAssumption /\ Udp!UdpAssumption /\ Arrays!TextAssumption
  /\ Client!ChatClientAssumption /\ Copies!CopyAssumption

counter == <<num, mutex, destroyed, created, tpc, round, reg, added, taken>>
pipes == <<code, status, rest, ends, pipe>>
servers == <<prog, limit, cl, sent, req, rep, fit, broken, queue, spc, cur, served, held, serving>>
udp == <<pc, lines, ans, net, msg, extra, lost>>
arrays == <<text, buf, wire, turn, str_len, n, file, terminated, shown, want, heard>>
client == <<main, snd, rcv, tcp, incoming, typed>>
copies == <<present, dir, name, step>>

\* Where a program has several initial states, one is enough while another runs.
ProgramsInit ==
  /\ which \in {"counter", "pipes", "servers", "udp", "arrays", "client", "copies"}
  /\ Init /\ Udp!Init /\ Client!Init
  /\ (which # "pipes" => code = "pipe.c") /\ Pipes!Init
  /\ (which # "servers" => prog = "fork") /\ Servers!Init
  /\ (which # "arrays" => text = "bound") /\ Arrays!Init
  /\ (which # "copies" => present = {}) /\ Copies!Init

\* A step of one program, which leaves the others alone.
InCounter(A) ==
  which = "counter" /\ A /\ UNCHANGED <<which, pipes, servers, udp, arrays, client, copies>>
InPipes(A) ==
  which = "pipes" /\ A /\ UNCHANGED <<which, counter, servers, udp, arrays, client, copies>>
InServers(A) ==
  which = "servers" /\ A /\ UNCHANGED <<which, counter, pipes, udp, arrays, client, copies>>
InUdp(A) ==
  which = "udp" /\ A /\ UNCHANGED <<which, counter, pipes, servers, arrays, client, copies>>
InArrays(A) ==
  which = "arrays" /\ A /\ UNCHANGED <<which, counter, pipes, servers, udp, client, copies>>
InClient(A) ==
  which = "client" /\ A /\ UNCHANGED <<which, counter, pipes, servers, udp, arrays, copies>>
InCopies(A) ==
  which = "copies" /\ A /\ UNCHANGED <<which, counter, pipes, servers, udp, arrays, client>>

ProgramsNext ==
  \/ InCounter(Next) \/ InPipes(Pipes!Next) \/ InServers(Servers!Next) \/ InUdp(Udp!Next)
  \/ InArrays(Arrays!Next) \/ InClient(Client!Next) \/ InCopies(Copies!Next)

programs == <<which, counter, pipes, servers, udp, arrays, client, copies>>

\* The fairness of each module.
ProgramsSpec ==
  /\ ProgramsInit /\ [][ProgramsNext]_programs
  /\ \A p \in Pipes!Proc : WF_programs(InPipes(Pipes!ProcStep(p)))
  /\ WF_programs(InServers(Servers!ServerStep))
  /\ WF_programs(InUdp(Udp!ServerRecv \/ Udp!ServerSend))
  /\ \A c \in Clnt :
       /\ WF_programs(InServers(Servers!ClientStep(c)))
       /\ WF_programs(InServers(Servers!ServingStep(c)))
       /\ WF_programs(InUdp(Udp!RecvAnswer(c)))
  /\ WF_programs(InClient(Client!MainStep)) /\ WF_programs(InClient(Client!RcvStep))
  /\ WF_programs(InClient(Client!Write \/ Client!Exit))

-----------------------------------------------------------------------------

(* The type invariants of the modules. *)
ProgramsTypeOK ==
  /\ TypeOK /\ Pipes!TypeOK /\ Servers!TypeOK /\ Udp!TypeOK
  /\ Arrays!TypeOK /\ Client!TypeOK /\ Copies!TypeOK

(* The properties of the other modules, where they are explained. *)
PipesEnd == which = "pipes" => Pipes!PipesEnd
ImplementsDialogue == Servers!ImplementsDialogue
Answered == Servers!Answered
InStep == Udp!InStep
LineAnswered == Udp!LineAnswered
ShownIsLast == Arrays!ShownIsLast
OnlyNewText == Arrays!OnlyNewText
NewsInOrder == Arrays!NewsInOrder
UserEndsClient == Client!UserEndsClient
OldFilesKept == Copies!OldFilesKept
=============================================================================
