---------------------------- MODULE ProgramsProofs ----------------------------
(***************************************************************************)
(* What is proved of the small programs of MCPrograms, for any values of   *)
(* the constants: the counter, the servers as dialogues, the names of      *)
(* copies, the UDP echo, what is on the screen, the two pipes, the chat    *)
(* client and all types.  A behaviour of MCPrograms is one of each of its  *)
(* modules, which the lemmas Runs... say; the rest is about the module.    *)
(***************************************************************************)
EXTENDS MCPrograms, FiniteSetTheorems, NaturalsInduction, WellFoundedInduction, TLAPS

-----------------------------------------------------------------------------
(* The counter: no step is lost, for any number of threads and rounds.     *)
(* Until the mutex is destroyed, whoever is between taking and giving it   *)
(* back holds it, so nobody stores between another's load and store.       *)

Critical == {"load", "store", "unlock"}

\* A thread that main has not created yet has done nothing.
Untouched == \A t \in Thread :
  /\ t >= created => tpc[t] = "none"
  /\ tpc[t] = "none" => round[t] = 0

MutexHeld == ~ destroyed => \A t \in Thread : tpc[t] \in Critical => mutex = t

Intact == created <= NUM_THREAD => ~ destroyed

\* The loop's test has been passed.
InLoop == \A t \in Thread : tpc[t] \in {"lock", "load", "store"} => round[t] < STEPS

RegFresh == ~ destroyed => \A t \in Thread : tpc[t] = "store" => reg[t] = num

IInv == TypeOK /\ Intact /\ Untouched /\ MutexHeld /\ InLoop /\ RegFresh /\ NoLostUpdate

LEMMA InitIInv == Init => IInv
<1> SUFFICES ASSUME Init PROVE IInv
  OBVIOUS
<1>1. TypeOK
  <2>1. created \in 0 .. NUM_THREAD + 2 /\ 0 \in 0 .. STEPS /\ num \in Int
    BY CounterAssumption DEF Init
  <2> QED
    BY <2>1 DEF Init, TypeOK
<1>2. Untouched /\ MutexHeld /\ InLoop
  BY DEF Init, Untouched, MutexHeld, InLoop, Critical
<1>3. Intact /\ RegFresh /\ NoLostUpdate
  BY DEF Init, Intact, RegFresh, NoLostUpdate
<1> QED
  BY <1>1, <1>2, <1>3 DEF IInv

LEMMA CreateIInv == IInv /\ Create => IInv'
<1> SUFFICES ASSUME IInv, Create PROVE IInv'
  OBVIOUS
<1> USE CounterAssumption DEF IInv, Create, Goto
<1>1. created \in Thread /\ created' = created + 1 /\ tpc[created] = "none"
      /\ round[created] = 0
  BY DEF Thread, TypeOK, Untouched
<1>2. TypeOK' /\ Intact'
  BY <1>1 DEF TypeOK, Intact, Thread
<1>3. Untouched'
  BY <1>1 DEF Untouched, TypeOK, Thread
<1>4. MutexHeld'
  BY <1>1 DEF MutexHeld, TypeOK, Critical
<1>5. InLoop'
  BY <1>1 DEF InLoop, TypeOK
<1>6. RegFresh' /\ NoLostUpdate'
  BY <1>1 DEF RegFresh, NoLostUpdate, TypeOK
<1> QED
  BY <1>2, <1>3, <1>4, <1>5, <1>6

LEMMA ThreadIInv == ASSUME NEW t \in Thread, IInv, ThreadStep(t) PROVE IInv'
<1> USE CounterAssumption DEF IInv
<1>1. Thread \subseteq Nat /\ Inc \subseteq Thread /\ Des \subseteq Thread /\ Inc \cap Des = {}
  BY DEF Thread, Inc, Des
<1>2. /\ tpc[t] # "none" /\ t < created /\ created' = created /\ destroyed' = destroyed
      /\ mutex \in Thread \cup {None}
  BY <1>1 DEF Untouched, TypeOK, ThreadStep, IncLock, DesLock, Load, IncStore, DesStore, Unlock
<1>3. CASE IncLock(t) \/ DesLock(t)
  <2>1. /\ tpc[t] = "lock" /\ tpc' = [tpc EXCEPT ![t] = "load"]
        /\ mutex' \in {mutex, t} /\ (~ destroyed => mutex = None /\ mutex' = t)
        /\ UNCHANGED <<num, round, reg, added, taken>>
    BY <1>3 DEF IncLock, DesLock, Lock, Goto
  <2>2. TypeOK' /\ Intact' /\ Untouched' /\ InLoop' /\ RegFresh' /\ NoLostUpdate'
    BY <1>1, <1>2, <2>1 DEF TypeOK, Intact, Untouched, InLoop, RegFresh, NoLostUpdate
  <2>3. MutexHeld'
    BY <1>1, <1>2, <2>1 DEF TypeOK, MutexHeld, Critical
  <2> QED
    BY <2>2, <2>3
<1>4. CASE Load(t)
  BY <1>1, <1>2, <1>4 DEF Load, Goto, TypeOK, Intact, Untouched, MutexHeld, InLoop, RegFresh,
     NoLostUpdate, Critical
<1>5. CASE IncStore(t) \/ DesStore(t)
  <2>1. /\ tpc[t] = "store" /\ round[t] < STEPS /\ round' = [round EXCEPT ![t] = @ + 1]
        /\ UNCHANGED <<mutex, reg>>
    BY <1>5 DEF IncStore, DesStore, InLoop
  <2>2. ~ destroyed => reg[t] = num /\ \A s \in Thread : tpc[s] = "store" => s = t
    BY <2>1 DEF MutexHeld, RegFresh, Critical
  <2>3. round[t] \in Nat /\ round'[t] = round[t] + 1 /\ round'[t] \in 0 .. STEPS
    BY <2>1 DEF TypeOK
  <2>4. \/ tpc' = [tpc EXCEPT ![t] = "load"] /\ round'[t] < STEPS
        \/ tpc' = [tpc EXCEPT ![t] = "unlock"]
    BY <1>5 DEF IncStore, DesStore, Goto
  <2>5. TypeOK' /\ Intact' /\ NoLostUpdate'
    <3>1. num' \in Int /\ added' \in Nat /\ taken' \in Nat
      BY <1>5 DEF IncStore, DesStore, TypeOK
    <3>2. ~ destroyed => num' = added' - taken'
      BY <1>5, <2>2 DEF IncStore, DesStore, TypeOK, NoLostUpdate
    <3> QED
      BY <1>2, <2>1, <2>3, <2>4, <3>1, <3>2 DEF TypeOK, Intact, NoLostUpdate
  <2>6. Untouched' /\ MutexHeld' /\ InLoop'
    BY <1>1, <1>2, <2>1, <2>3, <2>4 DEF Untouched, MutexHeld, InLoop, TypeOK, Critical
  <2>7. RegFresh'
    BY <1>2, <2>1, <2>2, <2>4 DEF RegFresh, TypeOK
  <2> QED
    BY <2>5, <2>6, <2>7
<1>6. CASE Unlock(t)
  <2>1. /\ tpc[t] = "unlock" /\ mutex' \in {mutex, None}
        /\ (~ destroyed => mutex = t /\ mutex' = None)
        /\ UNCHANGED <<num, round, reg, added, taken>>
    BY <1>6 DEF Unlock, MutexHeld, Critical
  <2>2. \/ tpc' = [tpc EXCEPT ![t] = "lock"] /\ round[t] < STEPS
        \/ tpc' = [tpc EXCEPT ![t] = "done"]
    BY <1>6 DEF Unlock, Goto
  <2>3. TypeOK' /\ Intact' /\ Untouched' /\ InLoop' /\ RegFresh' /\ NoLostUpdate'
    BY <1>1, <1>2, <2>1, <2>2 DEF TypeOK, Intact, Untouched, InLoop, RegFresh, NoLostUpdate
  <2>4. MutexHeld'
    BY <1>1, <1>2, <2>1, <2>2 DEF TypeOK, MutexHeld, Critical
  <2> QED
    BY <2>3, <2>4
<1> QED
  BY <1>3, <1>4, <1>5, <1>6 DEF ThreadStep

LEMMA StepIInv == IInv /\ [Next]_vars => IInv'
<1> SUFFICES ASSUME IInv, [Next]_vars PROVE IInv'
  OBVIOUS
<1>1. CASE Create
  BY <1>1, CreateIInv
<1>2. CASE Destroy
  <2>1. /\ created = NUM_THREAD /\ created' = NUM_THREAD + 1 /\ destroyed' \in BOOLEAN
        /\ ~ destroyed /\ UNCHANGED <<num, mutex, tpc, round, reg, added, taken>>
    <3>1. created = NUM_THREAD /\ destroyed' \in {mutex = None, TRUE}
      BY <1>2 DEF Destroy
    <3>2. destroyed' \in BOOLEAN
      BY <3>1
    <3>3. created <= NUM_THREAD
      BY <3>1, CounterAssumption
    <3>4. ~ destroyed
      BY <3>3 DEF IInv, Intact
    <3> QED
      BY <1>2, <3>1, <3>2, <3>4 DEF Destroy
  <2>2. ~ (created' <= NUM_THREAD) /\ created' \in 0 .. NUM_THREAD + 2
    BY <2>1, CounterAssumption
  <2>3. TypeOK' /\ Intact'
    BY <2>1, <2>2 DEF IInv, TypeOK, Intact
  <2>4. Untouched'
    BY <2>1, CounterAssumption DEF IInv, Untouched, Thread
  <2>5. MutexHeld' /\ InLoop' /\ RegFresh' /\ NoLostUpdate'
    BY <2>1 DEF IInv, MutexHeld, InLoop, RegFresh, NoLostUpdate
  <2> QED
    BY <2>3, <2>4, <2>5 DEF IInv
<1>3. CASE Return
  <2>1. TypeOK' /\ Intact' /\ Untouched'
    BY <1>3, CounterAssumption DEF Return, IInv, TypeOK, Intact, Untouched, Thread
  <2>2. MutexHeld' /\ InLoop' /\ RegFresh' /\ NoLostUpdate'
    BY <1>3 DEF Return, IInv, MutexHeld, InLoop, RegFresh, NoLostUpdate
  <2> QED
    BY <2>1, <2>2 DEF IInv
<1>4. CASE \E t \in Thread : ThreadStep(t)
  BY <1>4, ThreadIInv
<1>5. CASE UNCHANGED vars
  BY <1>5 DEF vars, IInv, TypeOK, Intact, Untouched, MutexHeld, InLoop, RegFresh, NoLostUpdate
<1> QED
  BY <1>1, <1>2, <1>3, <1>4, <1>5 DEF Next

(* Both halves of the threads together, whatever their number: num is      *)
(* always what was added less what was taken (C18_MultiThread.c l.32-50).  *)
THEOREM CounterCorrect == Spec => []NoLostUpdate
<1>1. IInv => NoLostUpdate
  BY DEF IInv
<1> QED
  BY <1>1, InitIInv, StepIInv, PTL DEF Spec

(* The types, the bound on the rounds of a thread among them.              *)
THEOREM CounterTypes == Spec => []TypeOK
<1>1. IInv => TypeOK
  BY DEF IInv
<1> QED
  BY <1>1, InitIInv, StepIInv, PTL DEF Spec

-----------------------------------------------------------------------------
(* A behaviour of MCPrograms is one of each module, but for its fairness.  *)

LEMMA RunsServers == ProgramsSpec => Servers!Init /\ [][Servers!Next]_(Servers!vars)
<1>1. ProgramsInit => Servers!Init
  BY DEF ProgramsInit
<1>2. [ProgramsNext]_programs => [Servers!Next]_(Servers!vars)
  BY DEF ProgramsNext, programs, InCounter, InPipes, InServers, InUdp, InArrays, InClient, InCopies,
     servers, Servers!vars, Servers!client, Servers!wire, Servers!server
<1>3. QED
  BY <1>1, <1>2, PTL DEF ProgramsSpec

ServerFacts == INSTANCE RequestReplyProofs

LEMMA SameServers == Servers!Init /\ [][Servers!Next]_(Servers!vars) => ServerFacts!Steps
<1>1. Servers!Init => ServerFacts!Init
  BY DEF Servers!Init, ServerFacts!Init, Servers!Forked, ServerFacts!Forked
<1>2. UNCHANGED Servers!vars => UNCHANGED ServerFacts!vars
  BY DEF Servers!vars, Servers!client, Servers!wire, Servers!server, ServerFacts!vars,
     ServerFacts!client, ServerFacts!wire, ServerFacts!server
<1>3. Servers!Next => ServerFacts!Next
  <2>1. \A c \in Clnt : Servers!UserStep(c) => ServerFacts!UserStep(c)
    BY DEF Servers!UserStep, ServerFacts!UserStep, Servers!Connect, ServerFacts!Connect,
       Servers!Kill, ServerFacts!Kill, Servers!ForkSend, ServerFacts!ForkSend,
       Servers!SendNothing, ServerFacts!SendNothing, Servers!CalcSend, ServerFacts!CalcSend,
       Servers!EchoSend, ServerFacts!EchoSend, Servers!ChatSend, ServerFacts!ChatSend,
       Servers!Send, ServerFacts!Send, Servers!CountSent, ServerFacts!CountSent,
       Servers!ClientGoes, ServerFacts!ClientGoes, Servers!Up, ServerFacts!Up, Servers!server,
       ServerFacts!server
  <2>2. \A c \in Clnt : Servers!ClientStep(c) => ServerFacts!ClientStep(c)
    BY DEF Servers!ClientStep, ServerFacts!ClientStep, Servers!ComputeSend,
       ServerFacts!ComputeSend, Servers!RecvReply, ServerFacts!RecvReply, Servers!RecvEnd,
       ServerFacts!RecvEnd, Servers!ComputeRecv, ServerFacts!ComputeRecv, Servers!Send,
       ServerFacts!Send, Servers!CountSent, ServerFacts!CountSent, Servers!ClientGoes,
       ServerFacts!ClientGoes, Servers!Up, ServerFacts!Up, Servers!server, ServerFacts!server
  <2>3. \A c \in Clnt : Servers!ServingStep(c) => ServerFacts!ServingStep(c)
    BY DEF Servers!ServingStep, ServerFacts!ServingStep, Servers!ForkServe, ServerFacts!ForkServe,
       Servers!ForkEnd, ServerFacts!ForkEnd, Servers!CalcServe, ServerFacts!CalcServe,
       Servers!CalcDivides, ServerFacts!CalcDivides, Servers!CalcEnd, ServerFacts!CalcEnd,
       Servers!EchoServe, ServerFacts!EchoServe, Servers!EchoEnd, ServerFacts!EchoEnd,
       Servers!ChatServe, ServerFacts!ChatServe, Servers!ComputeServe, ServerFacts!ComputeServe,
       Servers!Answer, ServerFacts!Answer, Servers!AnswerTooLong, ServerFacts!AnswerTooLong,
       Servers!AnswerJustFits, ServerFacts!AnswerJustFits, Servers!ChatAnswerNothing,
       ServerFacts!ChatAnswerNothing, Servers!Overflow, ServerFacts!Overflow, Servers!Killed,
       ServerFacts!Killed, Servers!Reply, ServerFacts!Reply,
       Servers!ComputeAnswer, ServerFacts!ComputeAnswer,
       Servers!SigPipe, ServerFacts!SigPipe, Servers!Got, ServerFacts!Got, Servers!AtEnd,
       ServerFacts!AtEnd, Servers!Take, ServerFacts!Take, Servers!Serve, ServerFacts!Serve,
       Servers!Write, ServerFacts!Write, Servers!SigPiped, ServerFacts!SigPiped,
       Servers!ServerEnds, ServerFacts!ServerEnds, Servers!Forked, ServerFacts!Forked,
       Servers!client, ServerFacts!client, Servers!wire, ServerFacts!wire, Servers!server,
       ServerFacts!server
  <2>4. \A S : Servers!Cardinality(S) = ServerFacts!Cardinality(S)
    BY DEF Servers!Cardinality, ServerFacts!Cardinality
  <2>5. Servers!ServerStep => ServerFacts!ServerStep
    BY <2>4 DEF Servers!ServerStep, ServerFacts!ServerStep, Servers!AcceptAndFork,
       ServerFacts!AcceptAndFork, Servers!AcceptAndServe, ServerFacts!AcceptAndServe,
       Servers!ComputeAccept, ServerFacts!ComputeAccept, Servers!ComputeExhausted,
       ServerFacts!ComputeExhausted, Servers!Fork, ServerFacts!Fork, Servers!CloseCopy,
       ServerFacts!CloseCopy, Servers!Accept, ServerFacts!Accept, Servers!Serve,
       ServerFacts!Serve, Servers!ServerGoes, ServerFacts!ServerGoes, Servers!ServerEnds,
       ServerFacts!ServerEnds, Servers!Forked, ServerFacts!Forked, Servers!client,
       ServerFacts!client, Servers!wire, ServerFacts!wire
  <2>6. QED
    BY <2>1, <2>2, <2>3, <2>5 DEF Servers!Next, ServerFacts!Next
<1>4. [Servers!Next]_(Servers!vars) => [ServerFacts!Next]_(ServerFacts!vars)
  BY <1>2, <1>3
<1>5. QED
  BY <1>1, <1>4, PTL DEF ServerFacts!Steps

LEMMA SameConversation == ServerFacts!ImplementsDialogue => Servers!ImplementsDialogue
<1>1. ServerFacts!Conversation!Init => Servers!Conversation!Init
  BY DEF ServerFacts!Conversation!Init, Servers!Conversation!Init, ServerFacts!Over, Servers!Over,
     ServerFacts!Waits, Servers!Waits,
     ServerFacts!Up, Servers!Up
<1>2. ServerFacts!Conversation!Next => Servers!Conversation!Next
  BY DEF ServerFacts!Conversation!Next, Servers!Conversation!Next, ServerFacts!Conversation!Ask,
     Servers!Conversation!Ask, ServerFacts!Conversation!AskNothing,
     Servers!Conversation!AskNothing, ServerFacts!Conversation!Answer, Servers!Conversation!Answer,
     ServerFacts!Conversation!Hear, Servers!Conversation!Hear, ServerFacts!Conversation!End,
     Servers!Conversation!End, ServerFacts!Conversation!Goes, Servers!Conversation!Goes,
     ServerFacts!Conversation!State, Servers!Conversation!State, ServerFacts!Over, Servers!Over,
     ServerFacts!Waits, Servers!Waits,
     ServerFacts!Up, Servers!Up
<1>3. UNCHANGED ServerFacts!Conversation!vars => UNCHANGED Servers!Conversation!vars
  BY DEF ServerFacts!Conversation!vars, Servers!Conversation!vars, ServerFacts!Over, Servers!Over,
     ServerFacts!Waits, Servers!Waits,
     ServerFacts!Up, Servers!Up
<1>4. QED
  BY <1>1, <1>2, <1>3, PTL DEF ServerFacts!ImplementsDialogue, Servers!ImplementsDialogue,
     ServerFacts!Conversation!Spec, Servers!Conversation!Spec

(* The five servers as MCPrograms runs them: each of their connections is  *)
(* a conversation of Dialogue, one answer for each question.               *)
THEOREM ServersAreDialogues == ProgramsSpec => ImplementsDialogue
<1>1. ServerFacts!RequestReplyAssumption
  BY ProgramsAssumption DEF ProgramsAssumption, Servers!RequestReplyAssumption,
     ServerFacts!RequestReplyAssumption
<1>2. ServerFacts!RequestReplyAssumption /\ ServerFacts!Steps => ServerFacts!ImplementsDialogue
  BY ServerFacts!Implementation
<1>3. QED
  BY <1>1, <1>2, RunsServers, SameServers, SameConversation, PTL DEF ImplementsDialogue

-----------------------------------------------------------------------------
(* The names of copies.  A client that has a name took it when there was   *)
(* no such file, and every old file is there: what it empties and writes   *)
(* is no old file, even where another client took the same name since.     *)

LEMMA RunsCopies == ProgramsSpec => Copies!Init /\ [][Copies!Next]_(Copies!vars)
<1>1. ProgramsInit => Copies!Init
  BY DEF ProgramsInit
<1>2. [ProgramsNext]_programs => [Copies!Next]_(Copies!vars)
  BY DEF ProgramsNext, programs, InCounter, InPipes, InServers, InUdp, InArrays, InClient, InCopies,
     copies, Copies!vars
<1>3. QED
  BY <1>1, <1>2, PTL DEF ProgramsSpec

\* Whom a client's name belongs to.
NewNames == \A c \in Clnt :
  /\ step[c] \in {"open", "receive"} => name[c] \notin present
  /\ step[c] = "receive" => Copies!Exists(name[c])

CopiesIInv == Copies!TypeOK /\ OldFilesKept /\ NewNames

LEMMA CopiesInit ==
  ASSUME Copies!CopyAssumption, Copies!Init
  PROVE  CopiesIInv
<1>1. /\ present \subseteq 0 .. MaxName - 1 /\ 0 \in 0 .. MaxName
      /\ 0 .. MaxName - 1 \subseteq 0 .. MaxName
  BY DEF Copies!CopyAssumption, Copies!Init
<1>2. Copies!TypeOK
  BY <1>1 DEF Copies!Init, Copies!TypeOK
<1>3. OldFilesKept
  BY <1>1 DEF Copies!Init, OldFilesKept, Copies!OldFilesKept
<1>4. NewNames
  BY DEF Copies!Init, NewNames
<1>5. QED
  BY <1>2, <1>3, <1>4 DEF CopiesIInv

LEMMA CopiesStep ==
  ASSUME Copies!CopyAssumption, CopiesIInv, [Copies!Next]_(Copies!vars)
  PROVE  CopiesIInv'
<1> USE DEF CopiesIInv, OldFilesKept, Copies!OldFilesKept
<1>1. ASSUME NEW c \in Clnt, Copies!Look(c)
      PROVE  CopiesIInv'
  <2>1. /\ step[c] = "look" /\ UNCHANGED <<present, dir>>
        /\ \/ /\ dir[name[c]] = None /\ step' = [step EXCEPT ![c] = "open"] /\ name' = name
           \/ /\ name[c] < MaxName /\ step' = [step EXCEPT ![c] = "look"]
              /\ name' = [name EXCEPT ![c] = name[c] + 1]
    BY <1>1 DEF Copies!Look, Copies!Goes, Copies!Exists
  <2>2. dir[name[c]] = None => name[c] \notin present
    BY DEF Copies!CopyAssumption
  <2>3. name[c] \in 0 .. MaxName /\ (name[c] < MaxName => name[c] + 1 \in 0 .. MaxName)
    BY DEF Copies!TypeOK, Copies!CopyAssumption
  <2>4. name' \in [Clnt -> 0 .. MaxName] /\ \A d \in Clnt : d # c => name'[d] = name[d]
    BY <2>1, <2>3 DEF Copies!TypeOK
  <2>5. Copies!TypeOK'
    BY <2>1, <2>4 DEF Copies!TypeOK
  <2>6. NewNames'
    BY <2>1, <2>2, <2>4 DEF NewNames, Copies!TypeOK, Copies!Exists
  <2>7. QED
    BY <2>1, <2>5, <2>6
<1>2. ASSUME NEW c \in Clnt, Copies!Open(c) \/ Copies!Receive(c)
      PROVE  CopiesIInv'
  <2>1. PICK data \in SUBSET (Clnt \cup {"old"}) :
          /\ step[c] \in {"open", "receive"} /\ UNCHANGED <<present, name>>
          /\ dir' = [dir EXCEPT ![name[c]] = data]
          /\ \E to \in {"receive", "done"} : step' = [step EXCEPT ![c] = to]
    <3>1. CASE Copies!Open(c)
      <4>1. {} \in SUBSET (Clnt \cup {"old"})
        OBVIOUS
      <4>2. QED
        BY <3>1, <4>1 DEF Copies!Open, Copies!Goes
    <3>2. CASE Copies!Receive(c)
      <4>1. /\ step[c] = "receive" /\ UNCHANGED <<present, name>>
            /\ dir' = [dir EXCEPT ![name[c]] = dir[name[c]] \cup {c}]
            /\ step' = [step EXCEPT ![c] = "done"]
        BY <3>2 DEF Copies!Receive, Copies!Goes
      <4>2. name[c] \in 0 .. MaxName /\ dir[name[c]] # None
        BY <4>1 DEF NewNames, Copies!TypeOK, Copies!Exists
      <4>3. dir[name[c]] \in SUBSET (Clnt \cup {"old"})
        BY <4>2 DEF Copies!TypeOK
      <4>4. dir[name[c]] \cup {c} \in SUBSET (Clnt \cup {"old"})
        BY <4>3
      <4>5. QED
        BY <4>1, <4>4
    <3>3. QED
      BY <1>2, <3>1, <3>2
  <2>2. name[c] \in 0 .. MaxName /\ name[c] \notin present /\ data # None
    BY <2>1 DEF NewNames, Copies!TypeOK, Copies!CopyAssumption
  <2>3. /\ dir' \in [0 .. MaxName -> (SUBSET (Clnt \cup {"old"})) \cup {None}]
        /\ dir'[name[c]] = data /\ \A k \in 0 .. MaxName : k # name[c] => dir'[k] = dir[k]
    BY <2>1, <2>2 DEF Copies!TypeOK
  <2>4. Copies!TypeOK'
    BY <2>1, <2>3 DEF Copies!TypeOK
  <2>5. OldFilesKept'
    BY <2>1, <2>2, <2>3 DEF Copies!TypeOK
  <2>6. NewNames'
    <3>1. \A d \in Clnt : name'[d] = name[d] /\ name[d] \in 0 .. MaxName
      BY <2>1 DEF Copies!TypeOK
    <3>2. \A d \in Clnt : d # c => step'[d] = step[d]
      BY <2>1 DEF Copies!TypeOK
    <3>3. \A k \in 0 .. MaxName : Copies!Exists(k) => Copies!Exists(k)'
      BY <2>2, <2>3 DEF Copies!Exists
    <3>4. Copies!Exists(name[c])'
      BY <2>1, <2>2, <2>3 DEF Copies!Exists
    <3>5. QED
      BY <2>1, <2>2, <2>3, <3>1, <3>2 DEF NewNames, Copies!Exists
  <2>7. QED
    BY <2>4, <2>5, <2>6
<1>3. ASSUME NEW c \in Clnt, Copies!Kill(c)
      PROVE  CopiesIInv'
  BY <1>3 DEF Copies!Kill, Copies!Goes, Copies!TypeOK, NewNames, Copies!Exists
<1>4. CASE UNCHANGED Copies!vars
  BY <1>4 DEF Copies!vars, Copies!TypeOK, NewNames, Copies!Exists
<1>5. QED
  BY <1>1, <1>2, <1>3, <1>4 DEF Copies!Next

(* What was in the directory before the clients came is never overwritten, *)
(* for any number of clients and names (tcp_fileService_client.c l.43-58,  *)
(* quiz2_client.c).                                                        *)
THEOREM CopiesKeepOldFiles == ProgramsSpec => []OldFilesKept
<1>1. Copies!CopyAssumption
  BY ProgramsAssumption DEF ProgramsAssumption
<1>2. Copies!Init => CopiesIInv
  BY <1>1, CopiesInit
<1>3. CopiesIInv /\ [Copies!Next]_(Copies!vars) => CopiesIInv'
  BY <1>1, CopiesStep
<1>4. CopiesIInv => OldFilesKept
  BY DEF CopiesIInv
<1>5. QED
  BY <1>2, <1>3, <1>4, RunsCopies, PTL

-----------------------------------------------------------------------------
(* The UDP echo.  Stop and wait: of a client's own datagrams one is        *)
(* underway at most, and none when it types; each one more is a duplicate  *)
(* or comes from a stranger.  So, where extra[c] is 0, a client that types *)
(* has heard all there was, and what is underway is of its last line.      *)

LEMMA RunsUdp == ProgramsSpec => Udp!Init /\ [][Udp!Next]_(Udp!vars)
<1>1. ProgramsInit => Udp!Init
  BY DEF ProgramsInit
<1>2. [ProgramsNext]_programs => [Udp!Next]_(Udp!vars)
  BY DEF ProgramsNext, programs, InCounter, InPipes, InServers, InUdp, InArrays, InClient, InCopies,
     udp, Udp!vars, Udp!clients
<1>3. QED
  BY <1>1, <1>2, PTL DEF ProgramsSpec

\* bag is less with d once more.
AddsOne(less, d, bag) ==
  /\ Udp!IsABag(less) /\ Udp!IsABag(bag) /\ DOMAIN bag = DOMAIN less \cup {d}
  /\ \A e \in DOMAIN less \ {d} : bag[e] = less[e]
  /\ bag[d] = IF d \in DOMAIN less THEN less[d] + 1 ELSE 1

LEMMA SendsAddsOne ==
  ASSUME Udp!IsABag(net), NEW d, Udp!Sends(d)
  PROVE  AddsOne(net, d, net')
<1>1. \A e \in DOMAIN net : net[e] \in Nat /\ net[e] > 0
  BY DEF Udp!IsABag
<1>2. net' = [e \in DOMAIN net \cup {d} |->
                (IF e \in DOMAIN net THEN net[e] ELSE 0) + (IF e \in {d} THEN 1 ELSE 0)]
  BY DEF Udp!Sends, Udp!(+), Udp!SetToBag
<1>3. /\ DOMAIN net' = DOMAIN net \cup {d}
      /\ \A e \in DOMAIN net \ {d} : net'[e] = net[e]
      /\ net'[d] = IF d \in DOMAIN net THEN net[d] + 1 ELSE 1
  BY <1>1, <1>2
<1>4. \A e \in DOMAIN net' : net'[e] \in Nat /\ net'[e] > 0
  BY <1>1, <1>3
<1>5. Udp!IsABag(net')
  BY <1>2, <1>4 DEF Udp!IsABag
<1>6. QED
  BY <1>3, <1>5 DEF AddsOne

LEMMA TakesAddsOne ==
  ASSUME Udp!IsABag(net), NEW d \in DOMAIN net, Udp!Takes(d)
  PROVE  AddsOne(net', d, net)
<1>1. \A e \in DOMAIN net : net[e] \in Nat /\ net[e] > 0
  BY DEF Udp!IsABag
<1> DEFINE less == [e \in DOMAIN net |-> IF e \in {d} THEN net[e] - 1 ELSE net[e]]
<1>2. net' = [e \in {f \in DOMAIN less : less[f] > 0} |-> less[e]]
  BY DEF Udp!Takes, Udp!(-), Udp!SetToBag
<1>3. DOMAIN less = DOMAIN net /\ \A e \in DOMAIN net : less[e] = IF e = d THEN net[e] - 1 ELSE net[e]
  OBVIOUS
<1>4. /\ DOMAIN net' = {f \in DOMAIN net : less[f] > 0}
      /\ \A e \in DOMAIN net' : net'[e] = less[e]
  BY <1>2, <1>3
<1> HIDE DEF less
<1>5. /\ \A e \in DOMAIN net \ {d} : e \in DOMAIN net' /\ net'[e] = net[e]
      /\ DOMAIN net' \subseteq DOMAIN net
      /\ d \in DOMAIN net' => net'[d] = net[d] - 1 /\ net[d] - 1 > 0
      /\ d \notin DOMAIN net' => net[d] = 1
  BY <1>1, <1>3, <1>4
<1>6. \A e \in DOMAIN net' : net'[e] \in Nat /\ net'[e] > 0
  BY <1>1, <1>5
<1>7. Udp!IsABag(net')
  BY <1>2, <1>6 DEF Udp!IsABag
<1>8. net[d] = IF d \in DOMAIN net' THEN net'[d] + 1 ELSE 1
  BY <1>1, <1>5
<1>9. QED
  BY <1>5, <1>7, <1>8 DEF AddsOne

\* Udp!DueCopies, of any bag.
CopiesIn(c, bag) == UNION {{d} \X (1 .. bag[d]) : d \in {e \in DOMAIN bag : Udp!Due(c, e)}}

LEMMA CopiesAre ==
  ASSUME NEW c, NEW bag
  PROVE  \A x : x \in CopiesIn(c, bag) <=>
           \E d \in DOMAIN bag : Udp!Due(c, d) /\ \E k \in 1 .. bag[d] : x = <<d, k>>
BY DEF CopiesIn

\* more is set with one element more.
OneMore(set, more) == \E x : x \notin set /\ more = set \cup {x}

LEMMA OneMoreCounts ==
  ASSUME NEW set, NEW more, OneMore(set, more), IsFiniteSet(set) \/ IsFiniteSet(more)
  PROVE  /\ IsFiniteSet(set) /\ IsFiniteSet(more)
         /\ Cardinality(set) \in Nat /\ Cardinality(more) = Cardinality(set) + 1
<1>1. PICK x : x \notin set /\ more = set \cup {x}
  BY DEF OneMore
<1>2. IsFiniteSet(set)
  <2>1. set \in SUBSET more
    BY <1>1
  <2>2. QED
    BY <2>1, FS_Subset
<1>3. QED
  BY <1>1, <1>2, FS_AddElement, FS_CardinalityType

LEMMA OneCopyMore ==
  ASSUME NEW c, NEW less, NEW d, NEW bag, AddsOne(less, d, bag)
  PROVE  /\ Udp!Due(c, d) => OneMore(CopiesIn(c, less), CopiesIn(c, bag))
         /\ ~ Udp!Due(c, d) => CopiesIn(c, bag) = CopiesIn(c, less)
<1>1. /\ \A e \in DOMAIN less : less[e] \in Nat /\ less[e] > 0
      /\ \A e \in DOMAIN bag : bag[e] \in Nat /\ bag[e] > 0
  BY DEF AddsOne, Udp!IsABag
<1>2. \A e, k : e # d => (<<e, k>> \in CopiesIn(c, bag) <=> <<e, k>> \in CopiesIn(c, less))
  BY CopiesAre DEF AddsOne
<1>3. \A k : <<d, k>> \in CopiesIn(c, bag) <=> Udp!Due(c, d) /\ k \in 1 .. bag[d]
  BY CopiesAre DEF AddsOne
<1>4. \A k : <<d, k>> \in CopiesIn(c, less) <=> Udp!Due(c, d) /\ k \in 1 .. (bag[d] - 1)
  BY <1>1, CopiesAre DEF AddsOne
<1>5. bag[d] \in Nat /\ 1 .. bag[d] = 1 .. (bag[d] - 1) \cup {bag[d]} /\ bag[d] \notin 1 .. (bag[d] - 1)
  BY <1>1 DEF AddsOne
<1>6. \A x : x \in CopiesIn(c, bag) \cup CopiesIn(c, less) => \E e, k : x = <<e, k>>
  BY CopiesAre
<1>7. ASSUME Udp!Due(c, d)
      PROVE  OneMore(CopiesIn(c, less), CopiesIn(c, bag))
  <2>1. <<d, bag[d]>> \notin CopiesIn(c, less)
    BY <1>4, <1>5
  <2>2. CopiesIn(c, bag) = CopiesIn(c, less) \cup {<<d, bag[d]>>}
    BY <1>2, <1>3, <1>4, <1>5, <1>6, <1>7
  <2>3. QED
    BY <2>1, <2>2 DEF OneMore
<1>8. ASSUME ~ Udp!Due(c, d)
      PROVE  CopiesIn(c, bag) = CopiesIn(c, less)
  <2>1. \A e, k : <<e, k>> \in CopiesIn(c, bag) <=> <<e, k>> \in CopiesIn(c, less)
    BY <1>2, <1>3, <1>4, <1>8
  <2>2. QED
    BY <1>6, <2>1
<1>9. QED
  BY <1>7, <1>8

Counts(c, bag) == IsFiniteSet(CopiesIn(c, bag))
Number(c, bag) == Cardinality(CopiesIn(c, bag))

LEMMA NumberGrows ==
  ASSUME NEW c, NEW less, NEW d, NEW bag, AddsOne(less, d, bag), Counts(c, less) \/ Counts(c, bag)
  PROVE  /\ Counts(c, less) /\ Counts(c, bag) /\ Number(c, less) \in Nat
         /\ Number(c, bag) = Number(c, less) + (IF Udp!Due(c, d) THEN 1 ELSE 0)
<1>1. CASE Udp!Due(c, d)
  <2>1. OneMore(CopiesIn(c, less), CopiesIn(c, bag))
    BY <1>1, OneCopyMore
  <2>2. QED
    BY <1>1, <2>1, OneMoreCounts DEF Counts, Number
<1>2. CASE ~ Udp!Due(c, d)
  <2>1. CopiesIn(c, bag) = CopiesIn(c, less)
    BY <1>2, OneCopyMore
  <2>2. QED
    BY <1>2, <2>1, FS_CardinalityType DEF Counts, Number
<1>3. QED
  BY <1>1, <1>2

\* The server's message, if it is c's.
Held(c) == IF msg # None THEN IF msg.src = c THEN 1 ELSE 0 ELSE 0

LEMMA UnderwayIs == \A c : Udp!Underway(c) = Number(c, net) + Held(c)
<1>1. \A S : Udp!Cardinality(S) = Cardinality(S)
  BY DEF Udp!Cardinality, Cardinality
<1>2. \A c : Udp!DueCopies(c) = CopiesIn(c, net)
  BY DEF Udp!DueCopies, CopiesIn, Udp!BagToSet
<1>3. QED
  BY <1>1, <1>2 DEF Udp!Underway, Number, Held

\* What is underway is of the last line.
OnlyLast(c) ==
  /\ \A d \in DOMAIN net : Udp!Due(c, d) => d.line = lines[c]
  /\ Held(c) = 1 => msg.line = lines[c]

Row(c) ==
  /\ Counts(c, net)
  /\ Number(c, net) + Held(c) <= extra[c] + (IF pc[c] = "wait" THEN 1 ELSE 0)
  /\ extra[c] = 0 => OnlyLast(c) /\ (pc[c] # "wait" => ans[c] = lines[c])

\* Clients send to the server, and hear it or a stranger.
Way(d) == \/ d.src \in Clnt /\ d.dst = Server
          \/ d.src \in {Server, Stranger} /\ d.dst \in Clnt

Ways == (\A d \in DOMAIN net : Way(d)) /\ (msg # None => msg.src \in Clnt)

UdpIInv == Udp!TypeOK /\ Ways /\ \A c \in Clnt : Row(c)

LEMMA UdpInit ==
  ASSUME Udp!UdpAssumption, Udp!Init
  PROVE  UdpIInv
<1>1. net = [e \in {} |-> 1] /\ DOMAIN net = {} /\ msg = None
  BY DEF Udp!Init, Udp!EmptyBag, Udp!SetToBag
<1>2. Udp!TypeOK
  <2>1. Udp!IsABag(net) /\ Udp!BagToSet(net) \subseteq Udp!Datagram
    BY <1>1 DEF Udp!IsABag, Udp!BagToSet
  <2>2. QED
    BY <1>1, <2>1 DEF Udp!TypeOK, Udp!Init, Udp!UdpAssumption
<1>3. ASSUME NEW c \in Clnt
      PROVE  Row(c)
  <2>1. \A x : x \notin CopiesIn(c, net)
    BY <1>1, CopiesAre
  <2>2. CopiesIn(c, net) = {}
    BY <2>1
  <2>3. Counts(c, net) /\ Number(c, net) = 0
    BY <2>2, FS_EmptySet DEF Counts, Number
  <2>4. Held(c) = 0
    BY <1>1 DEF Held
  <2>5. QED
    BY <1>1, <1>3, <2>3, <2>4 DEF Row, OnlyLast, Udp!Init
<1>4. QED
  BY <1>1, <1>2, <1>3 DEF UdpIInv, Ways

(* A datagram is due to one client at most. *)
LEMMA DueToOne ==
  ASSUME Udp!UdpAssumption, NEW d, Way(d), NEW c \in Clnt, NEW e \in Clnt,
         Udp!Of(c, d), Udp!Due(e, d)
  PROVE  c = e
BY DEF Udp!UdpAssumption, Way, Udp!Of, Udp!Due

(* A client's row when a step is of the network, the server or another     *)
(* client and brings nothing that is due to it.                            *)
LEMMA OtherRow ==
  ASSUME NEW c \in Clnt, Row(c), Udp!TypeOK, NEW d,
         extra'[c] = extra[c], pc'[c] = pc[c], lines'[c] = lines[c], ans'[c] = ans[c],
         net' = net \/ AddsOne(net', d, net) \/ (AddsOne(net, d, net') /\ ~ Udp!Due(c, d)),
         Held(c)' = 0 \/ msg' = msg
  PROVE  Row(c)'
<1>1. Held(c) \in {0, 1} /\ (Held(c)' = 0 \/ Held(c)' = Held(c))
  BY DEF Held
<1>2. Counts(c, net) /\ extra[c] \in Nat
  BY DEF Row, Udp!TypeOK
<1>3. Counts(c, net') /\ Number(c, net) \in Nat /\ Number(c, net') \in Nat
      /\ Number(c, net') <= Number(c, net)
  <2>1. CASE net' = net
    BY <1>2, <2>1, FS_CardinalityType DEF Counts, Number
  <2>2. CASE AddsOne(net', d, net)
    BY <1>2, <2>2, NumberGrows
  <2>3. CASE AddsOne(net, d, net') /\ ~ Udp!Due(c, d)
    BY <1>2, <2>3, NumberGrows
  <2>4. QED
    BY <2>1, <2>2, <2>3
<1>4. \A e \in DOMAIN net' : Udp!Due(c, e) => e \in DOMAIN net
  BY DEF AddsOne
<1>5. extra[c] = 0 => OnlyLast(c)' /\ (pc'[c] # "wait" => ans'[c] = lines'[c])
  BY <1>1, <1>4 DEF Row, OnlyLast
<1>6. Number(c, net') + Held(c)' <= extra'[c] + (IF pc'[c] = "wait" THEN 1 ELSE 0)
  <2>1. Number(c, net) + Held(c) <= extra[c] + (IF pc[c] = "wait" THEN 1 ELSE 0)
    BY DEF Row
  <2>2. QED
    BY <1>1, <1>2, <1>3, <2>1
<1>7. QED
  BY <1>3, <1>5, <1>6 DEF Row

LEMMA NetAfter ==
  ASSUME UdpIInv, NEW d,
         AddsOne(net', d, net) \/ (AddsOne(net, d, net') /\ d \in Udp!Datagram /\ Way(d))
  PROVE  /\ Udp!IsABag(net') /\ Udp!BagToSet(net') \subseteq Udp!Datagram
         /\ \A e \in DOMAIN net' : Way(e)
BY DEF UdpIInv, Ways, Udp!TypeOK, Udp!BagToSet, AddsOne

LEMMA PacketIs ==
  ASSUME Udp!UdpAssumption, NEW s \in Clnt \cup {Server, Stranger},
         NEW d \in Clnt \cup {Server, Stranger}, NEW k \in 0 .. MaxLines
  PROVE  /\ Udp!Packet(s, d, k) \in Udp!Datagram
         /\ Udp!Packet(s, d, k).src = s /\ Udp!Packet(s, d, k).dst = d
         /\ Udp!Packet(s, d, k).line = k
BY DEF Udp!Packet, Udp!Datagram, Udp!Host

LEMMA SendLineKeeps ==
  ASSUME Udp!UdpAssumption, UdpIInv, NEW c \in Clnt, Udp!SendLine(c)
  PROVE  UdpIInv'
<1>1. /\ pc[c] = "type" /\ pc' = [pc EXCEPT ![c] = "wait"] /\ lines[c] < MaxLines
      /\ lines' = [lines EXCEPT ![c] = lines[c] + 1] /\ UNCHANGED <<ans, msg, extra, lost>>
      /\ Udp!Sends(Udp!Packet(c, Server, lines'[c]))
  BY DEF Udp!SendLine, Udp!Goes
<1>2. lines[c] \in 0 .. MaxLines /\ MaxLines \in Nat
  BY DEF UdpIInv, Udp!TypeOK, Udp!UdpAssumption
<1>3. /\ lines' \in [Clnt -> 0 .. MaxLines] /\ lines'[c] = lines[c] + 1
      /\ \A e \in Clnt : e # c => lines'[e] = lines[e]
  BY <1>1, <1>2 DEF UdpIInv, Udp!TypeOK
<1>4. /\ pc' \in [Clnt -> {"type", "wait", "closed"}] /\ pc'[c] = "wait"
      /\ \A e \in Clnt : e # c => pc'[e] = pc[e]
  BY <1>1 DEF UdpIInv, Udp!TypeOK
<1>5. PICK d : d = Udp!Packet(c, Server, lines'[c])
  OBVIOUS
<1>6. d \in Udp!Datagram /\ d.src = c /\ d.dst = Server /\ d.line = lines'[c]
  <2>1. /\ lines'[c] \in 0 .. MaxLines /\ c \in Clnt \cup {Server, Stranger}
        /\ Server \in Clnt \cup {Server, Stranger}
    BY <1>3
  <2>2. QED
    BY <1>5, <2>1, PacketIs
<1>7. AddsOne(net, d, net')
  BY <1>1, <1>5, SendsAddsOne DEF UdpIInv, Udp!TypeOK
<1>8. Way(d) /\ Udp!Of(c, d)
  BY <1>6 DEF Way, Udp!Of
<1>9. Udp!TypeOK'
  BY <1>1, <1>3, <1>4, <1>6, <1>7, <1>8, NetAfter DEF UdpIInv, Udp!TypeOK
<1>10. Ways'
  BY <1>1, <1>6, <1>7, <1>8, NetAfter DEF UdpIInv, Ways
<1>11. ASSUME NEW e \in Clnt, e # c
       PROVE  Row(e)'
  <2>1. ~ Udp!Due(e, d)
    BY <1>8, <1>11, DueToOne
  <2>2. msg' = msg /\ extra'[e] = extra[e] /\ ans'[e] = ans[e]
    BY <1>1
  <2>3. QED
    BY <1>3, <1>4, <1>7, <1>11, <2>1, <2>2, OtherRow DEF UdpIInv
<1>12. Row(c)'
  <2>1. Counts(c, net) /\ Number(c, net) + Held(c) <= extra[c] /\ extra[c] \in Nat
        /\ Held(c) \in {0, 1} /\ Held(c)' = Held(c)
    BY <1>1 DEF UdpIInv, Row, Held, Udp!TypeOK
  <2>2. /\ Counts(c, net') /\ Number(c, net) \in Nat /\ Number(c, net') \in Nat
        /\ Number(c, net') <= Number(c, net) + 1
    BY <1>7, <2>1, NumberGrows
  <2>3. ASSUME extra[c] = 0
        PROVE  OnlyLast(c)'
    <3>1. Number(c, net) = 0 /\ Held(c)' = 0
      BY <2>1, <2>2, <2>3
    <3>2. CopiesIn(c, net) = {}
      BY <2>1, <3>1, FS_EmptySet DEF Counts, Number
    <3>3. \A e \in DOMAIN net : ~ Udp!Due(c, e)
      <4>1. \A e \in DOMAIN net : Udp!Due(c, e) => <<e, net[e]>> \in CopiesIn(c, net)
        <5>1. \A e \in DOMAIN net : net[e] \in 1 .. net[e]
          BY <1>7 DEF AddsOne, Udp!IsABag
        <5>2. QED
          BY <5>1, CopiesAre
      <4>2. QED
        BY <3>2, <4>1
    <3>4. \A e \in DOMAIN net' : Udp!Due(c, e) => e = d
      BY <1>7, <3>3 DEF AddsOne
    <3>5. QED
      BY <1>6, <3>1, <3>4 DEF OnlyLast
  <2>4. QED
    BY <1>1, <1>4, <2>1, <2>2, <2>3 DEF Row
<1>13. QED
  BY <1>9, <1>10, <1>11, <1>12 DEF UdpIInv

LEMMA RecvAnswerKeeps ==
  ASSUME Udp!UdpAssumption, UdpIInv, NEW c \in Clnt, Udp!RecvAnswer(c)
  PROVE  UdpIInv'
<1>1. PICK d \in DOMAIN net :
        /\ d.dst = c /\ (c \in Connected => d.src = Server)
        /\ ans' = [ans EXCEPT ![c] = d.line] /\ Udp!Takes(d)
        /\ pc[c] = "wait" /\ pc' = [pc EXCEPT ![c] = "type"]
        /\ UNCHANGED <<lines, msg, extra, lost>>
  BY DEF Udp!RecvAnswer, Udp!Hear, Udp!Goes, Udp!BagToSet
<1>2. d \in Udp!Datagram
  BY DEF UdpIInv, Udp!TypeOK, Udp!BagToSet
<1>3. d.line \in 0 .. MaxLines
  BY <1>2 DEF Udp!Datagram
<1>4. /\ ans' \in [Clnt -> 0 .. MaxLines] /\ ans'[c] = d.line
      /\ \A e \in Clnt : e # c => ans'[e] = ans[e]
  BY <1>1, <1>3 DEF UdpIInv, Udp!TypeOK
<1>5. /\ pc' \in [Clnt -> {"type", "wait", "closed"}] /\ pc'[c] = "type"
      /\ \A e \in Clnt : e # c => pc'[e] = pc[e]
  BY <1>1 DEF UdpIInv, Udp!TypeOK
<1>6. AddsOne(net', d, net)
  BY <1>1, TakesAddsOne DEF UdpIInv, Udp!TypeOK
<1>7. Udp!Due(c, d)
  BY <1>1 DEF Udp!Due, Udp!Of, Udp!UdpAssumption
<1>8. Udp!TypeOK'
  BY <1>1, <1>4, <1>5, <1>6, NetAfter DEF UdpIInv, Udp!TypeOK
<1>9. Ways'
  BY <1>1, <1>6, NetAfter DEF UdpIInv, Ways
<1>10. ASSUME NEW e \in Clnt, e # c
       PROVE  Row(e)'
  <2>1. msg' = msg /\ extra'[e] = extra[e] /\ lines'[e] = lines[e]
    BY <1>1
  <2>2. QED
    BY <1>4, <1>5, <1>6, <1>10, <2>1, OtherRow DEF UdpIInv
<1>11. Row(c)'
  <2>1. Counts(c, net) /\ Number(c, net) + Held(c) <= extra[c] + 1 /\ extra[c] \in Nat
        /\ Held(c) \in {0, 1} /\ Held(c)' = Held(c)
    BY <1>1 DEF UdpIInv, Row, Held, Udp!TypeOK
  <2>2. /\ Counts(c, net') /\ Number(c, net') \in Nat /\ Number(c, net) = Number(c, net') + 1
    BY <1>6, <1>7, <2>1, NumberGrows
  <2>3. extra[c] = 0 => OnlyLast(c) /\ d.line = lines[c]
    BY <1>7 DEF UdpIInv, Row, OnlyLast
  <2>4. \A e \in DOMAIN net' : e \in DOMAIN net
    BY <1>6 DEF AddsOne
  <2>5. extra[c] = 0 => OnlyLast(c)'
    BY <1>1, <2>1, <2>3, <2>4 DEF OnlyLast
  <2>6. QED
    BY <1>1, <1>4, <1>5, <2>1, <2>2, <2>3, <2>5 DEF Row
<1>12. QED
  BY <1>8, <1>9, <1>10, <1>11 DEF UdpIInv

\* A step of the network that concerns c.
LEMMA NetworkKeeps ==
  ASSUME Udp!UdpAssumption, UdpIInv, NEW c \in Clnt,
         Udp!Lose(c) \/ Udp!Duplicate(c) \/ Udp!Intrude(c) \/ Udp!Quit(c)
  PROVE  UdpIInv'
<1>1. CASE Udp!Quit(c)
  <2>1. /\ pc[c] = "type" /\ pc' = [pc EXCEPT ![c] = "closed"]
        /\ UNCHANGED <<lines, ans, net, msg, extra, lost>>
    BY <1>1 DEF Udp!Quit, Udp!Goes
  <2>2. pc' \in [Clnt -> {"type", "wait", "closed"}]
        /\ \A e \in Clnt : pc'[e] = "wait" <=> pc[e] = "wait"
    BY <2>1 DEF UdpIInv, Udp!TypeOK
  <2>3. \A e \in Clnt : Row(e)'
    BY <2>1, <2>2 DEF UdpIInv, Row, OnlyLast, Held
  <2>4. QED
    BY <2>1, <2>2, <2>3 DEF UdpIInv, Udp!TypeOK, Ways
<1>2. CASE Udp!Lose(c)
  <2>1. PICK d \in DOMAIN net : /\ Udp!Takes(d) /\ lost' = [lost EXCEPT ![c] = TRUE]
                                /\ UNCHANGED <<pc, lines, ans, msg, extra>>
    BY <1>2 DEF Udp!Lose, Udp!BagToSet, Udp!clients
  <2>2. AddsOne(net', d, net)
    BY <2>1, TakesAddsOne DEF UdpIInv, Udp!TypeOK
  <2>3. Udp!TypeOK' /\ Ways'
    BY <2>1, <2>2, NetAfter DEF UdpIInv, Udp!TypeOK, Ways
  <2>4. ASSUME NEW e \in Clnt
        PROVE  Row(e)'
    <3>1. UNCHANGED <<extra[e], pc[e], lines[e], ans[e], msg>>
      BY <2>1
    <3>2. QED
      BY <2>2, <3>1, OtherRow DEF UdpIInv
  <2>5. QED
    BY <2>3, <2>4 DEF UdpIInv
<1>3. CASE Udp!Duplicate(c) \/ Udp!Intrude(c)
  <2>1. PICK d \in Udp!Datagram :
          /\ Way(d) /\ Udp!Of(c, d) /\ Udp!Sends(d) /\ UNCHANGED <<pc, lines, ans, msg, lost>>
          /\ extra[c] < MaxExtra
          /\ \/ extra' = [extra EXCEPT ![c] = extra[c] + 1]
             \/ extra' = extra /\ ~ Udp!Due(c, d)
    <3>1. CASE Udp!Duplicate(c)
      BY <3>1 DEF Udp!Duplicate, Udp!clients, UdpIInv, Ways, Udp!TypeOK, Udp!BagToSet
    <3>2. CASE Udp!Intrude(c)
      <4>1. PICK d : d = Udp!Packet(Stranger, c, 0)
        OBVIOUS
      <4>2. d \in Udp!Datagram /\ d.src = Stranger /\ d.dst = c
        BY <4>1, PacketIs DEF Udp!UdpAssumption
      <4>3. Way(d) /\ Udp!Of(c, d) /\ (c \in Connected => ~ Udp!Due(c, d))
        BY <4>2 DEF Way, Udp!Of, Udp!Due
      <4>4. QED
        BY <3>2, <4>1, <4>2, <4>3 DEF Udp!Intrude, Udp!clients
    <3>3. QED
      BY <1>3, <3>1, <3>2
  <2>2. AddsOne(net, d, net')
    BY <2>1, SendsAddsOne DEF UdpIInv, Udp!TypeOK
  <2>3. /\ extra' \in [Clnt -> 0 .. MaxExtra]
        /\ extra'[c] = extra[c] + 1 \/ (extra'[c] = extra[c] /\ ~ Udp!Due(c, d))
        /\ \A e \in Clnt : e # c => extra'[e] = extra[e]
    <3>1. extra \in [Clnt -> 0 .. MaxExtra] /\ extra[c] + 1 \in 0 .. MaxExtra
      BY <2>1 DEF UdpIInv, Udp!TypeOK, Udp!UdpAssumption
    <3>2. QED
      BY <2>1, <3>1
  <2>4. Udp!TypeOK' /\ Ways'
    BY <2>1, <2>2, <2>3, NetAfter DEF UdpIInv, Udp!TypeOK, Ways
  <2>5. ASSUME NEW e \in Clnt, e # c \/ extra'[c] = extra[c]
        PROVE  Row(e)'
    <3>1. UNCHANGED <<pc[e], lines[e], ans[e], msg>> /\ extra'[e] = extra[e]
      BY <2>1, <2>3, <2>5
    <3>2. ~ Udp!Due(e, d)
      BY <2>1, <2>3, <2>5, DueToOne DEF UdpIInv, Udp!TypeOK
    <3>3. QED
      BY <2>2, <3>1, <3>2, OtherRow DEF UdpIInv
  <2>6. ASSUME extra'[c] = extra[c] + 1
        PROVE  Row(c)'
    <3>1. Counts(c, net) /\ extra[c] \in Nat /\ Held(c) \in {0, 1} /\ Held(c)' = Held(c)
          /\ Number(c, net) + Held(c) <= extra[c] + (IF pc[c] = "wait" THEN 1 ELSE 0)
      BY <2>1 DEF UdpIInv, Row, Held, Udp!TypeOK
    <3>2. /\ Counts(c, net') /\ Number(c, net) \in Nat /\ Number(c, net') \in Nat
          /\ Number(c, net') <= Number(c, net) + 1
      BY <2>2, <3>1, NumberGrows
    <3>3. QED
      BY <2>1, <2>6, <3>1, <3>2 DEF Row
  <2>7. QED
    BY <2>3, <2>4, <2>5, <2>6 DEF UdpIInv
<1>4. QED
  BY <1>1, <1>2, <1>3

LEMMA ServerRecvKeeps ==
  ASSUME Udp!UdpAssumption, UdpIInv, Udp!ServerRecv
  PROVE  UdpIInv'
<1>1. PICK d \in DOMAIN net :
        /\ msg = None /\ d.dst = Server /\ msg' = d /\ Udp!Takes(d)
        /\ UNCHANGED <<pc, lines, ans, extra, lost>>
  BY DEF Udp!ServerRecv, Udp!clients, Udp!BagToSet
<1>2. d \in Udp!Datagram /\ Way(d)
  BY DEF UdpIInv, Ways, Udp!TypeOK, Udp!BagToSet
<1>3. AddsOne(net', d, net)
  BY <1>1, TakesAddsOne DEF UdpIInv, Udp!TypeOK
<1>4. d.src \in Clnt
  BY <1>1, <1>2 DEF Way, Udp!UdpAssumption
<1>5. Udp!TypeOK'
  BY <1>1, <1>2, <1>3, NetAfter DEF UdpIInv, Udp!TypeOK
<1>6. Ways'
  BY <1>1, <1>3, <1>4, NetAfter DEF UdpIInv, Ways
<1>7. ASSUME NEW c \in Clnt, Held(c)' = 0
      PROVE  Row(c)'
  <2>1. UNCHANGED <<extra[c], pc[c], lines[c], ans[c]>>
    BY <1>1
  <2>2. QED
    BY <1>3, <1>7, <2>1, OtherRow DEF UdpIInv
<1>8. ASSUME NEW c \in Clnt, Held(c)' # 0
      PROVE  Row(c)'
  <2>1. Held(c)' = 1 /\ c = d.src /\ Held(c) = 0
    BY <1>1, <1>8 DEF Held
  <2>2. Udp!Due(c, d)
    BY <1>1, <2>1 DEF Udp!Due, Udp!Of, Udp!UdpAssumption
  <2>3. Counts(c, net) /\ extra[c] \in Nat
        /\ Number(c, net) + Held(c) <= extra[c] + (IF pc[c] = "wait" THEN 1 ELSE 0)
    BY DEF UdpIInv, Row, Udp!TypeOK
  <2>4. /\ Counts(c, net') /\ Number(c, net') \in Nat /\ Number(c, net) = Number(c, net') + 1
    BY <1>3, <2>2, <2>3, NumberGrows
  <2>5. extra[c] = 0 => OnlyLast(c) /\ d.line = lines[c]
    BY <2>2 DEF UdpIInv, Row, OnlyLast
  <2>6. \A e \in DOMAIN net' : e \in DOMAIN net
    BY <1>3 DEF AddsOne
  <2>7. extra[c] = 0 => OnlyLast(c)'
    BY <1>1, <2>5, <2>6 DEF OnlyLast
  <2>8. Number(c, net') + Held(c)' <= extra'[c] + (IF pc'[c] = "wait" THEN 1 ELSE 0)
    BY <1>1, <2>1, <2>3, <2>4
  <2>9. extra'[c] = 0 => (pc'[c] # "wait" => ans'[c] = lines'[c])
    BY <1>1 DEF UdpIInv, Row
  <2>10. QED
    BY <1>1, <2>4, <2>7, <2>8, <2>9 DEF Row
<1>9. QED
  BY <1>5, <1>6, <1>7, <1>8 DEF UdpIInv

LEMMA ServerSendKeeps ==
  ASSUME Udp!UdpAssumption, UdpIInv, Udp!ServerSend
  PROVE  UdpIInv'
<1>1. /\ msg # None /\ msg' = None /\ UNCHANGED <<pc, lines, ans, extra, lost>>
      /\ Udp!Sends(Udp!Packet(Server, msg.src, msg.line))
  BY DEF Udp!ServerSend, Udp!clients
<1>2. msg \in Udp!Datagram /\ msg.src \in Clnt /\ msg.line \in 0 .. MaxLines
  BY <1>1 DEF UdpIInv, Ways, Udp!TypeOK, Udp!Datagram
<1>3. PICK d : d = Udp!Packet(Server, msg.src, msg.line)
  OBVIOUS
<1>4. d \in Udp!Datagram /\ d.src = Server /\ d.dst = msg.src /\ d.line = msg.line
  <2>1. Server \in Clnt \cup {Server, Stranger} /\ msg.src \in Clnt \cup {Server, Stranger}
    BY <1>2
  <2>2. QED
    BY <1>2, <1>3, <2>1, PacketIs
<1>5. AddsOne(net, d, net')
  BY <1>1, <1>3, SendsAddsOne DEF UdpIInv, Udp!TypeOK
<1>6. Way(d) /\ Udp!Of(msg.src, d)
  BY <1>2, <1>4 DEF Way, Udp!Of
<1>7. Udp!TypeOK'
  BY <1>1, <1>4, <1>5, <1>6, NetAfter DEF UdpIInv, Udp!TypeOK
<1>8. Ways'
  BY <1>1, <1>4, <1>5, <1>6, NetAfter DEF UdpIInv, Ways
<1>9. \A c : Held(c)' = 0
  BY <1>1 DEF Held
<1>10. ASSUME NEW c \in Clnt, ~ Udp!Due(c, d)
       PROVE  Row(c)'
  <2>1. UNCHANGED <<extra[c], pc[c], lines[c], ans[c]>> /\ Held(c)' = 0
    BY <1>1, <1>9
  <2>2. QED
    BY <1>5, <1>10, <2>1, OtherRow DEF UdpIInv
<1>11. ASSUME NEW c \in Clnt, Udp!Due(c, d)
       PROVE  Row(c)'
  <2>1. c = msg.src
    BY <1>2, <1>6, <1>11, DueToOne
  <2>2. Held(c) = 1 /\ Held(c)' = 0
    BY <1>1, <1>9, <2>1 DEF Held
  <2>3. Counts(c, net) /\ extra[c] \in Nat
        /\ Number(c, net) + Held(c) <= extra[c] + (IF pc[c] = "wait" THEN 1 ELSE 0)
    BY DEF UdpIInv, Row, Udp!TypeOK
  <2>4. /\ Counts(c, net') /\ Number(c, net) \in Nat /\ Number(c, net') = Number(c, net) + 1
    BY <1>5, <1>11, <2>3, NumberGrows
  <2>5. extra[c] = 0 => OnlyLast(c) /\ d.line = lines[c]
    BY <1>4, <2>2 DEF UdpIInv, Row, OnlyLast
  <2>6. \A e \in DOMAIN net' : e \in DOMAIN net \/ e = d
    BY <1>5 DEF AddsOne
  <2>7. extra[c] = 0 => OnlyLast(c)'
    BY <1>1, <2>2, <2>5, <2>6 DEF OnlyLast
  <2>8. Number(c, net') + Held(c)' <= extra'[c] + (IF pc'[c] = "wait" THEN 1 ELSE 0)
    BY <1>1, <2>2, <2>3, <2>4
  <2>9. extra'[c] = 0 => (pc'[c] # "wait" => ans'[c] = lines'[c])
    BY <1>1 DEF UdpIInv, Row
  <2>10. QED
    BY <1>1, <2>4, <2>7, <2>8, <2>9 DEF Row
<1>12. QED
  BY <1>7, <1>8, <1>10, <1>11 DEF UdpIInv

LEMMA UdpStep ==
  ASSUME Udp!UdpAssumption, UdpIInv, [Udp!Next]_(Udp!vars)
  PROVE  UdpIInv'
<1>1. CASE UNCHANGED Udp!vars
  <2>1. UNCHANGED <<pc, lines, ans, net, msg, extra, lost>>
    BY <1>1 DEF Udp!vars, Udp!clients
  <2>2. Udp!TypeOK' /\ Ways'
    BY <2>1 DEF UdpIInv, Udp!TypeOK, Ways
  <2>3. \A c \in Clnt : Row(c)'
    BY <2>1 DEF UdpIInv, Row, OnlyLast, Held
  <2>4. QED
    BY <2>2, <2>3 DEF UdpIInv
<1>2. QED
  BY <1>1, SendLineKeeps, RecvAnswerKeeps, NetworkKeeps, ServerRecvKeeps, ServerSendKeeps
     DEF Udp!Next

(* As long as nothing was duplicated and no stranger got through, each     *)
(* answer is the echo of the line just sent (uecho_client.c l.46-51), and  *)
(* a client is never more answers behind than the network made datagrams   *)
(* for it: for any number of clients, lines and duplicates.                *)
THEOREM EchoInStep == ProgramsSpec => []InStep
<1>1. Udp!UdpAssumption
  BY ProgramsAssumption DEF ProgramsAssumption
<1>2. Udp!Init => UdpIInv
  BY <1>1, UdpInit
<1>3. UdpIInv /\ [Udp!Next]_(Udp!vars) => UdpIInv'
  BY <1>1, UdpStep
<1>4. UdpIInv => InStep
  <2> SUFFICES ASSUME UdpIInv PROVE InStep
    OBVIOUS
  <2>1. \A c \in Clnt : /\ extra[c] = 0 /\ pc[c] # "wait" => ans[c] = lines[c]
                        /\ Number(c, net) + Held(c) <= extra[c] + (IF pc[c] = "wait" THEN 1 ELSE 0)
    BY DEF UdpIInv, Row
  <2>2. QED
    BY <2>1, UnderwayIs DEF InStep, Udp!InStep
<1>5. QED
  BY <1>2, <1>3, <1>4, RunsUdp, PTL
-----------------------------------------------------------------------------
(* The screen.  Each side's array is compared with the line it should      *)
(* hold: what is put in it starts with that line and a NUL, so the string  *)
(* there is the line, whatever is left of earlier ones behind it.          *)

LEMMA RunsTexts == ProgramsSpec => Arrays!Init /\ [][Arrays!Next]_(Arrays!vars)
<1>1. ProgramsInit => Arrays!Init
  BY DEF ProgramsInit
<1>2. [ProgramsNext]_programs => [Arrays!Next]_(Arrays!vars)
  BY DEF ProgramsNext, programs, InCounter, InPipes, InServers, InUdp, InArrays, InClient, InCopies,
     arrays, Arrays!vars
<1>3. QED
  BY <1>1, <1>2, PTL DEF ProgramsSpec

(* Sequences. *)

LEMMA Concatenated ==
  ASSUME NEW S, NEW s \in Seq(S), NEW t \in Seq(S)
  PROVE  /\ s \o t \in Seq(S) /\ Len(s \o t) = Len(s) + Len(t)
         /\ \A i \in 1 .. Len(s) : (s \o t)[i] = s[i]
         /\ \A i \in 1 .. Len(t) : (s \o t)[Len(s) + i] = t[i]
OBVIOUS

LEMMA Shortened ==
  ASSUME NEW S, NEW s \in Seq(S), NEW k \in 0 .. Len(s)
  PROVE  /\ SubSeq(s, 1, k) \in Seq(S) /\ Len(SubSeq(s, 1, k)) = k
         /\ \A i \in 1 .. k : SubSeq(s, 1, k)[i] = s[i]
OBVIOUS

LEMMA LeftOver ==
  ASSUME NEW S, NEW s \in Seq(S), NEW k \in 0 .. Len(s)
  PROVE  /\ SubSeq(s, k + 1, Len(s)) \in Seq(S) /\ Len(SubSeq(s, k + 1, Len(s))) = Len(s) - k
         /\ \A i \in 1 .. Len(s) - k : SubSeq(s, k + 1, Len(s))[i] = s[k + i]
OBVIOUS

LEMMA Elements ==
  ASSUME NEW S, NEW s \in Seq(S)
  PROVE  Len(s) \in Nat /\ DOMAIN s = 1 .. Len(s) /\ \A i \in DOMAIN s : s[i] \in S
OBVIOUS

LEMMA SameSequence ==
  ASSUME NEW S, NEW s \in Seq(S), NEW t \in Seq(S), Len(s) = Len(t),
         \A i \in 1 .. Len(s) : s[i] = t[i]
  PROVE  s = t
OBVIOUS

LEMMA ArrayIsSequence ==
  ASSUME NEW S, NEW k \in Nat, NEW s \in [1 .. k -> S]
  PROVE  s \in Seq(S) /\ Len(s) = k /\ \A i \in 1 .. k : s[i] \in S
OBVIOUS

LEMMA Rest ==
  ASSUME NEW S, NEW s \in Seq(S), s # << >>
  PROVE  /\ Tail(s) \in Seq(S) /\ Len(Tail(s)) = Len(s) - 1 /\ Len(s) \in Nat \ {0}
         /\ Head(s) = s[1] /\ Head(s) \in S /\ 1 \in DOMAIN s
         /\ DOMAIN s = 1 .. Len(s) /\ DOMAIN Tail(s) = 1 .. Len(s) - 1
         /\ \A i \in 1 .. Len(s) - 1 : Tail(s)[i] = s[i + 1]
OBVIOUS

LEMMA Appended ==
  ASSUME NEW S, NEW s \in Seq(S), NEW e \in S
  PROVE  /\ Append(s, e) \in Seq(S) /\ Len(Append(s, e)) = Len(s) + 1 /\ Len(s) \in Nat
         /\ \A i \in 1 .. Len(s) : Append(s, e)[i] = s[i]
         /\ Append(s, e)[Len(s) + 1] = e
         /\ DOMAIN s = 1 .. Len(s) /\ DOMAIN Append(s, e) = 1 .. Len(s) + 1
OBVIOUS

LEMMA Single ==
  ASSUME NEW S, NEW e \in S
  PROVE  /\ <<e>> \in Seq(S) /\ Len(<<e>>) = 1 /\ <<e>>[1] = e /\ Head(<<e>>) = e
         /\ DOMAIN <<e>> = {1}
OBVIOUS

(* A set of numbers has a least. *)
LEMMA Least ==
  ASSUME NEW S, S \subseteq Nat, S # {}
  PROVE  \E x \in S : \A y \in S : x <= y
<1>1. IsWellFoundedOn(OpToRel(<, Nat), Nat)
  BY NatLessThanWellFounded
<1>2. \E x \in S : \A y \in S : <<y, x>> \notin OpToRel(<, Nat)
  BY <1>1, WFMin
<1>3. \A x, y \in Nat : x < y => <<x, y>> \in OpToRel(<, Nat)
  <2> SUFFICES ASSUME NEW x \in Nat, NEW y \in Nat, x < y, <<x, y>> \notin OpToRel(<, Nat)
               PROVE  FALSE
    OBVIOUS
  <2>1. <<x, y>> \in Nat \X Nat /\ <<x, y>>[1] < <<x, y>>[2]
    OBVIOUS
  <2>2. QED
    BY <2>1, Zenon DEF OpToRel
<1>4. \A x, y \in S : ~ (y < x) => x <= y
  OBVIOUS
<1>5. QED
  BY <1>2, <1>3, <1>4

(* Arrays of characters. *)

Char == Arrays!Char
Array == [1 .. BUF_SIZE -> Char]

LEMMA Characters ==
  ASSUME Arrays!TextAssumption
  PROVE  /\ BUF_SIZE \in Nat /\ BUF_SIZE > 2 /\ MaxText \in Nat /\ MaxText > 1
         /\ 0 \in Char /\ -1 \in Char /\ -2 \in Char /\ \A k \in 1 .. 2 * MaxText : k \in Char
BY DEF Arrays!TextAssumption, Char, Arrays!Char, Arrays!NUL, Arrays!Newline, Arrays!Garbage

\* No NUL is in line.
Clean(line) == line \in Seq(Char) /\ \A i \in 1 .. Len(line) : line[i] # 0

Begins(string, line) == \A i \in 1 .. Len(line) : string[i] = line[i]

\* The string in array is line.
Holds(array, line) ==
  /\ Clean(line) /\ Len(line) < BUF_SIZE /\ Begins(array, line) /\ array[Len(line) + 1] = 0

\* The string in what is sent is line, if a NUL follows.
Carries(string, line) ==
  /\ string \in Seq(Char) /\ Clean(line) /\ Len(line) <= Len(string) /\ Begins(string, line)
  /\ Len(line) < Len(string) => string[Len(line) + 1] = 0

LEMMA StringHeld ==
  ASSUME Arrays!TextAssumption, NEW array \in Array, NEW line, Holds(array, line)
  PROVE  Arrays!String(array) = line
<1> DEFINE Ends == {i \in 1 .. BUF_SIZE : array[i] = Arrays!NUL}
           end == CHOOSE i \in Ends : \A j \in Ends : i <= j
<1>1. /\ BUF_SIZE \in Nat /\ Len(line) \in Nat /\ Len(line) < BUF_SIZE /\ array \in Seq(Char)
      /\ Len(array) = BUF_SIZE /\ line \in Seq(Char)
  BY SMTT(30), Characters, ArrayIsSequence DEF Holds, Clean, Array
<1>2. Len(line) + 1 \in Ends /\ \A j \in Ends : Len(line) + 1 <= j
  BY <1>1 DEF Holds, Begins, Clean, Arrays!NUL
<1>3. end \in Ends /\ \A j \in Ends : end <= j
  BY <1>2
<1> HIDE DEF end
<1>4. end = Len(line) + 1
  BY <1>1, <1>2, <1>3
<1>5. Arrays!String(array) = SubSeq(array, 1, end - 1)
  BY <1>2 DEF Arrays!String, end
<1>6. SubSeq(array, 1, Len(line)) = line
  BY <1>1, Shortened, SameSequence DEF Holds, Begins
<1>7. QED
  BY <1>1, <1>4, <1>5, <1>6

\* What printf() and strlen() find in an array that may have no NUL.
LEMMA StringIs ==
  ASSUME Arrays!TextAssumption, NEW array \in Array, NEW k \in 0 .. BUF_SIZE,
         \A i \in 1 .. k : array[i] # 0
  PROVE  /\ Arrays!String(array) \in Seq(Char) /\ Len(Arrays!String(array)) >= k
         /\ \A i \in 1 .. k : Arrays!String(array)[i] = array[i]
<1> DEFINE Ends == {i \in 1 .. BUF_SIZE : array[i] = Arrays!NUL}
           end == CHOOSE i \in Ends : \A j \in Ends : i <= j
<1>1. /\ BUF_SIZE \in Nat /\ array \in Seq(Char) /\ Len(array) = BUF_SIZE
      /\ Arrays!Garbage \in Char
  BY Characters, ArrayIsSequence DEF Array, Arrays!Garbage
<1>2. CASE Ends = {}
  <2>1. Arrays!String(array) = Append(array, Arrays!Garbage)
    BY <1>2 DEF Arrays!String
  <2>2. QED
    BY <1>1, <2>1, Appended
<1>3. CASE Ends # {}
  <2>1. \E i \in Ends : \A j \in Ends : i <= j
    <3>1. Ends \subseteq Nat
      BY <1>1
    <3>2. QED
      BY <1>3, <3>1, Least
  <2>2. end \in Ends
    BY <2>1
  <2>3. Arrays!String(array) = SubSeq(array, 1, end - 1)
    BY <1>3 DEF Arrays!String
  <2> HIDE DEF end
  <2>4. end \in 1 .. BUF_SIZE /\ array[end] = 0
    BY <2>2 DEF Arrays!NUL
  <2>5. end - 1 \in 0 .. Len(array) /\ k <= end - 1
    BY <1>1, <2>4
  <2>6. QED
    BY <1>1, <2>3, <2>5, Shortened
<1>4. QED
  BY <1>2, <1>3

LEMMA PutIs ==
  ASSUME Arrays!TextAssumption, NEW array \in Array, NEW string \in Seq(Char)
  PROVE  /\ Arrays!Put(array, string) \in Array
         /\ \A i \in 1 .. BUF_SIZE : i <= Len(string) => Arrays!Put(array, string)[i] = string[i]
BY Characters DEF Arrays!Put, Array

LEMMA PutHolds ==
  ASSUME Arrays!TextAssumption, NEW array \in Array, NEW string, NEW line,
         Carries(string, line), Len(line) < Len(string), Len(line) < BUF_SIZE
  PROVE  Arrays!Put(array, string) \in Array /\ Holds(Arrays!Put(array, string), line)
<1>1. string \in Seq(Char) /\ Clean(line) /\ Len(line) \in Nat /\ Len(string) \in Nat /\ BUF_SIZE \in Nat
  BY Characters DEF Carries, Clean
<1>2. Len(line) + 1 \in 1 .. BUF_SIZE /\ Len(line) + 1 <= Len(string)
      /\ \A i \in 1 .. Len(line) : i \in 1 .. BUF_SIZE /\ i <= Len(string)
  BY <1>1
<1>3. QED
  BY <1>1, <1>2, PutIs DEF Carries, Holds, Begins

LEMMA LineIs ==
  ASSUME Arrays!TextAssumption, NEW k \in 1 .. 2 * MaxText, NEW len \in Nat
  PROVE  /\ Clean(Arrays!Line(k, len)) /\ Len(Arrays!Line(k, len)) = len
         /\ \A i \in 1 .. len : Arrays!Line(k, len)[i] = k
<1>1. k \in Char /\ k # 0
  BY Characters
<1>2. Arrays!Line(k, len) \in [1 .. len -> Char] /\ \A i \in 1 .. len : Arrays!Line(k, len)[i] = k
  BY <1>1 DEF Arrays!Line
<1>3. Arrays!Line(k, len) \in Seq(Char) /\ Len(Arrays!Line(k, len)) = len
  BY <1>2, ArrayIsSequence
<1>4. QED
  BY <1>1, <1>2, <1>3 DEF Clean

(* A NUL behind what is sent. *)
LEMMA Closed ==
  ASSUME Arrays!TextAssumption, NEW string, NEW line, Carries(string, line)
  PROVE  /\ Carries(string \o << 0 >>, line) /\ Len(string \o << 0 >>) = Len(string) + 1
         /\ Len(line) < Len(string \o << 0 >>)
<1>1. /\ string \in Seq(Char) /\ line \in Seq(Char) /\ Len(string) \in Nat /\ Len(line) \in Nat
      /\ Len(line) <= Len(string)
  BY DEF Carries, Clean
<1>2. << 0 >> \in Seq(Char) /\ Len(<< 0 >>) = 1 /\ << 0 >>[1] = 0
  BY Characters, Single
<1>3. /\ string \o << 0 >> \in Seq(Char) /\ Len(string \o << 0 >>) = Len(string) + 1
      /\ \A i \in 1 .. Len(string) : (string \o << 0 >>)[i] = string[i]
      /\ (string \o << 0 >>)[Len(string) + 1] = 0
  BY <1>1, <1>2, Concatenated
<1>4. Begins(string \o << 0 >>, line)
  BY <1>1, <1>3 DEF Carries, Begins
<1>5. (string \o << 0 >>)[Len(line) + 1] = 0
  BY <1>1, <1>3 DEF Carries
<1>6. QED
  BY <1>1, <1>3, <1>4, <1>5 DEF Carries

LEMMA CarriesItself ==
  ASSUME NEW line, Clean(line)
  PROVE  Carries(line, line)
BY DEF Carries, Clean, Begins

(* A line is read or typed into an array. *)
LEMMA LineRead ==
  ASSUME Arrays!TextAssumption, NEW array \in Array, NEW k \in 1 .. 2 * MaxText,
         NEW len \in 1 .. BUF_SIZE - 1
  PROVE  /\ Arrays!Put(array, Arrays!Line(k, len) \o << 0 >>) \in Array
         /\ Holds(Arrays!Put(array, Arrays!Line(k, len) \o << 0 >>), Arrays!Line(k, len))
<1>1. len \in Nat /\ len < BUF_SIZE
  BY Characters
<1>2. Clean(Arrays!Line(k, len)) /\ Len(Arrays!Line(k, len)) = len
  BY <1>1, LineIs
<1>3. /\ Carries(Arrays!Line(k, len) \o << 0 >>, Arrays!Line(k, len))
      /\ Len(Arrays!Line(k, len)) < Len(Arrays!Line(k, len) \o << 0 >>)
  BY <1>2, Closed, CarriesItself
<1>4. QED
  BY <1>1, <1>2, <1>3, PutHolds

(* What is sent of an array is cut where the line may not be over. *)
LEMMA Clipped ==
  ASSUME Arrays!TextAssumption, NEW array \in Array, NEW line, Holds(array, line),
         NEW k \in 0 .. BUF_SIZE
  PROVE  Carries(SubSeq(array, 1, k), Arrays!Cut(line, k)) /\ Len(SubSeq(array, 1, k)) = k
<1>1. /\ array \in Seq(Char) /\ Len(array) = BUF_SIZE /\ BUF_SIZE \in Nat
      /\ line \in Seq(Char) /\ Len(line) \in Nat /\ Len(line) < BUF_SIZE
      /\ \A i \in 1 .. Len(line) : line[i] # 0 /\ array[i] = line[i]
  BY SMTT(30), Characters, ArrayIsSequence DEF Array, Holds, Clean, Begins
<1>2. /\ SubSeq(array, 1, k) \in Seq(Char) /\ Len(SubSeq(array, 1, k)) = k
      /\ \A i \in 1 .. k : SubSeq(array, 1, k)[i] = array[i]
  BY <1>1, Shortened
<1>3. CASE Len(line) <= k
  <2>1. Arrays!Cut(line, k) = line
    BY <1>3 DEF Arrays!Cut
  <2>2. Len(line) < k => SubSeq(array, 1, k)[Len(line) + 1] = 0
    BY <1>1, <1>2 DEF Holds
  <2>3. Begins(SubSeq(array, 1, k), line)
    BY <1>1, <1>2, <1>3 DEF Begins
  <2>4. QED
    BY <1>2, <1>3, <2>1, <2>2, <2>3 DEF Carries, Holds
<1>4. CASE Len(line) > k
  <2>1. Arrays!Cut(line, k) = SubSeq(line, 1, k) /\ k \in 0 .. Len(line)
    BY <1>1, <1>4 DEF Arrays!Cut
  <2>2. /\ SubSeq(line, 1, k) \in Seq(Char) /\ Len(SubSeq(line, 1, k)) = k
        /\ \A i \in 1 .. k : SubSeq(line, 1, k)[i] = line[i]
    BY <1>1, <2>1, Shortened
  <2>3. \A i \in 1 .. k : i \in 1 .. Len(line)
    BY <1>1, <1>4
  <2>4. Clean(SubSeq(line, 1, k)) /\ Begins(SubSeq(array, 1, k), SubSeq(line, 1, k))
    BY <1>1, <1>2, <2>2, <2>3 DEF Clean, Begins
  <2>5. QED
    BY <1>2, <2>1, <2>2, <2>4 DEF Carries
<1>5. QED
  BY <1>1, <1>3, <1>4

(* What is underway, and what Take does with it. *)

Msg == [text : Seq(Char), line : Seq(Char)]

LEMMA MsgIs ==
  ASSUME NEW string \in Seq(Char), NEW line \in Seq(Char)
  PROVE  /\ Arrays!Packet(string, line) \in Msg
         /\ Arrays!Packet(string, line).text = string /\ Arrays!Packet(string, line).line = line
BY DEF Arrays!Packet, Msg

Side == {"a", "b"}

TextsTyped == Arrays!TypeOK /\ wire \in Seq(Msg)

\* p has its NUL.
Ended(p) == Carries(p.text, p.line) /\ Len(p.line) < Len(p.text) /\ Len(p.text) <= BUF_SIZE

LEMMA TakeShows ==
  ASSUME Arrays!TextAssumption, TextsTyped, NEW s \in Side, NEW end, Arrays!Take(s, end),
         NEW p \in Msg, wire # << >> => p = wire[1], NEW line, Carries(p.text, line),
         \/ end = << >> /\ Len(line) < Len(p.text) /\ Len(p.text) <= BUF_SIZE
         \/ end = << 0 >> /\ Len(p.text) < BUF_SIZE
  PROVE  /\ wire # << >> /\ wire' = Tail(wire) /\ UNCHANGED <<text, n, file, terminated>>
         /\ buf' \in [Side -> Array] /\ Holds(buf'[s], line)
         /\ \A r \in Side \ {s} : buf'[r] = buf[r]
         /\ shown' = [shown EXCEPT ![s] = line] /\ want' = [want EXCEPT ![s] = p.line]
<1>1. /\ wire # << >> /\ wire' = Tail(wire) /\ UNCHANGED <<text, n, file, terminated>>
      /\ Arrays!Show(s, Arrays!Cut(Head(wire).text, BUF_SIZE - Len(end)) \o end, Head(wire).line)
  BY DEF Arrays!Take
<1>2. Head(wire) = p
  BY <1>1, Rest DEF TextsTyped
<1>3. PICK string : string = Arrays!Cut(p.text, BUF_SIZE - Len(end)) \o end
  OBVIOUS
<1>4. /\ p.text \in Seq(Char) /\ line \in Seq(Char) /\ Len(p.text) \in Nat /\ Len(line) \in Nat
      /\ BUF_SIZE \in Nat
  BY Characters DEF Msg, Carries, Clean
<1>5. Carries(string, line) /\ Len(line) < Len(string) /\ Len(line) < BUF_SIZE
  <2>1. CASE end = << >> /\ Len(line) < Len(p.text) /\ Len(p.text) <= BUF_SIZE
    <3>1. Len(end) = 0 /\ Arrays!Cut(p.text, BUF_SIZE - 0) = p.text
      BY <1>4, <2>1 DEF Arrays!Cut
    <3>2. string = p.text
      BY <1>3, <1>4, <2>1, <3>1
    <3>3. QED
      BY <1>4, <2>1, <3>2
  <2>2. CASE end = << 0 >> /\ Len(p.text) < BUF_SIZE
    <3>1. Len(<< 0 >>) = 1 /\ Arrays!Cut(p.text, BUF_SIZE - 1) = p.text
      BY <1>4, <2>2 DEF Arrays!Cut
    <3>2. string = p.text \o << 0 >>
      BY <1>3, <2>2, <3>1
    <3>3. Len(line) <= Len(p.text)
      BY DEF Carries
    <3>4. QED
      BY <1>4, <2>2, <3>2, <3>3, Closed
  <2>3. QED
    BY <2>1, <2>2
<1>6. buf \in [Side -> Array] /\ buf[s] \in Array
  BY DEF TextsTyped, Arrays!TypeOK, Arrays!Side, Side, Array, Char
<1>7. PICK array : array = Arrays!Put(buf[s], string)
  OBVIOUS
<1>8. array \in Array /\ Holds(array, line)
  BY <1>5, <1>6, <1>7, PutHolds
<1>9. /\ buf' = [buf EXCEPT ![s] = array] /\ want' = [want EXCEPT ![s] = p.line]
      /\ shown' = [shown EXCEPT ![s] = Arrays!String(buf'[s])]
  BY <1>1, <1>2, <1>3, <1>7 DEF Arrays!Show
<1>10. buf' \in [Side -> Array] /\ buf'[s] = array /\ \A r \in Side \ {s} : buf'[r] = buf[r]
  BY <1>6, <1>8, <1>9
<1>11. Arrays!String(array) = line
  BY <1>8, StringHeld
<1>12. QED
  BY <1>1, <1>8, <1>9, <1>10, <1>11

(* The invariant, program by program. *)

\* Between its sides uchat has one text: a line, or a reply, which is cut to the
\* length of the line; who is next has what it printed in its array.
Uchat == text = "uchat" =>
  /\ \A k \in DOMAIN wire : Len(wire[k].text) < BUF_SIZE
  /\ turn = "net" => \A k \in DOMAIN wire : Clean(wire[k].text) /\ wire[k].text = wire[k].line
  /\ turn = "end" => \A k \in DOMAIN wire : Carries(wire[k].text, Arrays!Cut(wire[k].line, str_len))
  /\ turn = "a" /\ n > 0 => Holds(buf["a"], shown["a"])
  /\ turn = "b" => Holds(buf["b"], want["b"]) /\ str_len = Len(want["b"])

Bound == text = "bound" => \A k \in DOMAIN wire : Ended(wire[k])

Keys == text \in {"console", "chat"} =>
  \A k \in DOMAIN wire : Clean(wire[k].text) /\ wire[k].text # << >>

\* News: the last piece read, and whether it was sent twice.
LastPiece == buf["a"][1]
Again == turn = "end" /\ n > Len(file) /\ Arrays!EndUnmet

\* The number of a piece underway.
Piece(k) == wire[k].line[1]

NewsSender ==
  /\ turn \in {"a", "end"} /\ (turn = "a" /\ n = Len(file) => Arrays!EndUnmet)
  /\ turn = "a" => n <= Len(file)
  /\ n > 0 => /\ LastPiece \in 1 .. n /\ LastPiece \in 1 .. MaxText
              /\ \E len \in 1 .. BUF_SIZE - 1 : Holds(buf["a"], Arrays!Line(LastPiece, len))
  /\ turn = "end" => n <= MaxText + 1

NewsUnderway == \A k \in DOMAIN wire :
  /\ Carries(wire[k].text, wire[k].line) /\ Len(wire[k].text) < BUF_SIZE /\ wire[k].line # << >>
  /\ n > 0 /\ Piece(k) \in 1 .. MaxText /\ Piece(k) <= LastPiece

NewsOrder ==
  /\ \A j, k \in DOMAIN wire : j < k =>
       Piece(j) < Piece(k) \/ (Piece(j) = Piece(k) /\ k = Len(wire) /\ Again)
  /\ \A i \in DOMAIN heard : n > 0 /\ heard[i] <= LastPiece
  /\ \A i \in DOMAIN heard, k \in DOMAIN wire :
       heard[i] < Piece(k) \/ (heard[i] = Piece(k) /\ k = Len(wire) /\ Again)
  /\ \A k \in 2 .. Len(heard) :
       \/ heard[k - 1] < heard[k]
       \/ heard[k - 1] = heard[k] /\ k = Len(heard) /\ Again /\ wire = << >>

News == text = "news" => NewsSender /\ NewsUnderway /\ NewsOrder

TextsIInv ==
  /\ TextsTyped /\ ShownIsLast
  /\ (Uchat /\ Bound /\ Keys /\ News)
  /\ text # "news" => heard = << >>

(* What a step that shows nothing leaves as it should be. *)
LEMMA ShownStays ==
  ASSUME ShownIsLast, UNCHANGED <<text, shown, want>>, turn' # "a" \/ UNCHANGED <<turn, str_len>>
  PROVE  ShownIsLast'
BY DEF ShownIsLast, Arrays!ShownIsLast

LEMMA ShownAgain ==
  ASSUME ShownIsLast, text \in {"news", "bound"}, text' = text, NEW s \in Side, NEW line,
         shown' = [shown EXCEPT ![s] = line], want' = [want EXCEPT ![s] = line]
  PROVE  ShownIsLast'
BY DEF ShownIsLast, Arrays!ShownIsLast

LEMMA TypedAfter ==
  ASSUME TextsTyped, buf' \in [Side -> Array], wire' \in Seq(Msg), UNCHANGED <<text, file, terminated>>,
         turn' \in {"a", "b", "net", "end"}, str_len' \in 0 .. BUF_SIZE, n' \in 0 .. 2 * MaxText,
         shown' \in [Side -> Seq(Char)], want' \in [Side -> Seq(Char)], heard' \in Seq(1 .. MaxText)
  PROVE  TextsTyped'
<1>1. \A k \in DOMAIN wire' : wire'[k].text \in Seq(Char) /\ wire'[k].line \in Seq(Char)
  <2>1. \A k \in DOMAIN wire' : wire'[k] \in Msg
    OBVIOUS
  <2>2. QED
    BY <2>1 DEF Msg
<1>2. QED
  BY <1>1 DEF TextsTyped, Arrays!TypeOK, Arrays!Side, Side, Array, Char

LEMMA TypedNow ==
  ASSUME TextsTyped
  PROVE  /\ buf \in [Side -> Array] /\ wire \in Seq(Msg) /\ turn \in {"a", "b", "net", "end"}
         /\ str_len \in 0 .. BUF_SIZE /\ n \in 0 .. 2 * MaxText
         /\ shown \in [Side -> Seq(Char)] /\ want \in [Side -> Seq(Char)]
         /\ heard \in Seq(1 .. MaxText) /\ DOMAIN wire = 1 .. Len(wire) /\ Len(wire) \in Nat
         /\ \A k \in DOMAIN wire : wire[k] \in Msg
BY DEF TextsTyped, Arrays!TypeOK, Arrays!Side, Side, Array, Char

(* One text underway. *)
LEMMA OneSent ==
  ASSUME NEW string \in Seq(Char), NEW line \in Seq(Char),
         wire' = <<Arrays!Packet(string, line)>>
  PROVE  /\ wire' \in Seq(Msg) /\ DOMAIN wire' = {1} /\ Len(wire') = 1
         /\ wire'[1].text = string /\ wire'[1].line = line
BY MsgIs, Single

-----------------------------------------------------------------------------
(* uchat *)

LEMMA ChatSendKeeps ==
  ASSUME Arrays!TextAssumption, TextsIInv, Arrays!ChatSend
  PROVE  TextsIInv'
<1> USE DEF TextsIInv
<1>1. /\ text = "uchat" /\ turn = "a" /\ n < 2 * MaxText /\ n' = n + 1 /\ turn' = "net"
      /\ UNCHANGED <<text, str_len, file, terminated, shown, want, heard>>
  BY DEF Arrays!ChatSend
<1>2. n' \in 1 .. 2 * MaxText /\ BUF_SIZE \in Nat /\ buf["a"] \in Array
  BY <1>1, TypedNow, Characters DEF Side
<1>3. PICK line : /\ Clean(line) /\ Len(line) < BUF_SIZE /\ buf' \in [Side -> Array]
                  /\ wire' = <<Arrays!Packet(line, line)>>
  <2>1. ASSUME NEW len \in 1 .. BUF_SIZE - 1,
               buf' = [buf EXCEPT !["a"] = Arrays!Put(@, Arrays!Line(n', len) \o <<Arrays!NUL>>)],
               wire' = <<Arrays!Packet(Arrays!String(buf'["a"]), Arrays!Line(n', len))>>
        PROVE  /\ Clean(Arrays!Line(n', len)) /\ Len(Arrays!Line(n', len)) < BUF_SIZE
               /\ buf' \in [Side -> Array]
               /\ wire' = <<Arrays!Packet(Arrays!Line(n', len), Arrays!Line(n', len))>>
    <3>1. PICK array : array = Arrays!Put(buf["a"], Arrays!Line(n', len) \o << 0 >>)
      OBVIOUS
    <3>2. array \in Array /\ Holds(array, Arrays!Line(n', len))
      BY <1>2, <3>1, LineRead
    <3>3. buf' = [buf EXCEPT !["a"] = array]
      BY <2>1, <3>1 DEF Arrays!NUL
    <3>4. buf' \in [Side -> Array] /\ buf'["a"] = array
      BY <3>2, <3>3, TypedNow DEF Side
    <3>5. Arrays!String(buf'["a"]) = Arrays!Line(n', len)
      BY <3>2, <3>4, StringHeld
    <3>6. QED
      BY <2>1, <3>2, <3>4, <3>5 DEF Holds
  <2>2. ASSUME n > 0, wire' = <<Arrays!Packet(Arrays!String(buf["a"]), shown["a"])>>, buf' = buf
        PROVE  /\ Clean(shown["a"]) /\ Len(shown["a"]) < BUF_SIZE /\ buf' \in [Side -> Array]
               /\ wire' = <<Arrays!Packet(shown["a"], shown["a"])>>
    <3>1. Holds(buf["a"], shown["a"])
      BY <1>1, <2>2 DEF Uchat
    <3>2. Arrays!String(buf["a"]) = shown["a"]
      BY <1>2, <3>1, StringHeld
    <3>3. QED
      BY <2>2, <3>1, <3>2, TypedNow DEF Holds
  <2>3. \/ \E len \in 1 .. BUF_SIZE - 1 :
             /\ buf' = [buf EXCEPT !["a"] = Arrays!Put(@, Arrays!Line(n', len) \o <<Arrays!NUL>>)]
             /\ wire' = <<Arrays!Packet(Arrays!String(buf'["a"]), Arrays!Line(n', len))>>
        \/ n > 0 /\ wire' = <<Arrays!Packet(Arrays!String(buf["a"]), shown["a"])>> /\ buf' = buf
    BY DEF Arrays!ChatSend
  <2>4. QED
    BY <2>1, <2>2, <2>3
<1>4. /\ wire' \in Seq(Msg) /\ DOMAIN wire' = {1} /\ wire'[1].text = line /\ wire'[1].line = line
  BY <1>3, OneSent DEF Clean
<1>5. TextsTyped'
  BY <1>1, <1>2, <1>3, <1>4, TypedNow, TypedAfter
<1>6. ShownIsLast'
  BY <1>1, ShownStays
<1>7. Uchat'
  BY <1>1, <1>3, <1>4, CarriesItself DEF Uchat
<1>8. QED
  BY <1>1, <1>5, <1>6, <1>7 DEF Bound, Keys, News

LEMMA ChatServerRecvKeeps ==
  ASSUME Arrays!TextAssumption, TextsIInv, Arrays!ChatServerRecv
  PROVE  TextsIInv'
<1> USE DEF TextsIInv
<1>1. /\ text = "uchat" /\ turn = "net" /\ turn' = "b" /\ Arrays!Take("b", << 0 >>)
      /\ str_len' = Len(Head(wire).text) /\ heard' = heard /\ wire # << >>
  BY DEF Arrays!ChatServerRecv, Arrays!NUL, Arrays!Take
<1>2. PICK p \in Msg : p = wire[1] /\ p = Head(wire)
  BY <1>1, Rest, TypedNow
<1>3. /\ 1 \in DOMAIN wire /\ Tail(wire) \in Seq(Msg)
      /\ \A k \in DOMAIN Tail(wire) : k + 1 \in DOMAIN wire /\ Tail(wire)[k] = wire[k + 1]
  BY <1>1, Rest, TypedNow
<1>4. Carries(p.text, p.line) /\ Len(p.text) < BUF_SIZE /\ p.text = p.line
  BY <1>1, <1>2, <1>3, CarriesItself DEF Uchat
<1>5. /\ wire' = Tail(wire) /\ UNCHANGED <<text, n, file, terminated>>
      /\ buf' \in [Side -> Array] /\ Holds(buf'["b"], p.line)
      /\ shown' = [shown EXCEPT !["b"] = p.line] /\ want' = [want EXCEPT !["b"] = p.line]
  BY <1>1, <1>2, <1>4, TakeShows DEF Side
<1>6. /\ p.line \in Seq(Char) /\ shown' \in [Side -> Seq(Char)] /\ want' \in [Side -> Seq(Char)]
      /\ want'["b"] = p.line /\ str_len' = Len(p.line) /\ str_len' \in 0 .. BUF_SIZE
  BY SMTT(30), <1>1, <1>2, <1>4, <1>5, TypedNow, Characters DEF Msg, Side
<1>7. TextsTyped'
  BY <1>1, <1>3, <1>5, <1>6, TypedNow, TypedAfter
<1>8. ShownIsLast'
  BY <1>1, <1>5, <1>6, TypedNow DEF ShownIsLast, Arrays!ShownIsLast, Side
<1>9. Uchat'
  BY <1>1, <1>3, <1>5, <1>6 DEF Uchat
<1>10. QED
  BY <1>1, <1>5, <1>7, <1>8, <1>9 DEF Bound, Keys, News

LEMMA ChatAnswerKeeps ==
  ASSUME Arrays!TextAssumption, TextsIInv, Arrays!ChatAnswer
  PROVE  TextsIInv'
<1> USE DEF TextsIInv
<1>1. /\ text = "uchat" /\ turn = "b" /\ n < 2 * MaxText /\ n' = n + 1 /\ turn' = "end"
      /\ UNCHANGED <<text, str_len, file, terminated, shown, want, heard>>
      /\ Holds(buf["b"], want["b"]) /\ str_len = Len(want["b"])
  BY DEF Arrays!ChatAnswer, Uchat
<1>2. /\ n' \in 1 .. 2 * MaxText /\ BUF_SIZE \in Nat /\ buf["b"] \in Array /\ str_len \in 0 .. BUF_SIZE
      /\ str_len < BUF_SIZE
  BY SMTT(30), <1>1, TypedNow, Characters DEF Side, Holds
<1>3. PICK array, line :
        /\ array \in Array /\ Holds(array, line) /\ buf' \in [Side -> Array]
        /\ wire' = <<Arrays!Packet(SubSeq(array, 1, str_len), line)>>
  <2>1. ASSUME NEW len \in 1 .. BUF_SIZE - 1,
               buf' = [buf EXCEPT !["b"] = Arrays!Put(@, Arrays!Line(n', len) \o <<Arrays!NUL>>)],
               wire' = <<Arrays!Packet(SubSeq(buf'["b"], 1, str_len), Arrays!Line(n', len))>>
        PROVE  \E array, line :
                 /\ array \in Array /\ Holds(array, line) /\ buf' \in [Side -> Array]
                 /\ wire' = <<Arrays!Packet(SubSeq(array, 1, str_len), line)>>
    <3>1. PICK array : array = Arrays!Put(buf["b"], Arrays!Line(n', len) \o << 0 >>)
      OBVIOUS
    <3>2. array \in Array /\ Holds(array, Arrays!Line(n', len))
      BY <1>2, <3>1, LineRead
    <3>3. buf' = [buf EXCEPT !["b"] = array]
      BY <2>1, <3>1 DEF Arrays!NUL
    <3>4. buf' \in [Side -> Array] /\ buf'["b"] = array
      BY <3>2, <3>3, TypedNow DEF Side
    <3>5. QED
      BY <2>1, <3>2, <3>4
  <2>2. ASSUME wire' = <<Arrays!Packet(SubSeq(buf["b"], 1, str_len), want["b"])>>, buf' = buf
        PROVE  \E array, line :
                 /\ array \in Array /\ Holds(array, line) /\ buf' \in [Side -> Array]
                 /\ wire' = <<Arrays!Packet(SubSeq(array, 1, str_len), line)>>
    <3>1. buf' \in [Side -> Array]
      BY <2>2, TypedNow
    <3>2. QED
      BY <1>1, <1>2, <2>2, <3>1
  <2>3. \/ \E len \in 1 .. BUF_SIZE - 1 :
             /\ buf' = [buf EXCEPT !["b"] = Arrays!Put(@, Arrays!Line(n', len) \o <<Arrays!NUL>>)]
             /\ wire' = <<Arrays!Packet(SubSeq(buf'["b"], 1, str_len), Arrays!Line(n', len))>>
        \/ wire' = <<Arrays!Packet(SubSeq(buf["b"], 1, str_len), want["b"])>> /\ buf' = buf
    BY DEF Arrays!ChatAnswer
  <2>4. QED
    BY <2>1, <2>2, <2>3
<1>4. PICK string : string = SubSeq(array, 1, str_len)
  OBVIOUS
<1>5. Carries(string, Arrays!Cut(line, str_len)) /\ Len(string) = str_len
  BY <1>2, <1>3, <1>4, Clipped
<1>6. string \in Seq(Char) /\ line \in Seq(Char) /\ wire' = <<Arrays!Packet(string, line)>>
  BY <1>3, <1>4, <1>5 DEF Carries, Holds, Clean
<1>7. /\ wire' \in Seq(Msg) /\ DOMAIN wire' = {1} /\ wire'[1].text = string
      /\ wire'[1].line = line
  BY <1>6, OneSent
<1>8. TextsTyped'
  BY <1>1, <1>2, <1>3, <1>7, TypedNow, TypedAfter
<1>9. ShownIsLast'
  BY <1>1, ShownStays
<1>10. Uchat'
  BY <1>1, <1>2, <1>5, <1>7 DEF Uchat
<1>11. QED
  BY <1>1, <1>8, <1>9, <1>10 DEF Bound, Keys, News

LEMMA ChatRecvKeeps ==
  ASSUME Arrays!TextAssumption, TextsIInv, Arrays!ChatRecv
  PROVE  TextsIInv'
<1> USE DEF TextsIInv
<1>1. /\ text = "uchat" /\ turn = "end" /\ turn' = "a" /\ Arrays!Take("a", << 0 >>)
      /\ UNCHANGED <<str_len, heard>> /\ wire # << >>
  BY DEF Arrays!ChatRecv, Arrays!NUL, Arrays!Take
<1>2. PICK p \in Msg : p = wire[1]
  BY <1>1, Rest, TypedNow
<1>3. /\ 1 \in DOMAIN wire /\ Tail(wire) \in Seq(Msg)
      /\ \A k \in DOMAIN Tail(wire) : k + 1 \in DOMAIN wire /\ Tail(wire)[k] = wire[k + 1]
  BY <1>1, Rest, TypedNow
<1>4. PICK line : line = Arrays!Cut(p.line, str_len) /\ Carries(p.text, line) /\ Len(p.text) < BUF_SIZE
  BY <1>1, <1>2, <1>3 DEF Uchat
<1>5. /\ wire' = Tail(wire) /\ UNCHANGED <<text, n, file, terminated>>
      /\ buf' \in [Side -> Array] /\ Holds(buf'["a"], line)
      /\ shown' = [shown EXCEPT !["a"] = line] /\ want' = [want EXCEPT !["a"] = p.line]
  BY <1>1, <1>2, <1>4, TakeShows DEF Side
<1>6. /\ p.line \in Seq(Char) /\ line \in Seq(Char)
      /\ shown' \in [Side -> Seq(Char)] /\ want' \in [Side -> Seq(Char)]
      /\ want'["a"] = p.line /\ shown'["a"] = line
      /\ want'["b"] = want["b"] /\ shown'["b"] = shown["b"]
  BY <1>4, <1>5, TypedNow DEF Msg, Side, Carries, Clean
<1>7. TextsTyped'
  BY <1>1, <1>3, <1>5, <1>6, TypedNow, TypedAfter
<1>8. ShownIsLast'
  BY <1>1, <1>4, <1>5, <1>6 DEF ShownIsLast, Arrays!ShownIsLast, Arrays!Cut
<1>9. Uchat'
  BY <1>1, <1>3, <1>5, <1>6 DEF Uchat
<1>10. QED
  BY <1>1, <1>5, <1>7, <1>8, <1>9 DEF Bound, Keys, News

-----------------------------------------------------------------------------
(* bound_host, and what is lost *)

LEMMA BoundSendKeeps ==
  ASSUME Arrays!TextAssumption, TextsIInv, Arrays!BoundSend
  PROVE  TextsIInv'
<1> USE DEF TextsIInv
<1>1. PICK line : line = IF n = 0 THEN Arrays!Line(1, 2) ELSE Arrays!Line(2, 1)
  OBVIOUS
<1>2. /\ text = "bound" /\ n < 3 /\ n' = n + 1
      /\ wire' = Append(wire, Arrays!Packet(line \o << 0 >>, line))
      /\ UNCHANGED <<text, buf, turn, str_len, file, terminated, shown, want, heard>>
  BY <1>1 DEF Arrays!BoundSend, Arrays!NUL
<1>3. Clean(line) /\ Len(line) <= 2 /\ Len(line) \in Nat
  <2>1. MaxText \in Nat /\ 1 \in 1 .. 2 * MaxText /\ 2 \in 1 .. 2 * MaxText
    BY Characters
  <2>2. /\ Clean(Arrays!Line(1, 2)) /\ Len(Arrays!Line(1, 2)) = 2
        /\ Clean(Arrays!Line(2, 1)) /\ Len(Arrays!Line(2, 1)) = 1
    BY <2>1, LineIs
  <2>3. CASE n = 0
    <3>1. line = Arrays!Line(1, 2)
      BY <1>1, <2>3
    <3>2. Clean(line) /\ Len(line) = 2
      BY <2>2, <3>1
    <3>3. QED
      BY <3>2
  <2>4. CASE n # 0
    <3>1. line = Arrays!Line(2, 1)
      BY <1>1, <2>4
    <3>2. Clean(line) /\ Len(line) = 1
      BY <2>2, <3>1
    <3>3. QED
      BY <3>2
  <2>5. QED
    BY <2>3, <2>4
<1>4. /\ Carries(line \o << 0 >>, line) /\ Len(line) < Len(line \o << 0 >>)
      /\ Len(line \o << 0 >>) = Len(line) + 1
  BY <1>3, Closed, CarriesItself
<1>5. PICK p : p = Arrays!Packet(line \o << 0 >>, line)
  OBVIOUS
<1>6. p \in Msg /\ Ended(p)
  <2>1. PICK string : string = line \o << 0 >>
    OBVIOUS
  <2>2. Carries(string, line) /\ Len(line) < Len(string) /\ Len(string) = Len(line) + 1
    BY <1>4, <2>1
  <2>3. string \in Seq(Char) /\ line \in Seq(Char) /\ p = Arrays!Packet(string, line)
    BY <1>5, <2>1, <2>2 DEF Carries, Clean
  <2>4. p \in Msg /\ p.text = string /\ p.line = line
    BY <2>3, MsgIs
  <2>5. Len(string) <= BUF_SIZE
    BY <1>3, <2>2, Characters
  <2>6. QED
    BY <2>2, <2>4, <2>5 DEF Ended
<1>7. /\ wire' \in Seq(Msg) /\ DOMAIN wire' = 1 .. Len(wire) + 1 /\ DOMAIN wire = 1 .. Len(wire)
      /\ Len(wire) \in Nat
      /\ wire'[Len(wire) + 1] = p /\ \A k \in 1 .. Len(wire) : wire'[k] = wire[k]
  BY <1>2, <1>5, <1>6, TypedNow, Appended
<1>8. n' \in 0 .. 2 * MaxText
  BY <1>2, TypedNow, Characters
<1>9. TextsTyped'
  BY <1>2, <1>7, <1>8, TypedNow, TypedAfter
<1>10. ShownIsLast'
  BY <1>2, ShownStays
<1>11. Bound'
  <2> SUFFICES ASSUME NEW k \in DOMAIN wire' PROVE Ended(wire'[k])
    BY <1>2 DEF Bound
  <2>1. CASE k = Len(wire) + 1
    BY <1>6, <1>7, <2>1
  <2>2. CASE k \in 1 .. Len(wire)
    BY <1>2, <1>7, <2>2 DEF Bound
  <2>3. QED
    BY <1>7, <2>1, <2>2
<1>12. QED
  BY <1>2, <1>9, <1>10, <1>11 DEF Uchat, Keys, News

LEMMA BoundRecvKeeps ==
  ASSUME Arrays!TextAssumption, TextsIInv, Arrays!BoundRecv
  PROVE  TextsIInv'
<1> USE DEF TextsIInv
<1>1. /\ text = "bound" /\ Arrays!Take("b", << >>) /\ UNCHANGED <<turn, str_len, heard>>
      /\ wire # << >>
  BY DEF Arrays!BoundRecv, Arrays!Take
<1>2. PICK p \in Msg : p = wire[1]
  BY <1>1, Rest, TypedNow
<1>3. /\ 1 \in DOMAIN wire /\ Tail(wire) \in Seq(Msg)
      /\ \A k \in DOMAIN Tail(wire) : k + 1 \in DOMAIN wire /\ Tail(wire)[k] = wire[k + 1]
  BY <1>1, Rest, TypedNow
<1>4. Ended(p)
  BY <1>1, <1>2, <1>3 DEF Bound
<1>5. /\ wire' = Tail(wire) /\ UNCHANGED <<text, n, file, terminated>>
      /\ buf' \in [Side -> Array]
      /\ shown' = [shown EXCEPT !["b"] = p.line] /\ want' = [want EXCEPT !["b"] = p.line]
  BY <1>1, <1>2, <1>4, TakeShows DEF Side, Ended
<1>6. /\ p.line \in Seq(Char) /\ shown' \in [Side -> Seq(Char)] /\ want' \in [Side -> Seq(Char)]
  BY <1>5, TypedNow DEF Msg, Side
<1>7. TextsTyped'
  BY <1>1, <1>3, <1>5, <1>6, TypedNow, TypedAfter
<1>8. ShownIsLast'
  BY <1>1, <1>5, ShownAgain DEF Side
<1>9. Bound'
  BY <1>1, <1>3, <1>5 DEF Bound
<1>10. QED
  BY <1>1, <1>5, <1>7, <1>8, <1>9 DEF Uchat, Keys, News

LEMMA LoseKeeps ==
  ASSUME Arrays!TextAssumption, TextsIInv, Arrays!Lose
  PROVE  TextsIInv'
<1> USE DEF TextsIInv
<1>1. /\ text \in {"news", "bound"} /\ wire # << >> /\ wire' = Tail(wire)
      /\ UNCHANGED <<text, buf, turn, str_len, n, file, terminated, shown, want, heard>>
  BY DEF Arrays!Lose
<1>2. /\ wire' \in Seq(Msg) /\ Len(wire') = Len(wire) - 1 /\ Len(wire) \in Nat
      /\ DOMAIN wire' = 1 .. Len(wire) - 1 /\ DOMAIN wire = 1 .. Len(wire)
      /\ \A k \in DOMAIN wire' : k + 1 \in DOMAIN wire /\ wire'[k] = wire[k + 1]
  BY <1>1, Rest, TypedNow
<1>3. TextsTyped'
  BY <1>1, <1>2, TypedNow, TypedAfter
<1>4. ShownIsLast'
  BY <1>1, ShownStays
<1>5. Bound' /\ Uchat' /\ Keys'
  BY <1>1, <1>2 DEF Bound, Uchat, Keys
<1>6. CASE text = "news"
  <2>1. NewsSender' /\ NewsUnderway'
    BY <1>1, <1>2, <1>6 DEF News, NewsSender, NewsUnderway, Piece, LastPiece, Arrays!EndUnmet
  <2>2. NewsOrder'
    <3>1. \A k \in DOMAIN wire' : Piece(k)' = Piece(k + 1) /\ (k + 1 = Len(wire) => k = Len(wire'))
      BY <1>2 DEF Piece
    <3>2. \A j, k \in DOMAIN wire' : j < k =>
            Piece(j)' < Piece(k)' \/ (Piece(j)' = Piece(k)' /\ k = Len(wire') /\ Again')
      BY <1>1, <1>2, <1>6, <3>1 DEF News, NewsOrder, Again, Arrays!EndUnmet
    <3>3. \A i \in DOMAIN heard', k \in DOMAIN wire' :
            heard'[i] < Piece(k)' \/ (heard'[i] = Piece(k)' /\ k = Len(wire') /\ Again')
      BY <1>1, <1>2, <1>6, <3>1 DEF News, NewsOrder, Again, Arrays!EndUnmet
    <3>4. QED
      BY <1>1, <1>6, <3>2, <3>3 DEF News, NewsOrder, Again, LastPiece, Arrays!EndUnmet
  <2>3. QED
    BY <1>1, <1>3, <1>4, <1>5, <1>6, <2>1, <2>2 DEF News
<1>7. CASE text = "bound"
  BY <1>1, <1>3, <1>4, <1>5, <1>7 DEF News
<1>8. QED
  BY <1>1, <1>6, <1>7

-----------------------------------------------------------------------------
(* The keyboard, and the text from the chat server. *)

LEMMA TypeKeeps ==
  ASSUME Arrays!TextAssumption, TextsIInv, Arrays!Type
  PROVE  TextsIInv'
<1> USE DEF TextsIInv
<1>1. PICK len \in 1 .. BUF_SIZE + 1 :
        /\ text \in {"console", "chat"} /\ n < MaxText /\ n' = n + 1
        /\ wire' = <<Arrays!Packet(Arrays!Line(n', len) \o <<-1>>, << >>)>>
        /\ UNCHANGED <<text, buf, turn, str_len, file, terminated, shown, want, heard>>
  BY DEF Arrays!Type, Arrays!Newline
<1>2. n' \in 1 .. 2 * MaxText /\ len \in Nat /\ n' \in 0 .. 2 * MaxText
  BY <1>1, TypedNow, Characters
<1>3. PICK line : line = Arrays!Line(n', len)
  OBVIOUS
<1>4. Clean(line) /\ line \in Seq(Char) /\ Len(line) \in Nat
  <2>1. Clean(Arrays!Line(n', len))
    BY <1>2, LineIs
  <2>2. Clean(line)
    BY <1>3, <2>1
  <2>3. QED
    BY <2>2 DEF Clean
<1>5. <<-1>> \in Seq(Char) /\ Len(<<-1>>) = 1 /\ <<-1>>[1] = -1
  BY Characters, Single
<1>6. PICK string : string = line \o <<-1>>
  OBVIOUS
<1>7. /\ string \in Seq(Char) /\ Len(string) = Len(line) + 1
      /\ \A i \in 1 .. Len(line) : string[i] = line[i]
      /\ string[Len(line) + 1] = -1
  BY <1>4, <1>5, <1>6, Concatenated
<1>8. Clean(string) /\ string # << >>
  BY <1>4, <1>7 DEF Clean
<1>9. /\ wire' \in Seq(Msg) /\ DOMAIN wire' = {1} /\ wire'[1].text = string
  <2>1. << >> \in Seq(Char)
    OBVIOUS
  <2>2. QED
    BY <1>1, <1>3, <1>6, <1>7, <2>1, OneSent
<1>10. TextsTyped'
  BY <1>1, <1>2, <1>9, TypedNow, TypedAfter
<1>11. ShownIsLast'
  BY <1>1, ShownStays
<1>12. Keys'
  BY <1>8, <1>9 DEF Keys
<1>13. QED
  BY <1>1, <1>10, <1>11, <1>12 DEF Uchat, Bound, News

(* What is read of a text is clean, and so is what is left. *)
LEMMA ReadSomeLeaves ==
  ASSUME Arrays!TextAssumption, TextsIInv, text \in {"console", "chat"}, wire # << >>,
         NEW string, string = Head(wire).text, NEW len \in 1 .. Len(string), Arrays!ReadSome(len)
  PROVE  /\ Clean(string) /\ wire' \in Seq(Msg) /\ Keys'
         /\ UNCHANGED <<text, turn, str_len, n, file, terminated, heard>>
<1>1. /\ wire' = IF len < Len(string)
                   THEN <<Arrays!Packet(SubSeq(string, len + 1, Len(string)), << >>)>> ELSE << >>
      /\ UNCHANGED <<text, turn, str_len, n, file, terminated, heard>>
  BY DEF Arrays!ReadSome
<1>2. Clean(string) /\ string \in Seq(Char) /\ Len(string) \in Nat
  <2>1. TextsTyped /\ wire \in Seq(Msg)
    BY DEF TextsIInv, TextsTyped
  <2>2. Head(wire) = wire[1] /\ 1 \in DOMAIN wire
    BY <2>1, Rest
  <2>3. QED
    BY <2>2 DEF TextsIInv, Keys, Clean
<1>3. CASE len < Len(string)
  <2>1. PICK left : left = SubSeq(string, len + 1, Len(string))
    OBVIOUS
  <2>2. /\ left \in Seq(Char) /\ Len(left) = Len(string) - len
        /\ \A i \in 1 .. Len(string) - len : left[i] = string[len + i]
    BY <1>2, <1>3, <2>1
  <2>3. Clean(left) /\ left # << >>
    <3>1. \A i \in 1 .. Len(string) - len : len + i \in 1 .. Len(string)
      BY <1>2, <1>3
    <3>2. \A i \in 1 .. Len(string) - len : left[i] # 0
      BY <1>2, <2>2, <3>1 DEF Clean
    <3>3. Len(left) > 0
      BY <1>2, <1>3, <2>2
    <3>4. QED
      BY <2>2, <3>2, <3>3 DEF Clean
  <2>4. wire' \in Seq(Msg) /\ DOMAIN wire' = {1} /\ wire'[1].text = left
    <3>1. << >> \in Seq(Char) /\ wire' = <<Arrays!Packet(left, << >>)>>
      BY <1>1, <1>3, <2>1
    <3>2. QED
      BY <2>2, <3>1, OneSent
  <2>5. QED
    BY <1>1, <1>2, <2>3, <2>4 DEF Keys
<1>4. CASE ~ (len < Len(string))
  <2>1. wire' = << >> /\ << >> \in Seq(Msg) /\ DOMAIN << >> = {}
    BY <1>1, <1>4
  <2>2. QED
    BY <1>1, <1>2, <2>1 DEF Keys
<1>5. QED
  BY <1>3, <1>4

LEMMA ConsoleReadKeeps ==
  ASSUME Arrays!TextAssumption, TextsIInv, Arrays!ConsoleRead
  PROVE  TextsIInv'
<1> USE DEF TextsIInv
<1>1. PICK string : string = Head(wire).text
  OBVIOUS
<1>2. PICK line : line = Arrays!Cut(string, BUF_SIZE)
  OBVIOUS
<1>3. PICK start : start = Arrays!Front(line)
  OBVIOUS
<1>4. /\ text = "console" /\ wire # << >> /\ Arrays!ReadSome(Len(line))
      /\ Arrays!Show("b", start \o << 0 >>, line)
  BY <1>1, <1>2, <1>3 DEF Arrays!ConsoleRead, Arrays!NUL
<1>5. /\ string \in Seq(Char) /\ Clean(string) /\ string # << >> /\ Len(string) \in Nat
      /\ Len(string) > 0 /\ BUF_SIZE \in Nat /\ BUF_SIZE > 0
  <2>1. Head(wire) = wire[1] /\ 1 \in DOMAIN wire
    BY <1>4, TypedNow, Rest
  <2>2. Clean(string) /\ string # << >>
    BY <1>1, <1>4, <2>1 DEF Keys
  <2>3. QED
    BY <2>2, Characters DEF Clean
<1>6. /\ line \in Seq(Char) /\ Len(line) \in 1 .. Len(string) /\ Len(line) <= BUF_SIZE
      /\ \A i \in 1 .. Len(line) : line[i] = string[i]
  <2>1. CASE Len(string) <= BUF_SIZE
    BY <1>2, <1>5, <2>1 DEF Arrays!Cut
  <2>2. CASE ~ (Len(string) <= BUF_SIZE)
    <3>1. line = SubSeq(string, 1, BUF_SIZE) /\ BUF_SIZE \in 0 .. Len(string)
      BY <1>2, <1>5, <2>2 DEF Arrays!Cut
    <3>2. QED
      BY <1>5, <3>1, Shortened
  <2>3. QED
    BY <2>1, <2>2
<1>7. /\ start \in Seq(Char) /\ Len(start) = Len(line) - 1
      /\ \A i \in 1 .. Len(line) - 1 : start[i] = line[i]
  <2>1. start = SubSeq(line, 1, Len(line) - 1) /\ Len(line) - 1 \in 0 .. Len(line)
    BY <1>3, <1>6 DEF Arrays!Front
  <2>2. QED
    BY <1>6, <2>1, Shortened
<1>8. Clean(start) /\ Len(start) < BUF_SIZE
  BY <1>5, <1>6, <1>7 DEF Clean
<1>9. Carries(start \o << 0 >>, start) /\ Len(start) < Len(start \o << 0 >>)
  BY <1>8, Closed, CarriesItself
<1>10. PICK array : array = Arrays!Put(buf["b"], start \o << 0 >>)
  OBVIOUS
<1>11. array \in Array /\ Holds(array, start)
  <2>1. buf["b"] \in Array
    BY TypedNow DEF Side
  <2>2. QED
    BY <1>8, <1>9, <1>10, <2>1, PutHolds
<1>12. /\ buf' \in [Side -> Array] /\ shown' = [shown EXCEPT !["b"] = start]
       /\ want' = [want EXCEPT !["b"] = line]
  <2>1. /\ buf' = [buf EXCEPT !["b"] = array] /\ want' = [want EXCEPT !["b"] = line]
        /\ shown' = [shown EXCEPT !["b"] = Arrays!String(buf'["b"])]
    BY <1>4, <1>10 DEF Arrays!Show
  <2>2. buf' \in [Side -> Array] /\ buf'["b"] = array
    BY <1>11, <2>1, TypedNow DEF Side
  <2>3. QED
    BY <1>11, <2>1, <2>2, StringHeld
<1>13. /\ wire' \in Seq(Msg) /\ Keys'
       /\ UNCHANGED <<text, turn, str_len, n, file, terminated, heard>>
  BY <1>1, <1>4, <1>6, ReadSomeLeaves
<1>14. /\ shown' \in [Side -> Seq(Char)] /\ want' \in [Side -> Seq(Char)]
       /\ shown'["b"] = start /\ want'["b"] = line
  BY <1>6, <1>7, <1>12, TypedNow DEF Side
<1>15. TextsTyped'
  BY <1>12, <1>13, <1>14, TypedNow, TypedAfter
<1>16. ShownIsLast'
  BY <1>3, <1>4, <1>13, <1>14 DEF ShownIsLast, Arrays!ShownIsLast
<1>17. QED
  BY <1>4, <1>13, <1>15, <1>16 DEF Uchat, Bound, News

LEMMA ConsoleEndKeeps ==
  ASSUME Arrays!TextAssumption, TextsIInv, Arrays!ConsoleEnd
  PROVE  TextsIInv'
<1> USE DEF TextsIInv
<1>1. PICK array : array = Arrays!Put(buf["b"], << >>)
  OBVIOUS
<1>2. PICK printed : printed = Arrays!String(array)
  OBVIOUS
<1>3. /\ text = "console" /\ UNCHANGED <<text, wire, turn, str_len, n, file, terminated, heard>>
      /\ buf' = [buf EXCEPT !["b"] = array] /\ want' = [want EXCEPT !["b"] = << >>]
      /\ shown' = [shown EXCEPT !["b"] = Arrays!String(buf'["b"])]
  BY <1>1 DEF Arrays!ConsoleEnd, Arrays!Show
<1>4. array \in Array
  <2>1. buf["b"] \in Array /\ << >> \in Seq(Char)
    BY TypedNow DEF Side
  <2>2. QED
    BY <1>1, <2>1, PutIs
<1>5. printed \in Seq(Char)
  <2>1. 0 \in 0 .. BUF_SIZE /\ \A i \in 1 .. 0 : array[i] # 0
    BY Characters
  <2>2. QED
    BY <1>2, <1>4, <2>1, StringIs
<1>6. /\ buf' \in [Side -> Array] /\ shown' \in [Side -> Seq(Char)]
      /\ want' \in [Side -> Seq(Char)] /\ want'["b"] = << >>
  <2>1. << >> \in Seq(Char)
    OBVIOUS
  <2>2. buf' \in [Side -> Array] /\ buf'["b"] = array
    BY <1>3, <1>4, TypedNow DEF Side
  <2>3. QED
    BY <1>2, <1>3, <1>5, <2>1, <2>2, TypedNow DEF Side
<1>7. TextsTyped'
  BY <1>3, <1>6, TypedNow, TypedAfter
<1>8. ShownIsLast'
  BY <1>3, <1>6 DEF ShownIsLast, Arrays!ShownIsLast
<1>9. QED
  BY <1>3, <1>7, <1>8 DEF Uchat, Bound, Keys, News

LEMMA ChatClientReadKeeps ==
  ASSUME Arrays!TextAssumption, TextsIInv, Arrays!ChatClientRead
  PROVE  TextsIInv'
<1> USE DEF TextsIInv
<1>1. PICK string : string = Head(wire).text
  OBVIOUS
<1>2. PICK len \in 1 .. BUF_SIZE - 1 :
        /\ text = "chat" /\ wire # << >> /\ len <= Len(string) /\ Arrays!ReadSome(len)
        /\ Arrays!Show("b", Arrays!Cut(string, len) \o <<-1>>, Arrays!Cut(string, len) \o <<-1>>)
  BY <1>1 DEF Arrays!ChatClientRead, Arrays!Newline
<1>3. PICK line : line = Arrays!Cut(string, len) \o <<-1>>
  OBVIOUS
<1>4. /\ string \in Seq(Char) /\ Clean(string) /\ Len(string) \in Nat /\ BUF_SIZE \in Nat
      /\ len \in 1 .. Len(string)
  <2>1. Head(wire) = wire[1] /\ 1 \in DOMAIN wire
    BY <1>2, TypedNow, Rest
  <2>2. Clean(string)
    BY <1>1, <1>2, <2>1 DEF Keys
  <2>3. QED
    BY <1>2, <2>2, Characters DEF Clean
<1>5. PICK start : start = Arrays!Cut(string, len)
  OBVIOUS
<1>6. /\ start \in Seq(Char) /\ Len(start) = len /\ \A i \in 1 .. len : start[i] = string[i]
  <2>1. CASE Len(string) <= len
    BY <1>4, <1>5, <2>1 DEF Arrays!Cut
  <2>2. CASE ~ (Len(string) <= len)
    BY <1>4, <1>5, <2>2, Shortened DEF Arrays!Cut
  <2>3. QED
    BY <2>1, <2>2
<1>7. /\ line \in Seq(Char) /\ Len(line) = len + 1 /\ Clean(line)
  <2>1. <<-1>> \in Seq(Char) /\ Len(<<-1>>) = 1 /\ <<-1>>[1] = -1
    BY Characters, Single
  <2>2. line = start \o <<-1>>
    BY <1>3, <1>5
  <2>3. /\ line \in Seq(Char) /\ Len(line) = len + 1 /\ line[len + 1] = -1
        /\ \A i \in 1 .. len : line[i] = start[i]
    BY <1>6, <2>1, <2>2, Concatenated
  <2>4. \A i \in 1 .. len : line[i] # 0
    BY <1>4, <1>6, <2>3 DEF Clean
  <2>5. \A i \in 1 .. len + 1 : i \in 1 .. len \/ i = len + 1
    BY <1>4
  <2>6. QED
    BY <2>3, <2>4, <2>5 DEF Clean
<1>8. PICK array : array = Arrays!Put(buf["b"], line)
  OBVIOUS
<1>9. /\ array \in Array /\ \A i \in 1 .. len + 1 : array[i] = line[i]
      /\ len + 1 \in 0 .. BUF_SIZE
  <2>1. buf["b"] \in Array
    BY TypedNow DEF Side
  <2>2. /\ array \in Array /\ \A i \in 1 .. BUF_SIZE : i <= Len(line) => array[i] = line[i]
    BY <1>7, <1>8, <2>1, PutIs
  <2>3. \A i \in 1 .. len + 1 : i \in 1 .. BUF_SIZE /\ i <= Len(line)
    BY <1>4, <1>7
  <2>4. QED
    BY <1>4, <2>2, <2>3
<1>10. PICK printed : printed = Arrays!String(array)
  OBVIOUS
<1>11. printed \in Seq(Char)
  <2>1. \A i \in 1 .. len + 1 : array[i] # 0
    BY <1>7, <1>9 DEF Clean
  <2>2. QED
    BY <1>9, <1>10, <2>1, StringIs
<1>12. /\ buf' \in [Side -> Array] /\ shown' = [shown EXCEPT !["b"] = printed]
       /\ want' = [want EXCEPT !["b"] = line]
  <2>1. /\ buf' = [buf EXCEPT !["b"] = array] /\ want' = [want EXCEPT !["b"] = line]
        /\ shown' = [shown EXCEPT !["b"] = Arrays!String(buf'["b"])]
    BY <1>2, <1>3, <1>8 DEF Arrays!Show
  <2>2. buf' \in [Side -> Array] /\ buf'["b"] = array
    BY <1>9, <2>1, TypedNow DEF Side
  <2>3. QED
    BY <1>10, <2>1, <2>2
<1>13. /\ wire' \in Seq(Msg) /\ Keys'
       /\ UNCHANGED <<text, turn, str_len, n, file, terminated, heard>>
  BY <1>1, <1>2, <1>4, ReadSomeLeaves
<1>14. shown' \in [Side -> Seq(Char)] /\ want' \in [Side -> Seq(Char)]
  BY <1>7, <1>11, <1>12, TypedNow DEF Side
<1>15. TextsTyped'
  BY <1>12, <1>13, <1>14, TypedNow, TypedAfter
<1>16. ShownIsLast'
  BY <1>2, <1>13 DEF ShownIsLast, Arrays!ShownIsLast
<1>17. QED
  BY <1>2, <1>13, <1>15, <1>16 DEF Uchat, Bound, News

-----------------------------------------------------------------------------
(* The news: pieces are sent in the order they are read in, and the last   *)
(* one twice only where nothing is read after it.                          *)

\* The file has a piece of that number.
LEMMA FilePiece ==
  ASSUME Arrays!TextAssumption, Arrays!TypeOK
  PROVE  /\ Len(file) \in 1 .. MaxText /\ Len(file) \in Nat
         /\ \A k \in 1 .. Len(file) : file[k] \in 1 .. BUF_SIZE - 1
<1>1. file \in Seq(1 .. BUF_SIZE - 1) /\ Len(file) \in 1 .. MaxText
  BY DEF Arrays!TextAssumption, Arrays!TypeOK
<1>2. QED
  BY <1>1, Elements

\* fgets() reads a piece.
LEMMA NewsReadKeeps ==
  ASSUME Arrays!TextAssumption, TextsIInv, Arrays!NewsSend, n < Len(file)
  PROVE  TextsIInv'
<1> USE DEF TextsIInv
<1>1. /\ text = "news" /\ turn = "a" /\ n' = n + 1
      /\ buf' = [buf EXCEPT !["a"] = Arrays!Put(@, Arrays!Line(n', file[n']) \o << 0 >>)]
      /\ wire' = Append(wire, Arrays!Packet(Arrays!String(buf'["a"]), Arrays!String(buf'["a"])))
      /\ turn' = IF n' < Len(file) \/ (n' = Len(file) /\ Arrays!EndUnmet) THEN "a" ELSE "end"
      /\ UNCHANGED <<text, str_len, file, terminated, shown, want, heard>>
  BY DEF Arrays!NewsSend, Arrays!NewsPiece, Arrays!NUL
<1>2. Len(file) \in 1 .. MaxText /\ Len(file) \in Nat /\ \A k \in 1 .. Len(file) : file[k] \in 1 .. BUF_SIZE - 1
  BY FilePiece DEF TextsTyped
<1>3. /\ NewsSender /\ NewsUnderway /\ NewsOrder /\ n \in Nat /\ MaxText \in Nat /\ MaxText > 1
      /\ BUF_SIZE \in Nat
  BY <1>1, TypedNow, Characters DEF News
<1>4. n' \in 1 .. Len(file) /\ n' \in 1 .. MaxText /\ n' \in 1 .. 2 * MaxText
  BY <1>1, <1>2, <1>3
<1>5. PICK len, line :
        /\ len \in 1 .. BUF_SIZE - 1 /\ len \in Nat
        /\ len = file[n'] /\ line = Arrays!Line(n', len)
  <2>1. file[n'] \in 1 .. BUF_SIZE - 1 /\ file[n'] \in Nat
    BY <1>2, <1>3, <1>4
  <2>2. QED
    BY <2>1
<1>6. PICK array : array = Arrays!Put(buf["a"], line \o << 0 >>)
  OBVIOUS
<1>7. /\ array \in Array /\ Holds(array, line) /\ Len(line) = len
      /\ \A i \in 1 .. len : line[i] = n'
  <2>1. buf["a"] \in Array
    BY TypedNow DEF Side
  <2>2. /\ Arrays!Put(buf["a"], Arrays!Line(n', len) \o << 0 >>) \in Array
        /\ Holds(Arrays!Put(buf["a"], Arrays!Line(n', len) \o << 0 >>), Arrays!Line(n', len))
    BY <1>4, <1>5, <2>1, LineRead
  <2>3. Len(Arrays!Line(n', len)) = len /\ \A i \in 1 .. len : Arrays!Line(n', len)[i] = n'
    BY <1>4, <1>5, LineIs
  <2>4. QED
    BY <1>5, <1>6, <2>2, <2>3
<1>8. /\ buf' \in [Side -> Array] /\ buf'["a"] = array
  <2>1. buf' = [buf EXCEPT !["a"] = array]
    BY <1>1, <1>5, <1>6
  <2>2. QED
    BY <1>7, <2>1, TypedNow DEF Side
<1>9. line \in Seq(Char) /\ Clean(line) /\ Len(line) \in 1 .. BUF_SIZE - 1 /\ line[1] = n'
       /\ array[1] = n'
  BY <1>3, <1>5, <1>7 DEF Holds, Clean, Begins
<1>10. PICK p \in Msg : p.text = line /\ p.line = line /\ wire' = Append(wire, p)
  BY <1>1, <1>7, <1>8, <1>9, MsgIs, StringHeld
<1>11. /\ wire' \in Seq(Msg) /\ Len(wire') = Len(wire) + 1 /\ Len(wire) \in Nat
       /\ DOMAIN wire = 1 .. Len(wire) /\ DOMAIN wire' = 1 .. Len(wire) + 1
       /\ wire'[Len(wire) + 1] = p /\ \A i \in DOMAIN wire : wire'[i] = wire[i]
  BY <1>10, TypedNow, Appended
<1>12. TextsTyped'
  <2>1. n' \in 0 .. 2 * MaxText /\ turn' \in {"a", "b", "net", "end"}
    BY <1>1, <1>4
  <2>2. QED
    BY <1>1, <1>8, <1>11, <2>1, TypedNow, TypedAfter
<1>13. ShownIsLast'
  BY <1>1 DEF ShownIsLast, Arrays!ShownIsLast
<1>14. /\ LastPiece' = n' /\ ~ Again /\ ~ Again' /\ (n > 0 => LastPiece <= n)
  BY <1>1, <1>2, <1>3, <1>4, <1>8, <1>9 DEF LastPiece, Again, NewsSender
<1>15. /\ \A i \in DOMAIN wire' : i = Len(wire) + 1 => Piece(i)' = n'
       /\ \A i \in DOMAIN wire : /\ Piece(i)' = Piece(i) /\ Piece(i) \in 1 .. MaxText
                                 /\ Piece(i) < n' /\ n > 0
  <2>1. \A i \in DOMAIN wire' : i = Len(wire) + 1 => Piece(i)' = n'
    BY <1>1, <1>9, <1>10, <1>11 DEF Piece
  <2>2. \A i \in DOMAIN wire : Piece(i)' = Piece(i)
    BY <1>11 DEF Piece
  <2>3. \A i \in DOMAIN wire : n > 0 /\ Piece(i) \in 1 .. MaxText /\ Piece(i) <= LastPiece
    BY <1>3 DEF NewsUnderway
  <2>4. n > 0 => LastPiece \in 1 .. n
    BY <1>3 DEF NewsSender
  <2>5. QED
    BY <1>1, <1>3, <2>1, <2>2, <2>3, <2>4
<1>16. NewsSender'
  <2>1. /\ turn' \in {"a", "end"} /\ (turn' = "a" /\ n' = Len(file') => Arrays!EndUnmet')
        /\ n' > 0 /\ n' <= MaxText + 1 /\ n' <= Len(file')
    BY <1>1, <1>2, <1>3, <1>4 DEF Arrays!EndUnmet
  <2>2. \E k \in 1 .. BUF_SIZE - 1 : Holds(buf'["a"], Arrays!Line(n', k))
    BY <1>5, <1>7, <1>8
  <2>3. QED
    BY <1>4, <1>14, <2>1, <2>2 DEF NewsSender
<1>17. NewsUnderway'
  <2> SUFFICES ASSUME NEW i \in DOMAIN wire'
               PROVE  /\ Carries(wire'[i].text, wire'[i].line) /\ Len(wire'[i].text) < BUF_SIZE
                      /\ wire'[i].line # << >>
                      /\ n' > 0 /\ Piece(i)' \in 1 .. MaxText /\ Piece(i)' <= LastPiece'
    BY DEF NewsUnderway
  <2>1. CASE i = Len(wire) + 1
    <3>1. /\ wire'[i] = p /\ Carries(line, line) /\ line # << >> /\ Len(line) < BUF_SIZE
      BY <1>3, <1>9, <1>11, <2>1, CarriesItself
    <3>2. Piece(i)' = n'
      BY <1>11, <1>9, <1>10, <2>1 DEF Piece
    <3>3. QED
      BY <1>4, <1>10, <1>14, <3>1, <3>2
  <2>2. CASE i \in DOMAIN wire
    BY <1>3, <1>4, <1>11, <1>14, <1>15, <2>2 DEF NewsUnderway
  <2>3. QED
    BY <1>11, <2>1, <2>2
<1>18. NewsOrder'
  <2>1. \A i, j \in DOMAIN wire' : i < j => Piece(i)' < Piece(j)'
    <3> SUFFICES ASSUME NEW i \in DOMAIN wire', NEW j \in DOMAIN wire', i < j
                 PROVE  Piece(i)' < Piece(j)'
      OBVIOUS
    <3>1. i \in DOMAIN wire
      BY <1>11
    <3>2. CASE j = Len(wire) + 1
      <4>1. Piece(j)' = n'
        BY <1>9, <1>10, <1>11, <3>2 DEF Piece
      <4>2. QED
        BY <1>15, <3>1, <4>1
    <3>3. CASE j \in DOMAIN wire
      <4>1. Piece(i) < Piece(j)
        BY <1>3, <1>14, <3>1, <3>3 DEF NewsOrder
      <4>2. QED
        BY <1>15, <3>1, <3>3, <4>1
    <3>4. QED
      BY <1>11, <3>2, <3>3
  <2>2. heard \in Seq(1 .. MaxText) /\ DOMAIN heard = 1 .. Len(heard) /\ Len(heard) \in Nat
        /\ \A i \in DOMAIN heard : heard[i] \in 1 .. MaxText
    <3>1. heard \in Seq(1 .. MaxText)
      BY TypedNow
    <3>2. QED
      BY <3>1, Elements
  <2>3. \A i \in DOMAIN heard : n > 0 /\ heard[i] <= LastPiece /\ heard[i] < n'
    <3>1. \A i \in DOMAIN heard : n > 0 /\ heard[i] <= LastPiece
      BY <1>3 DEF NewsOrder
    <3>2. n > 0 => LastPiece \in 1 .. n
      BY <1>3 DEF NewsSender
    <3>3. QED
      BY <1>1, <1>3, <2>2, <3>1, <3>2
  <2>4. \A i \in DOMAIN heard, j \in DOMAIN wire' : heard[i] < Piece(j)'
    <3> SUFFICES ASSUME NEW i \in DOMAIN heard, NEW j \in DOMAIN wire' PROVE heard[i] < Piece(j)'
      OBVIOUS
    <3>1. CASE j = Len(wire) + 1
      <4>1. Piece(j)' = n'
        BY <1>9, <1>10, <1>11, <3>1 DEF Piece
      <4>2. QED
        BY <2>3, <4>1
    <3>2. CASE j \in DOMAIN wire
      <4>1. heard[i] < Piece(j)
        BY <1>3, <1>14, <3>2 DEF NewsOrder
      <4>2. QED
        BY <1>15, <3>2, <4>1
    <3>3. QED
      BY <1>11, <3>1, <3>2
  <2>5. \A i \in 2 .. Len(heard) : heard[i - 1] < heard[i]
    BY <1>3, <1>14 DEF NewsOrder
  <2>6. \A i \in DOMAIN heard : n' > 0 /\ heard[i] <= LastPiece'
    BY <1>1, <1>3, <1>14, <2>2, <2>3
  <2>7. QED
    BY <1>1, <2>1, <2>4, <2>5, <2>6 DEF NewsOrder
<1>19. QED
  BY <1>1, <1>12, <1>13, <1>16, <1>17, <1>18 DEF News, Uchat, Bound, Keys

\* fgets() meets the end of the file, and what it read last is sent again.
LEMMA NewsEndKeeps ==
  ASSUME Arrays!TextAssumption, TextsIInv, Arrays!NewsSend, ~ (n < Len(file))
  PROVE  TextsIInv'
<1> USE DEF TextsIInv
<1>1. /\ text = "news" /\ turn = "a" /\ n' = n + 1 /\ buf' = buf
      /\ wire' = Append(wire, Arrays!Packet(Arrays!String(buf["a"]), Arrays!String(buf["a"])))
      /\ turn' = IF n' < Len(file) \/ (n' = Len(file) /\ Arrays!EndUnmet) THEN "a" ELSE "end"
      /\ UNCHANGED <<text, str_len, file, terminated, shown, want, heard>>
  <2>1. /\ text = "news" /\ turn = "a" /\ n' = n + 1 /\ buf' = buf
        /\ wire' = Append(wire, Arrays!Packet(Arrays!String(buf'["a"]), Arrays!String(buf'["a"])))
        /\ turn' = IF n' < Len(file) \/ (n' = Len(file) /\ Arrays!EndUnmet) THEN "a" ELSE "end"
        /\ UNCHANGED <<text, str_len, file, terminated, shown, want, heard>>
    BY DEF Arrays!NewsSend, Arrays!NewsPiece
  <2>2. QED
    BY <2>1
<1>2. /\ NewsSender /\ NewsUnderway /\ NewsOrder /\ n \in Nat /\ MaxText \in Nat /\ MaxText > 1
      /\ BUF_SIZE \in Nat
  BY <1>1, TypedNow, Characters DEF News
<1>3. /\ n > 0 /\ LastPiece \in 1 .. n /\ LastPiece \in 1 .. MaxText /\ n <= MaxText
      /\ n = Len(file) /\ turn' = "end" /\ Arrays!EndUnmet
  <2>1. Len(file) \in 1 .. MaxText /\ Len(file) \in Nat
    BY FilePiece DEF TextsTyped
  <2>2. n = Len(file) /\ Arrays!EndUnmet
    BY <1>1, <1>2, <2>1 DEF NewsSender
  <2>3. QED
    BY <1>1, <1>2, <2>1, <2>2 DEF NewsSender
<1>4. n' \in 1 .. MaxText + 1 /\ n' \in 0 .. 2 * MaxText
  BY <1>1, <1>2, <1>3
<1>5. PICK len \in 1 .. BUF_SIZE - 1 : Holds(buf["a"], Arrays!Line(LastPiece, len))
  BY <1>2, <1>3 DEF NewsSender
<1>6. PICK line : line = Arrays!Line(LastPiece, len)
  OBVIOUS
<1>7. /\ Holds(buf["a"], line) /\ Clean(line) /\ line \in Seq(Char) /\ Len(line) \in 1 .. BUF_SIZE - 1
      /\ line[1] = LastPiece
  <2>1. LastPiece \in 1 .. 2 * MaxText /\ len \in Nat
    BY <1>2, <1>3
  <2>2. Len(Arrays!Line(LastPiece, len)) = len /\ Arrays!Line(LastPiece, len)[1] = LastPiece
    BY <2>1, LineIs
  <2>3. QED
    BY <1>5, <1>6, <2>2 DEF Holds, Clean
<1>8. Arrays!String(buf["a"]) = line
  <2>1. buf["a"] \in Array
    BY TypedNow DEF Side
  <2>2. QED
    BY <1>7, <2>1, StringHeld
<1>9. PICK p \in Msg : p.text = line /\ p.line = line /\ wire' = Append(wire, p)
  BY <1>1, <1>7, <1>8, MsgIs
<1>10. /\ wire' \in Seq(Msg) /\ Len(wire') = Len(wire) + 1 /\ Len(wire) \in Nat
       /\ DOMAIN wire = 1 .. Len(wire) /\ DOMAIN wire' = 1 .. Len(wire) + 1
       /\ wire'[Len(wire) + 1] = p /\ \A i \in DOMAIN wire : wire'[i] = wire[i]
  BY <1>9, TypedNow, Appended
<1>11. TextsTyped'
  BY <1>1, <1>4, <1>10, TypedNow, TypedAfter
<1>12. ShownIsLast'
  BY <1>1 DEF ShownIsLast, Arrays!ShownIsLast
<1>13. /\ LastPiece' = LastPiece /\ ~ Again /\ Again'
  BY <1>1, <1>2, <1>3 DEF LastPiece, Again, Arrays!EndUnmet
<1>14. /\ \A i \in DOMAIN wire' : i = Len(wire) + 1 => Piece(i)' = LastPiece
       /\ \A i \in DOMAIN wire : Piece(i)' = Piece(i) /\ Piece(i) \in 1 .. MaxText
                                 /\ Piece(i) <= LastPiece
  <2>1. \A i \in DOMAIN wire' : i = Len(wire) + 1 => Piece(i)' = LastPiece
    BY <1>7, <1>9, <1>10 DEF Piece
  <2>2. \A i \in DOMAIN wire : Piece(i)' = Piece(i)
    BY <1>10 DEF Piece
  <2>3. QED
    BY <1>2, <2>1, <2>2 DEF NewsUnderway
<1>15. NewsSender'
  <2>1. /\ turn' = "end" /\ n' > 0 /\ n' <= MaxText + 1
        /\ LastPiece \in 1 .. n'
    BY <1>1, <1>2, <1>3, <1>4
  <2>2. Holds(buf'["a"], Arrays!Line(LastPiece', len))
    BY <1>1, <1>5, <1>13
  <2>3. QED
    BY <1>3, <1>13, <2>1, <2>2 DEF NewsSender
<1>16. NewsUnderway'
  <2> SUFFICES ASSUME NEW i \in DOMAIN wire'
               PROVE  /\ Carries(wire'[i].text, wire'[i].line) /\ Len(wire'[i].text) < BUF_SIZE
                      /\ wire'[i].line # << >>
                      /\ n' > 0 /\ Piece(i)' \in 1 .. MaxText /\ Piece(i)' <= LastPiece'
    BY DEF NewsUnderway
  <2>1. n' > 0
    BY <1>4
  <2>2. CASE i = Len(wire) + 1
    <3>1. /\ wire'[i] = p /\ Carries(line, line) /\ line # << >> /\ Len(line) < BUF_SIZE
      BY <1>2, <1>7, <1>10, <2>2, CarriesItself
    <3>2. Piece(i)' = LastPiece
      BY <1>14, <2>2
    <3>3. QED
      BY <1>3, <1>9, <1>13, <2>1, <3>1, <3>2
  <2>3. CASE i \in DOMAIN wire
    BY <1>2, <1>10, <1>13, <1>14, <2>1, <2>3 DEF NewsUnderway
  <2>4. QED
    BY <1>10, <2>2, <2>3
<1>17. NewsOrder'
  <2>1. \A i, j \in DOMAIN wire' : i < j =>
          Piece(i)' < Piece(j)' \/ (Piece(i)' = Piece(j)' /\ j = Len(wire') /\ Again')
    <3> SUFFICES ASSUME NEW i \in DOMAIN wire', NEW j \in DOMAIN wire', i < j
                 PROVE  Piece(i)' < Piece(j)' \/ (Piece(i)' = Piece(j)' /\ j = Len(wire') /\ Again')
      OBVIOUS
    <3>1. i \in DOMAIN wire
      BY <1>10
    <3>2. CASE j = Len(wire) + 1
      <4>1. Piece(j)' = LastPiece /\ Piece(i)' <= LastPiece /\ Piece(i)' \in 1 .. MaxText
        BY <1>14, <3>1, <3>2
      <4>2. QED
        BY <1>3, <1>10, <1>13, <3>2, <4>1
    <3>3. CASE j \in DOMAIN wire
      <4>1. Piece(i) < Piece(j)
        BY <1>2, <1>13, <3>1, <3>3 DEF NewsOrder
      <4>2. QED
        BY <1>14, <3>1, <3>3, <4>1
    <3>4. QED
      BY <1>10, <3>2, <3>3
  <2>2. DOMAIN heard = 1 .. Len(heard) /\ Len(heard) \in Nat
        /\ \A i \in DOMAIN heard : heard[i] \in 1 .. MaxText
    <3>1. heard \in Seq(1 .. MaxText)
      BY TypedNow
    <3>2. QED
      BY <3>1, Elements
  <2>3. \A i \in DOMAIN heard : heard[i] <= LastPiece
    BY <1>2 DEF NewsOrder
  <2>4. \A i \in DOMAIN heard, j \in DOMAIN wire' :
          heard[i] < Piece(j)' \/ (heard[i] = Piece(j)' /\ j = Len(wire') /\ Again')
    <3> SUFFICES ASSUME NEW i \in DOMAIN heard, NEW j \in DOMAIN wire'
                 PROVE  heard[i] < Piece(j)' \/ (heard[i] = Piece(j)' /\ j = Len(wire') /\ Again')
      OBVIOUS
    <3>1. CASE j = Len(wire) + 1
      <4>1. Piece(j)' = LastPiece
        BY <1>14, <3>1
      <4>2. QED
        BY <1>3, <1>10, <1>13, <2>2, <2>3, <3>1, <4>1
    <3>2. CASE j \in DOMAIN wire
      <4>1. heard[i] < Piece(j)
        BY <1>2, <1>13, <3>2 DEF NewsOrder
      <4>2. QED
        BY <1>14, <3>2, <4>1
    <3>3. QED
      BY <1>10, <3>1, <3>2
  <2>5. \A i \in 2 .. Len(heard) : heard[i - 1] < heard[i]
    BY <1>2, <1>13 DEF NewsOrder
  <2>6. \A i \in DOMAIN heard : n' > 0 /\ heard[i] <= LastPiece'
    BY <1>4, <1>13, <2>3
  <2>7. QED
    BY <1>1, <2>1, <2>4, <2>5, <2>6 DEF NewsOrder
<1>18. QED
  BY <1>1, <1>11, <1>12, <1>15, <1>16, <1>17 DEF News, Uchat, Bound, Keys

LEMMA NewsRecvKeeps ==
  ASSUME Arrays!TextAssumption, TextsIInv, Arrays!NewsRecv
  PROVE  TextsIInv'
<1> USE DEF TextsIInv
<1>1. /\ text = "news" /\ Arrays!Take("b", << 0 >>) /\ heard' = Append(heard, shown'["b"][1])
      /\ UNCHANGED <<turn, str_len>> /\ wire # << >>
  BY DEF Arrays!NewsRecv, Arrays!NUL, Arrays!Take
<1>2. PICK p \in Msg : p = wire[1]
  BY <1>1, Rest, TypedNow
<1>3. /\ 1 \in DOMAIN wire /\ Tail(wire) \in Seq(Msg) /\ Len(Tail(wire)) = Len(wire) - 1
      /\ Len(wire) \in Nat /\ DOMAIN wire = 1 .. Len(wire)
      /\ DOMAIN Tail(wire) = 1 .. Len(wire) - 1
      /\ \A k \in DOMAIN Tail(wire) : k + 1 \in DOMAIN wire /\ Tail(wire)[k] = wire[k + 1]
  BY <1>1, Rest, TypedNow
<1>4. /\ NewsSender /\ NewsUnderway /\ NewsOrder
  BY <1>1 DEF News
<1>5. /\ Carries(p.text, p.line) /\ Len(p.text) < BUF_SIZE /\ p.line[1] = Piece(1)
      /\ Piece(1) \in 1 .. MaxText /\ Piece(1) <= LastPiece /\ n > 0
  BY <1>2, <1>3, <1>4 DEF NewsUnderway, Piece
<1>6. /\ wire' = Tail(wire) /\ UNCHANGED <<text, n, file, terminated>>
      /\ buf' \in [Side -> Array] /\ buf'["a"] = buf["a"]
      /\ shown' = [shown EXCEPT !["b"] = p.line] /\ want' = [want EXCEPT !["b"] = p.line]
  BY <1>1, <1>2, <1>5, TakeShows DEF Side
<1>7. /\ p.line \in Seq(Char) /\ shown' \in [Side -> Seq(Char)] /\ want' \in [Side -> Seq(Char)]
      /\ shown'["b"] = p.line
  BY <1>6, TypedNow DEF Msg, Side
<1>8. /\ heard' = Append(heard, Piece(1)) /\ heard' \in Seq(1 .. MaxText)
      /\ Len(heard') = Len(heard) + 1 /\ Len(heard) \in Nat
      /\ DOMAIN heard = 1 .. Len(heard) /\ DOMAIN heard' = 1 .. Len(heard) + 1
      /\ heard'[Len(heard) + 1] = Piece(1) /\ \A i \in DOMAIN heard : heard'[i] = heard[i]
  <2>1. heard' = Append(heard, Piece(1))
    BY <1>1, <1>5, <1>7
  <2>2. QED
    BY <1>5, <2>1, TypedNow, Appended
<1>9. TextsTyped'
  BY <1>1, <1>3, <1>6, <1>7, <1>8, TypedNow, TypedAfter
<1>10. ShownIsLast'
  BY <1>1, <1>6, ShownAgain DEF Side
<1>11. /\ LastPiece' = LastPiece /\ (Again' <=> Again)
       /\ \A k \in DOMAIN wire' : /\ Piece(k)' = Piece(k + 1) /\ k + 1 \in DOMAIN wire
                                  /\ (k + 1 = Len(wire) => k = Len(wire'))
  BY <1>1, <1>3, <1>6 DEF LastPiece, Again, Piece, Arrays!EndUnmet
<1>12. NewsSender' /\ NewsUnderway'
  <2>1. NewsSender'
    BY <1>1, <1>4, <1>6, <1>11 DEF NewsSender, Arrays!EndUnmet
  <2>2. NewsUnderway'
    BY <1>3, <1>4, <1>6, <1>11 DEF NewsUnderway
  <2>3. QED
    BY <2>1, <2>2
<1>13. NewsOrder'
  <2>1. \A j, k \in DOMAIN wire' : j < k =>
          Piece(j)' < Piece(k)' \/ (Piece(j)' = Piece(k)' /\ k = Len(wire') /\ Again')
    <3> SUFFICES ASSUME NEW j \in DOMAIN wire', NEW k \in DOMAIN wire', j < k
                 PROVE  Piece(j)' < Piece(k)' \/ (Piece(j)' = Piece(k)' /\ k = Len(wire') /\ Again')
      OBVIOUS
    <3>1. j + 1 \in DOMAIN wire /\ k + 1 \in DOMAIN wire /\ j + 1 < k + 1
      BY <1>3, <1>6, <1>11
    <3>2. \/ Piece(j + 1) < Piece(k + 1)
          \/ Piece(j + 1) = Piece(k + 1) /\ k + 1 = Len(wire) /\ Again
      BY <1>4, <3>1 DEF NewsOrder
    <3>3. QED
      BY <1>11, <3>2
  <2>2. \A i \in DOMAIN heard : heard[i] <= LastPiece
    BY <1>4 DEF NewsOrder
  <2>3. \A i \in DOMAIN heard' : n' > 0 /\ heard'[i] <= LastPiece'
    BY <1>5, <1>6, <1>8, <1>11, <2>2
  <2>4. \A i \in DOMAIN heard', k \in DOMAIN wire' :
          heard'[i] < Piece(k)' \/ (heard'[i] = Piece(k)' /\ k = Len(wire') /\ Again')
    <3> SUFFICES ASSUME NEW i \in DOMAIN heard', NEW k \in DOMAIN wire'
                 PROVE  heard'[i] < Piece(k)' \/ (heard'[i] = Piece(k)' /\ k = Len(wire') /\ Again')
      OBVIOUS
    <3>1. k + 1 \in DOMAIN wire /\ Piece(k)' = Piece(k + 1) /\ 1 < k + 1
      BY <1>3, <1>6, <1>11
    <3>2. CASE i \in DOMAIN heard
      <4>1. heard[i] < Piece(k + 1) \/ (heard[i] = Piece(k + 1) /\ k + 1 = Len(wire) /\ Again)
        BY <1>4, <3>1, <3>2 DEF NewsOrder
      <4>2. QED
        BY <1>8, <1>11, <3>2, <4>1
    <3>3. CASE i = Len(heard) + 1
      <4>1. Piece(1) < Piece(k + 1) \/ (Piece(1) = Piece(k + 1) /\ k + 1 = Len(wire) /\ Again)
        BY <1>3, <1>4, <3>1 DEF NewsOrder
      <4>2. QED
        BY <1>8, <1>11, <3>3, <4>1
    <3>4. QED
      BY <1>8, <3>2, <3>3
  <2>5. \A k \in 2 .. Len(heard') :
          \/ heard'[k - 1] < heard'[k]
          \/ heard'[k - 1] = heard'[k] /\ k = Len(heard') /\ Again' /\ wire' = << >>
    <3> SUFFICES ASSUME NEW k \in 2 .. Len(heard')
                 PROVE  \/ heard'[k - 1] < heard'[k]
                        \/ heard'[k - 1] = heard'[k] /\ k = Len(heard') /\ Again' /\ wire' = << >>
      OBVIOUS
    <3>1. k - 1 \in DOMAIN heard /\ heard'[k - 1] = heard[k - 1]
      BY <1>8
    <3>2. CASE k \in 2 .. Len(heard)
      <4>1. heard[k - 1] < heard[k]
        BY <1>1, <1>4, <3>2 DEF NewsOrder
      <4>2. heard'[k] = heard[k]
        BY <1>8, <3>2
      <4>3. QED
        BY <3>1, <4>1, <4>2
    <3>3. CASE k = Len(heard) + 1
      <4>1. heard[k - 1] < Piece(1) \/ (heard[k - 1] = Piece(1) /\ 1 = Len(wire) /\ Again)
        BY <1>3, <1>4, <3>1 DEF NewsOrder
      <4>2. 1 = Len(wire) => wire' = << >>
        BY <1>3, <1>6
      <4>3. QED
        BY <1>8, <1>11, <3>1, <3>3, <4>1, <4>2
    <3>4. QED
      BY <1>8, <3>2, <3>3
  <2>6. QED
    BY <2>1, <2>3, <2>4, <2>5 DEF NewsOrder
<1>14. QED
  BY <1>1, <1>6, <1>9, <1>10, <1>12, <1>13 DEF News, Uchat, Bound, Keys

-----------------------------------------------------------------------------

LEMMA TextsInit ==
  ASSUME Arrays!TextAssumption, Arrays!Init
  PROVE  TextsIInv
<1>1. /\ text \in {"uchat", "news", "bound", "console", "chat"}
      /\ buf = [s \in Side |-> [i \in 1 .. BUF_SIZE |-> -2]] /\ wire = << >> /\ turn = "a"
      /\ str_len = 0 /\ n = 0 /\ file \in MCFiles /\ terminated \in BOOLEAN
      /\ (text # "news" => terminated) /\ heard = << >>
      /\ shown = [s \in Side |-> << >>] /\ want = [s \in Side |-> << >>]
  BY DEF Arrays!Init, Arrays!Side, Side, Arrays!Garbage
<1>2. /\ file \in Seq(1 .. BUF_SIZE - 1) /\ Len(file) \in 1 .. MaxText /\ BUF_SIZE \in Nat
      /\ MaxText \in Nat
  BY <1>1 DEF Arrays!TextAssumption
<1>3. Len(file) > 0 /\ Len(file) <= MaxText /\ Len(file) \in Nat
  BY <1>2
<1>4. TextsTyped
  <2>1. buf \in [Side -> Array]
    BY <1>1, Characters DEF Array
  <2>2. << >> \in Seq(Char) /\ << >> \in Seq(Msg) /\ << >> \in Seq(1 .. MaxText) /\ DOMAIN << >> = {}
    OBVIOUS
  <2>3. shown \in [Side -> Seq(Char)] /\ want \in [Side -> Seq(Char)]
    BY <1>1, <2>2
  <2>4. str_len \in 0 .. BUF_SIZE /\ n \in 0 .. 2 * MaxText
    BY <1>1, <1>2
  <2>5. QED
    BY <1>1, <2>1, <2>2, <2>3, <2>4
       DEF TextsTyped, Arrays!TypeOK, Arrays!Side, Side, Array, Char
<1>5. ShownIsLast
  <2>1. Len(<< >>) <= 0
    OBVIOUS
  <2>2. QED
    BY <1>1, <2>1 DEF ShownIsLast, Arrays!ShownIsLast, Arrays!Cut, Side
<1>6. DOMAIN wire = {} /\ DOMAIN heard = {} /\ Len(heard) = 0
  BY <1>1
<1>7. Uchat /\ Bound /\ Keys
  BY <1>1, <1>6 DEF Uchat, Bound, Keys
<1>8. NewsSender
  BY <1>1, <1>2, <1>3 DEF NewsSender
<1>9. NewsUnderway /\ NewsOrder
  BY <1>6 DEF NewsUnderway, NewsOrder
<1>10. QED
  BY <1>1, <1>4, <1>5, <1>7, <1>8, <1>9 DEF TextsIInv, News

LEMMA TextsStep ==
  ASSUME Arrays!TextAssumption, TextsIInv, [Arrays!Next]_(Arrays!vars)
  PROVE  TextsIInv'
<1>1. CASE UNCHANGED Arrays!vars
  <2>1. UNCHANGED <<text, buf, wire, turn, str_len, n, file, terminated, shown, want, heard>>
    BY <1>1 DEF Arrays!vars
  <2>2. TextsTyped' /\ ShownIsLast' /\ (Uchat' /\ Bound' /\ Keys')
    BY <2>1 DEF TextsIInv, TextsTyped, Arrays!TypeOK, ShownIsLast, Arrays!ShownIsLast, Uchat, Bound, Keys
  <2>3. News'
    BY <2>1 DEF TextsIInv, News, NewsSender, NewsUnderway, NewsOrder, LastPiece, Piece, Again, Arrays!EndUnmet
  <2>4. QED
    BY <2>1, <2>2, <2>3 DEF TextsIInv
<1>2. CASE Arrays!NewsSend
  BY <1>2, NewsReadKeeps, NewsEndKeeps
<1>3. CASE Arrays!ChatSend \/ Arrays!ChatServerRecv \/ Arrays!ChatAnswer \/ Arrays!ChatRecv
  BY <1>3, ChatSendKeeps, ChatServerRecvKeeps, ChatAnswerKeeps, ChatRecvKeeps
<1>4. CASE Arrays!NewsRecv \/ Arrays!Lose \/ Arrays!BoundSend \/ Arrays!BoundRecv
  BY <1>4, NewsRecvKeeps, LoseKeeps, BoundSendKeeps, BoundRecvKeeps
<1>5. CASE Arrays!Type \/ Arrays!ConsoleRead \/ Arrays!ConsoleEnd \/ Arrays!ChatClientRead
  BY <1>5, TypeKeeps, ConsoleReadKeeps, ConsoleEndKeeps, ChatClientReadKeeps
<1>6. QED
  BY <1>1, <1>2, <1>3, <1>4, <1>5 DEF Arrays!Next

LEMMA TextsRun == ProgramsSpec => []TextsIInv
<1>1. Arrays!TextAssumption
  BY ProgramsAssumption DEF ProgramsAssumption
<1>2. Arrays!Init => TextsIInv
  BY <1>1, TextsInit
<1>3. TextsIInv /\ [Arrays!Next]_(Arrays!vars) => TextsIInv'
  BY <1>1, TextsStep
<1>4. QED
  BY <1>2, <1>3, RunsTexts, PTL

(* What is printed is the text that was for it, in four programs that use  *)
(* their arrays again and terminate them in different places: complete for *)
(* news and bound messages and for a line sent to uchat's server; a reply  *)
(* up to the length of the line it answers (uchat_server.c:56); on the     *)
(* console, without its newline, what one read() gave if it ended in one   *)
(* (select.c:98).  For arrays of any size and any number of texts.         *)
THEOREM ScreenShowsLast == ProgramsSpec => []ShownIsLast
<1>1. TextsIInv => ShownIsLast
  BY DEF TextsIInv
<1>2. QED
  BY <1>1, TextsRun, PTL

(* News are printed in the order of the file, each once, but for the last  *)
(* piece of a file that ends in a newline, or of which it fills the array: *)
(* the fgets() that fails after it sends it again (news_sender.c:42-45).   *)
(* For any file, and whatever is lost.                                     *)
THEOREM NewsOnce == ProgramsSpec => []NewsInOrder
<1>1. TextsIInv => NewsInOrder
  <2> SUFFICES ASSUME TextsIInv PROVE NewsInOrder
    OBVIOUS
  <2>1. CASE text = "news"
    BY <2>1 DEF TextsIInv, News, NewsOrder, Again, NewsInOrder, Arrays!NewsInOrder
  <2>2. CASE text # "news"
    <3>1. heard = << >> /\ Len(<< >>) = 0
      BY <2>2 DEF TextsIInv
    <3>2. QED
      BY <3>1 DEF NewsInOrder, Arrays!NewsInOrder
  <2>3. QED
    BY <2>1, <2>2
<1>2. QED
  BY <1>1, TextsRun, PTL

-----------------------------------------------------------------------------
(* Parent and child.  What a process does next follows from how many calls *)
(* it has left.                                                            *)

LEMMA RunsPipes == ProgramsSpec => Pipes!Init /\ [][Pipes!Next]_(Pipes!vars)
<1>1. ProgramsInit => Pipes!Init
  BY DEF ProgramsInit
<1>2. [ProgramsNext]_programs => [Pipes!Next]_(Pipes!vars)
  BY DEF ProgramsNext, programs, InCounter, InPipes, InServers, InUdp, InArrays, InClient, InCopies,
     pipes, Pipes!vars
<1>3. QED
  BY <1>1, <1>2, PTL DEF ProgramsSpec

Call == {<<"fork">>} \cup ({"write", "read"} \X {1, 2}) \cup ({"close"} \X {1, 2} \X {"read", "write"})

Left(p) == Len(rest[p])

\* Calls behind a fork().
LEMMA ForkFirst ==
  ASSUME NEW calls \in Seq(Call)
  PROVE  /\ << <<"fork">> >> \o calls \in Seq(Call)
         /\ Len(<< <<"fork">> >> \o calls) = Len(calls) + 1
         /\ (<< <<"fork">> >> \o calls)[1] = <<"fork">>
         /\ \A i \in 1 .. Len(calls) : (<< <<"fork">> >> \o calls)[i + 1] = calls[i]
<1>1. PICK f : f = <<"fork">>
  OBVIOUS
<1>2. f \in Call
  BY <1>1 DEF Call
<1>3. <<f>> \in Seq(Call) /\ Len(<<f>>) = 1 /\ <<f>>[1] = f
  BY <1>2, Single
<1>4. /\ <<f>> \o calls \in Seq(Call) /\ Len(<<f>> \o calls) = 1 + Len(calls)
      /\ \A i \in 1 .. 1 : (<<f>> \o calls)[i] = <<f>>[i]
      /\ \A i \in 1 .. Len(calls) : (<<f>> \o calls)[1 + i] = calls[i]
  BY <1>3, Concatenated
<1>5. Len(calls) \in Nat /\ \A i \in 1 .. Len(calls) : 1 + i = i + 1
  OBVIOUS
<1>6. QED
  BY <1>1, <1>3, <1>4, <1>5

LEMMA PipeWhole ==
  ASSUME code = "pipe.c"
  PROVE  /\ Pipes!Whole["parent"] \in Seq(Call) /\ Len(Pipes!Whole["parent"]) = 5
         /\ Pipes!Whole["parent"][1] = <<"fork">> /\ Pipes!Whole["parent"][2] = <<"write", 1>>
         /\ Pipes!Whole["parent"][3] = <<"close", 1, "read">>
         /\ Pipes!Whole["parent"][4] = <<"close", 2, "write">>
         /\ Pipes!Whole["parent"][5] = <<"read", 2>>
         /\ Pipes!Whole["child"] \in Seq(Call) /\ Len(Pipes!Whole["child"]) = 4
         /\ Pipes!Whole["child"][1] = <<"close", 1, "write">> /\ Pipes!Whole["child"][2] = <<"read", 1>>
         /\ Pipes!Whole["child"][3] = <<"write", 2>> /\ Pipes!Whole["child"][4] = <<"close", 2, "read">>
<1>1. PICK calls : calls = << <<"write", 1>>, <<"close", 1, "read">>, <<"close", 2, "write">>, <<"read", 2>> >>
  OBVIOUS
<1>2. /\ <<"write", 1>> \in Call /\ <<"close", 1, "read">> \in Call /\ <<"close", 2, "write">> \in Call
      /\ <<"read", 2>> \in Call /\ <<"close", 1, "write">> \in Call /\ <<"read", 1>> \in Call
      /\ <<"write", 2>> \in Call /\ <<"close", 2, "read">> \in Call
  BY DEF Call
<1>3. /\ calls \in Seq(Call) /\ Len(calls) = 4 /\ calls[1] = <<"write", 1>>
      /\ calls[2] = <<"close", 1, "read">> /\ calls[3] = <<"close", 2, "write">>
      /\ calls[4] = <<"read", 2>>
  BY <1>1, <1>2
<1>4. Pipes!Whole["parent"] = << <<"fork">> >> \o calls
  BY <1>1 DEF Pipes!Whole, Pipes!Calls, Pipes!PipeCalls
<1>5. /\ Pipes!Whole["parent"] \in Seq(Call) /\ Len(Pipes!Whole["parent"]) = 4 + 1
      /\ Pipes!Whole["parent"][1] = <<"fork">>
      /\ \A i \in 1 .. 4 : Pipes!Whole["parent"][i + 1] = calls[i]
  BY ZenonT(60), <1>3, <1>4, ForkFirst
<1>6. Pipes!Whole["child"] = << <<"close", 1, "write">>, <<"read", 1>>, <<"write", 2>>, <<"close", 2, "read">> >>
  BY DEF Pipes!Whole, Pipes!Calls, Pipes!PipeCalls
<1>7. /\ Pipes!Whole["parent"][1 + 1] = calls[1] /\ Pipes!Whole["parent"][2 + 1] = calls[2]
      /\ Pipes!Whole["parent"][3 + 1] = calls[3] /\ Pipes!Whole["parent"][4 + 1] = calls[4]
  BY <1>5
<1>8. QED
  BY <1>2, <1>3, <1>5, <1>6, <1>7

LEMMA C11Whole ==
  ASSUME code # "pipe.c"
  PROVE  /\ Pipes!Whole["parent"] \in Seq(Call) /\ Len(Pipes!Whole["parent"]) = 3
         /\ Pipes!Whole["parent"][1] = <<"fork">> /\ Pipes!Whole["parent"][2] = <<"read", 1>>
         /\ Pipes!Whole["parent"][3] = <<"write", 2>>
         /\ Pipes!Whole["child"] \in Seq(Call) /\ Len(Pipes!Whole["child"]) = 2
         /\ Pipes!Whole["child"][1] = <<"write", 1>> /\ Pipes!Whole["child"][2] = <<"read", 2>>
<1>1. PICK calls : calls = << <<"read", 1>>, <<"write", 2>> >>
  OBVIOUS
<1>2. <<"read", 1>> \in Call /\ <<"write", 2>> \in Call /\ <<"write", 1>> \in Call /\ <<"read", 2>> \in Call
  BY DEF Call
<1>3. /\ calls \in Seq(Call) /\ Len(calls) = 2 /\ calls[1] = <<"read", 1>> /\ calls[2] = <<"write", 2>>
  BY <1>1, <1>2
<1>4. Pipes!Whole["parent"] = << <<"fork">> >> \o calls
  BY <1>1 DEF Pipes!Whole, Pipes!Calls, Pipes!C11PipeCalls
<1>5. /\ Pipes!Whole["parent"] \in Seq(Call) /\ Len(Pipes!Whole["parent"]) = 2 + 1
      /\ Pipes!Whole["parent"][1] = <<"fork">>
      /\ \A i \in 1 .. 2 : Pipes!Whole["parent"][i + 1] = calls[i]
  BY <1>3, <1>4, ForkFirst
<1>6. Pipes!Whole["child"] = << <<"write", 1>>, <<"read", 2>> >>
  BY DEF Pipes!Whole, Pipes!Calls, Pipes!C11PipeCalls
<1>7. Pipes!Whole["parent"][1 + 1] = calls[1] /\ Pipes!Whole["parent"][2 + 1] = calls[2]
  BY <1>5
<1>8. QED
  BY <1>2, <1>3, <1>5, <1>6, <1>7

LEMMA NextCall ==
  ASSUME Pipes!TypeOK, NEW p \in Pipes!Proc
  PROVE  /\ rest[p] \in Seq(Call) /\ Left(p) \in 0 .. Len(Pipes!Whole[p])
         /\ Len(Pipes!Whole[p]) \in Nat
         /\ rest[p] # << >> =>
              /\ Left(p) > 0 /\ Len(Tail(rest[p])) = Left(p) - 1
              /\ Head(rest[p]) = Pipes!Whole[p][Len(Pipes!Whole[p]) - Left(p) + 1]
              /\ \E k \in 0 .. Len(Pipes!Whole[p]) :
                   Tail(rest[p]) = SubSeq(Pipes!Whole[p], k + 1, Len(Pipes!Whole[p]))
<1>1. PICK whole : whole = Pipes!Whole[p]
  OBVIOUS
<1>2. whole \in Seq(Call) /\ Len(whole) \in Nat
  BY <1>1, PipeWhole, C11Whole DEF Pipes!Proc
<1>3. PICK k \in 0 .. Len(whole) : rest[p] = SubSeq(whole, k + 1, Len(whole))
  BY <1>1 DEF Pipes!TypeOK
<1>4. PICK left : left = rest[p]
  OBVIOUS
<1>5. /\ left \in Seq(Call) /\ Len(left) = Len(whole) - k
      /\ \A i \in 1 .. Len(whole) - k : left[i] = whole[k + i]
  BY <1>2, <1>3, <1>4, LeftOver
<1>6. Left(p) = Len(left) /\ k \in Nat
  BY <1>4 DEF Left
<1>7. CASE left # << >>
  <2>1. /\ Len(left) > 0 /\ Len(Tail(left)) = Len(left) - 1 /\ Head(left) = left[1]
        /\ Tail(left) \in Seq(Call) /\ \A i \in 1 .. Len(left) - 1 : Tail(left)[i] = left[i + 1]
    BY <1>5, <1>7, Rest
  <2>2. Head(left) = whole[Len(whole) - Len(left) + 1]
    BY <1>2, <1>5, <1>6, <2>1
  <2>3. k + 1 \in 0 .. Len(whole)
    BY <1>2, <1>5, <1>6, <2>1
  <2>4. PICK more : more = SubSeq(whole, (k + 1) + 1, Len(whole))
    OBVIOUS
  <2>5. /\ more \in Seq(Call) /\ Len(more) = Len(whole) - (k + 1)
        /\ \A i \in 1 .. Len(whole) - (k + 1) : more[i] = whole[(k + 1) + i]
    BY <1>2, <2>3, <2>4, LeftOver
  <2>6. Tail(left) = more
    <3>1. Len(Tail(left)) = Len(more)
      BY <1>2, <1>5, <1>6, <2>1, <2>5
    <3>2. \A i \in 1 .. Len(Tail(left)) : Tail(left)[i] = more[i]
      <4> SUFFICES ASSUME NEW i \in 1 .. Len(Tail(left)) PROVE Tail(left)[i] = more[i]
        OBVIOUS
      <4>1. /\ i \in 1 .. Len(left) - 1 /\ i + 1 \in 1 .. Len(whole) - k
            /\ k + (i + 1) = (k + 1) + i /\ i \in 1 .. Len(whole) - (k + 1)
        BY <1>2, <1>5, <1>6, <2>1
      <4>2. QED
        BY <1>5, <2>1, <2>5, <4>1
    <3>3. QED
      BY <2>1, <2>5, <3>1, <3>2, SameSequence
  <2>7. QED
    <3>1. \E j \in 0 .. Len(whole) : Tail(left) = SubSeq(whole, j + 1, Len(whole))
      BY <2>3, <2>4, <2>6
    <3>2. Len(left) \in 0 .. Len(whole)
      BY <1>2, <1>5, <1>6
    <3>3. QED
      BY <1>1, <1>2, <1>4, <1>5, <1>6, <2>1, <2>2, <3>1, <3>2
<1>8. CASE left = << >>
  BY <1>1, <1>2, <1>4, <1>5, <1>6, <1>8
<1>9. QED
  BY <1>7, <1>8

\* Which call is which.
LEMMA CallIs ==
  ASSUME Pipes!TypeOK, NEW p \in Pipes!Proc, rest[p] # << >>,
         NEW call, call = Head(rest[p])
  PROVE  /\ call[1] = "fork" => p = "parent" /\ Left(p) = IF code = "pipe.c" THEN 5 ELSE 3
         /\ call[1] = "write" =>
              \/ code = "pipe.c" /\ p = "parent" /\ Left(p) = 4 /\ call[2] = 1
              \/ code = "pipe.c" /\ p = "child" /\ Left(p) = 2 /\ call[2] = 2
              \/ code # "pipe.c" /\ p = "parent" /\ Left(p) = 1 /\ call[2] = 2
              \/ code # "pipe.c" /\ p = "child" /\ Left(p) = 2 /\ call[2] = 1
         /\ call[1] = "read" => call[2] \in {1, 2}
         /\ call[1] = "close" =>
              /\ code = "pipe.c"
              /\ \/ p = "parent" /\ Left(p) <= 3
                 \/ p = "child" /\ Left(p) = 4 /\ call[2] = 1
                 \/ p = "child" /\ Left(p) = 1
<1>1. /\ Left(p) \in 1 .. Len(Pipes!Whole[p])
      /\ call = Pipes!Whole[p][Len(Pipes!Whole[p]) - Left(p) + 1]
  BY NextCall
<1>2. CASE code = "pipe.c" /\ p = "parent"
  <2>1. /\ Len(Pipes!Whole[p]) = 5 /\ Pipes!Whole[p][1] = <<"fork">> /\ Pipes!Whole[p][2] = <<"write", 1>>
        /\ Pipes!Whole[p][3] = <<"close", 1, "read">> /\ Pipes!Whole[p][4] = <<"close", 2, "write">>
        /\ Pipes!Whole[p][5] = <<"read", 2>>
    BY <1>2, PipeWhole
  <2>2. QED
    BY <1>1, <1>2, <2>1
<1>3. CASE code = "pipe.c" /\ p = "child"
  <2>1. /\ Len(Pipes!Whole[p]) = 4 /\ Pipes!Whole[p][1] = <<"close", 1, "write">>
        /\ Pipes!Whole[p][2] = <<"read", 1>> /\ Pipes!Whole[p][3] = <<"write", 2>>
        /\ Pipes!Whole[p][4] = <<"close", 2, "read">>
    BY <1>3, PipeWhole
  <2>2. QED
    BY <1>1, <1>3, <2>1
<1>4. CASE code # "pipe.c" /\ p = "parent"
  <2>1. /\ Len(Pipes!Whole[p]) = 3 /\ Pipes!Whole[p][1] = <<"fork">>
        /\ Pipes!Whole[p][2] = <<"read", 1>> /\ Pipes!Whole[p][3] = <<"write", 2>>
    BY <1>4, C11Whole
  <2>2. QED
    BY <1>1, <1>4, <2>1
<1>5. CASE code # "pipe.c" /\ p = "child"
  <2>1. /\ Len(Pipes!Whole[p]) = 2 /\ Pipes!Whole[p][1] = <<"write", 1>>
        /\ Pipes!Whole[p][2] = <<"read", 2>>
    BY <1>5, C11Whole
  <2>2. QED
    BY <1>1, <1>5, <2>1
<1>6. QED
  BY <1>2, <1>3, <1>4, <1>5 DEF Pipes!Proc

\* A pipe is written to once.
OneMessage ==
  IF code = "pipe.c" THEN (pipe[1] = 1 => Left("parent") < 4) /\ (pipe[2] = 1 => Left("child") < 2)
    ELSE (pipe[1] = 1 => Left("child") < 2) /\ (pipe[2] = 1 => Left("parent") < 1)

\* Who has still to write is a reader of that pipe itself.
OwnReader ==
  IF code = "pipe.c"
    THEN /\ status["parent"] = "run" /\ Left("parent") >= 4 => <<"parent", 1, "read">> \in ends
         /\ status["child"] = "run" /\ Left("child") >= 2 => <<"child", 2, "read">> \in ends
    ELSE \A p \in Pipes!Proc : status[p] = "run" => Pipes!AllEnds(p) \subseteq ends

NoSigPipe == \A p \in Pipes!Proc : status[p] # "sigpipe"

PipesIInv == Pipes!TypeOK /\ OneMessage /\ OwnReader /\ NoSigPipe

LEMMA PipesTyped ==
  ASSUME Pipes!TypeOK, code' = code, DOMAIN rest' = Pipes!Proc,
         \A p \in Pipes!Proc : \E k \in 0 .. Len(Pipes!Whole[p]) :
           rest'[p] = SubSeq(Pipes!Whole[p], k + 1, Len(Pipes!Whole[p])),
         status' \in [Pipes!Proc -> {"none", "run", "exit", "killed", "sigpipe"}],
         \A e \in ends' : \E p \in Pipes!Proc : status'[p] = "run" /\ e \in Pipes!AllEnds(p),
         pipe' \in [{1, 2} -> 0 .. 1]
  PROVE  Pipes!TypeOK'
<1>1. Pipes!Whole' = Pipes!Whole
  BY DEF Pipes!Whole, Pipes!Calls
<1>2. ends' \subseteq UNION {Pipes!AllEnds(p) : p \in {p \in Pipes!Proc : status'[p] = "run"}}
  OBVIOUS
<1>3. code' \in {"pipe.c", "C11_Pipe.c"}
  BY DEF Pipes!TypeOK
<1>4. QED
  BY <1>1, <1>2, <1>3 DEF Pipes!TypeOK

LEMMA PipesNow ==
  ASSUME Pipes!TypeOK
  PROVE  /\ status \in [Pipes!Proc -> {"none", "run", "exit", "killed", "sigpipe"}]
         /\ pipe \in [{1, 2} -> 0 .. 1] /\ DOMAIN rest = Pipes!Proc /\ code \in {"pipe.c", "C11_Pipe.c"}
         /\ \A e \in ends : \E p \in Pipes!Proc : status[p] = "run" /\ e \in Pipes!AllEnds(p)
         /\ \A p \in Pipes!Proc : \E k \in 0 .. Len(Pipes!Whole[p]) :
              rest[p] = SubSeq(Pipes!Whole[p], k + 1, Len(Pipes!Whole[p]))
BY DEF Pipes!TypeOK

\* A call is made: one less is left, and everything else of rest is as it was.
LEMMA CallMade ==
  ASSUME Pipes!TypeOK, NEW p \in Pipes!Proc, NEW kind, Pipes!Makes(p, kind)
  PROVE  /\ status[p] = "run" /\ rest[p] # << >> /\ code' = code /\ Head(rest[p])[1] = kind
         /\ DOMAIN rest' = Pipes!Proc /\ Left(p) \in Nat /\ Left(p) > 0
         /\ \A q \in Pipes!Proc : \E k \in 0 .. Len(Pipes!Whole[q]) :
              rest'[q] = SubSeq(Pipes!Whole[q], k + 1, Len(Pipes!Whole[q]))
         /\ Len(rest'[p]) = Left(p) - 1 /\ \A q \in Pipes!Proc \ {p} : rest'[q] = rest[q]
<1>1. /\ status[p] = "run" /\ rest[p] # << >> /\ code' = code /\ Head(rest[p])[1] = kind
      /\ rest' = [rest EXCEPT ![p] = Tail(@)]
  BY DEF Pipes!Makes
<1>2. /\ DOMAIN rest' = Pipes!Proc /\ rest'[p] = Tail(rest[p])
      /\ \A q \in Pipes!Proc \ {p} : rest'[q] = rest[q]
  BY <1>1, PipesNow
<1>3. /\ Left(p) \in Nat /\ Left(p) > 0 /\ Len(Tail(rest[p])) = Left(p) - 1
      /\ \E k \in 0 .. Len(Pipes!Whole[p]) :
           Tail(rest[p]) = SubSeq(Pipes!Whole[p], k + 1, Len(Pipes!Whole[p]))
  <2>1. Left(p) \in Nat
    BY NextCall
  <2>2. QED
    BY <1>1, <2>1, NextCall
<1>4. \A q \in Pipes!Proc : \E k \in 0 .. Len(Pipes!Whole[q]) :
        rest'[q] = SubSeq(Pipes!Whole[q], k + 1, Len(Pipes!Whole[q]))
  <2> SUFFICES ASSUME NEW q \in Pipes!Proc
               PROVE  \E k \in 0 .. Len(Pipes!Whole[q]) :
                        rest'[q] = SubSeq(Pipes!Whole[q], k + 1, Len(Pipes!Whole[q]))
    OBVIOUS
  <2>1. CASE q = p
    BY <1>2, <1>3, <2>1
  <2>2. CASE q # p
    BY <1>2, <2>2, PipesNow
  <2>3. QED
    BY <2>1, <2>2
<1>5. QED
  BY <1>1, <1>2, <1>3, <1>4

\* Fewer calls are left, and what is written stays for whoever reads.
LEMMA LeftAfter ==
  ASSUME Pipes!TypeOK, NEW p \in Pipes!Proc, NEW kind, Pipes!Makes(p, kind)
  PROVE  /\ \A q \in Pipes!Proc : Left(q) \in Nat /\ Left(q)' = IF q = p THEN Left(q) - 1 ELSE Left(q)
         /\ "parent" \in Pipes!Proc /\ "child" \in Pipes!Proc
<1>1. \A q \in Pipes!Proc : Left(q) \in Nat
  <2> SUFFICES ASSUME NEW q \in Pipes!Proc PROVE Left(q) \in Nat
    OBVIOUS
  <2>1. QED
    BY NextCall
<1>2. QED
  BY <1>1, CallMade DEF Left, Pipes!Proc

\* p ends.
LEMMA PipeUserEnds ==
  ASSUME Pipes!TypeOK, OwnReader, NoSigPipe, NEW p \in Pipes!Proc, NEW how \in {"exit", "killed"},
         Pipes!Ends(p, how), code' = code,
         \A q \in Pipes!Proc : Left(q) \in Nat /\ Left(q)' \in Nat /\ Left(q)' <= Left(q)
  PROVE  /\ status' \in [Pipes!Proc -> {"none", "run", "exit", "killed", "sigpipe"}]
         /\ \A e \in ends' : \E q \in Pipes!Proc : status'[q] = "run" /\ e \in Pipes!AllEnds(q)
         /\ OwnReader' /\ NoSigPipe'
<1>1. status' = [status EXCEPT ![p] = how] /\ ends' = ends \ Pipes!AllEnds(p)
  BY DEF Pipes!Ends
<1>2. /\ status' \in [Pipes!Proc -> {"none", "run", "exit", "killed", "sigpipe"}]
      /\ status'[p] = how /\ \A q \in Pipes!Proc \ {p} : status'[q] = status[q]
  BY <1>1, PipesNow
<1>3. \A e \in ends' : \E q \in Pipes!Proc : status'[q] = "run" /\ e \in Pipes!AllEnds(q)
  BY <1>1, <1>2, PipesNow
<1>4. NoSigPipe'
  BY <1>2 DEF NoSigPipe
<1>5. \A q \in Pipes!Proc \ {p}, e \in ends : e \in Pipes!AllEnds(q) => e \in ends'
  BY <1>1 DEF Pipes!AllEnds
<1>6. CASE code = "pipe.c"
  <2>1. /\ <<"parent", 1, "read">> \in Pipes!AllEnds("parent")
        /\ <<"child", 2, "read">> \in Pipes!AllEnds("child")
    BY DEF Pipes!AllEnds
  <2>2. "parent" \in Pipes!Proc /\ "child" \in Pipes!Proc
    BY DEF Pipes!Proc
  <2>3. status'["parent"] = "run" /\ Left("parent")' >= 4 => <<"parent", 1, "read">> \in ends'
    <3> SUFFICES ASSUME status'["parent"] = "run", Left("parent")' >= 4
                 PROVE  <<"parent", 1, "read">> \in ends'
      OBVIOUS
    <3>1. p # "parent" /\ status["parent"] = "run" /\ Left("parent") >= 4
      BY <1>2, <2>2
    <3>2. QED
      BY <1>5, <1>6, <2>1, <2>2, <3>1 DEF OwnReader
  <2>4. status'["child"] = "run" /\ Left("child")' >= 2 => <<"child", 2, "read">> \in ends'
    <3> SUFFICES ASSUME status'["child"] = "run", Left("child")' >= 2
                 PROVE  <<"child", 2, "read">> \in ends'
      OBVIOUS
    <3>1. p # "child" /\ status["child"] = "run" /\ Left("child") >= 2
      BY <1>2, <2>2
    <3>2. QED
      BY <1>5, <1>6, <2>1, <2>2, <3>1 DEF OwnReader
  <2>5. code' = "pipe.c"
    BY <1>6
  <2>6. QED
    BY <1>2, <1>3, <1>4, <2>3, <2>4, <2>5 DEF OwnReader
<1>7. CASE code # "pipe.c"
  <2>1. \A q \in Pipes!Proc : status'[q] = "run" => Pipes!AllEnds(q) \subseteq ends'
    <3> SUFFICES ASSUME NEW q \in Pipes!Proc, status'[q] = "run" PROVE Pipes!AllEnds(q) \subseteq ends'
      OBVIOUS
    <3>1. q # p /\ status[q] = "run"
      BY <1>2
    <3>2. Pipes!AllEnds(q) \subseteq ends
      BY <1>7, <3>1 DEF OwnReader
    <3>3. QED
      BY <1>5, <3>1, <3>2
  <2>2. code' # "pipe.c" /\ Pipes!Proc' = Pipes!Proc
    BY <1>7 DEF Pipes!Proc
  <2>3. QED
    BY <1>2, <1>3, <1>4, <2>1, <2>2 DEF OwnReader
<1>8. QED
  BY <1>2, <1>3, <1>4, <1>6, <1>7

LEMMA ForkKeeps ==
  ASSUME PipesIInv, NEW p \in Pipes!Proc, Pipes!Fork(p)
  PROVE  PipesIInv'
<1> USE DEF PipesIInv
<1>1. Pipes!Makes(p, "fork") /\ pipe' = pipe
  BY DEF Pipes!Fork
<1>2. p = "parent" /\ status[p] = "run" /\ rest[p] # << >> /\ code' = code
  BY <1>1, CallMade, CallIs
<1>3. /\ \A q \in Pipes!Proc : Left(q) \in Nat /\ Left(q)' = IF q = p THEN Left(q) - 1 ELSE Left(q)
      /\ "parent" \in Pipes!Proc /\ "child" \in Pipes!Proc /\ Left(p) > 0
  BY <1>1, LeftAfter, CallMade
<1>4. OneMessage'
  BY <1>1, <1>2, <1>3 DEF OneMessage
<1>5. ASSUME status' \in [Pipes!Proc -> {"none", "run", "exit", "killed", "sigpipe"}],
             \A e \in ends' : \E q \in Pipes!Proc : status'[q] = "run" /\ e \in Pipes!AllEnds(q)
      PROVE  Pipes!TypeOK'
  BY <1>1, <1>2, <1>5, CallMade, PipesNow, PipesTyped
<1>6. CASE status' = [status EXCEPT !["child"] = "run"] /\ ends' = ends \cup Pipes!AllEnds("child")
  <2>1. /\ status' \in [Pipes!Proc -> {"none", "run", "exit", "killed", "sigpipe"}]
        /\ status'["child"] = "run" /\ status'["parent"] = status["parent"]
    BY <1>3, <1>6, PipesNow
  <2>2. \A e \in ends' : \E q \in Pipes!Proc : status'[q] = "run" /\ e \in Pipes!AllEnds(q)
    <3>1. \A e \in ends : \E q \in Pipes!Proc : status[q] = "run" /\ e \in Pipes!AllEnds(q)
      BY PipesNow
    <3>2. \A q \in Pipes!Proc : status[q] = "run" => status'[q] = "run"
      BY <2>1 DEF Pipes!Proc
    <3>3. QED
      BY <1>3, <1>6, <2>1, <3>1, <3>2
  <2>3. NoSigPipe'
    BY <2>1 DEF NoSigPipe, Pipes!Proc
  <2>4. OwnReader'
    <3>1. <<"child", 2, "read">> \in Pipes!AllEnds("child")
      BY DEF Pipes!AllEnds
    <3>2. CASE code = "pipe.c"
      BY <1>2, <1>3, <1>6, <2>1, <3>1, <3>2 DEF OwnReader
    <3>3. CASE code # "pipe.c"
      BY <1>2, <1>6, <2>1, <3>3 DEF OwnReader, Pipes!Proc
    <3>4. QED
      BY <3>2, <3>3
  <2>5. QED
    BY <1>4, <1>5, <2>1, <2>2, <2>3, <2>4
<1>7. CASE code = "pipe.c" /\ Pipes!Ends(p, "exit")
  <2>1. \A q \in Pipes!Proc : Left(q) \in Nat /\ Left(q)' \in Nat /\ Left(q)' <= Left(q)
    BY <1>3
  <2>2. QED
    BY <1>2, <1>4, <1>5, <1>7, <2>1, PipeUserEnds
<1>8. CASE code = "C11_Pipe.c" /\ UNCHANGED <<status, ends>>
  <2>1. code # "pipe.c"
    BY <1>8
  <2>2. OwnReader' /\ NoSigPipe'
    BY <1>2, <1>8, <2>1 DEF OwnReader, NoSigPipe
  <2>3. QED
    BY <1>4, <1>5, <1>8, <2>2, PipesNow
<1>9. QED
  BY <1>6, <1>7, <1>8 DEF Pipes!Fork

LEMMA PipeWriteKeeps ==
  ASSUME PipesIInv, NEW p \in Pipes!Proc, Pipes!Write(p)
  PROVE  PipesIInv'
<1> USE DEF PipesIInv
<1>1. PICK call : call = Head(rest[p])
  OBVIOUS
<1>2. /\ Pipes!Makes(p, "write") /\ status[p] = "run" /\ rest[p] # << >> /\ code' = code
      /\ call[1] = "write" /\ Pipes!Pipe(p) = call[2]
  BY <1>1, CallMade DEF Pipes!Write, Pipes!Pipe
<1>3. \/ code = "pipe.c" /\ p = "parent" /\ Left(p) = 4 /\ call[2] = 1
      \/ code = "pipe.c" /\ p = "child" /\ Left(p) = 2 /\ call[2] = 2
      \/ code # "pipe.c" /\ p = "parent" /\ Left(p) = 1 /\ call[2] = 2
      \/ code # "pipe.c" /\ p = "child" /\ Left(p) = 2 /\ call[2] = 1
  BY <1>1, <1>2, CallIs
<1>4. /\ \A q \in Pipes!Proc : Left(q) \in Nat /\ Left(q)' = IF q = p THEN Left(q) - 1 ELSE Left(q)
      /\ "parent" \in Pipes!Proc /\ "child" \in Pipes!Proc
  BY <1>2, LeftAfter
<1>5. <<p, call[2], "read">> \in ends
  <2>1. CASE code = "pipe.c"
    BY <1>2, <1>3, <2>1 DEF OwnReader
  <2>2. CASE code # "pipe.c"
    <3>1. Pipes!AllEnds(p) \subseteq ends
      BY <1>2, <2>2 DEF OwnReader
    <3>2. <<p, call[2], "read">> \in Pipes!AllEnds(p)
      BY <1>3 DEF Pipes!AllEnds
    <3>3. QED
      BY <3>1, <3>2
  <2>3. QED
    BY <2>1, <2>2
<1>6. Pipes!Users(call[2], "read") # {}
  BY <1>5 DEF Pipes!Users
<1>7. pipe' = [pipe EXCEPT ![call[2]] = @ + 1] /\ UNCHANGED <<status, ends>>
  BY <1>2, <1>6 DEF Pipes!Write
<1>8. pipe[call[2]] = 0 /\ call[2] \in {1, 2}
  <2>1. pipe[1] \in 0 .. 1 /\ pipe[2] \in 0 .. 1
    BY PipesNow
  <2>2. QED
    BY <1>3, <1>4, <2>1 DEF OneMessage
<1>9. /\ pipe' \in [{1, 2} -> 0 .. 1] /\ pipe'[call[2]] = 1
      /\ \A k \in {1, 2} \ {call[2]} : pipe'[k] = pipe[k]
  BY <1>7, <1>8, PipesNow
<1>10. Pipes!TypeOK'
  BY <1>2, <1>7, <1>9, CallMade, PipesNow, PipesTyped
<1>11. OneMessage'
  BY <1>2, <1>3, <1>4, <1>9 DEF OneMessage
<1>12. OwnReader'
  BY <1>2, <1>4, <1>7 DEF OwnReader
<1>13. NoSigPipe'
  BY <1>7 DEF NoSigPipe
<1>14. QED
  BY <1>10, <1>11, <1>12, <1>13

LEMMA PipeReadKeeps ==
  ASSUME PipesIInv, NEW p \in Pipes!Proc, Pipes!Read(p)
  PROVE  PipesIInv'
<1> USE DEF PipesIInv
<1>1. PICK call : call = Head(rest[p])
  OBVIOUS
<1>2. /\ Pipes!Makes(p, "read") /\ status[p] = "run" /\ rest[p] # << >> /\ code' = code
      /\ call[1] = "read" /\ pipe' = [pipe EXCEPT ![call[2]] = 0] /\ UNCHANGED <<status, ends>>
  BY <1>1, CallMade DEF Pipes!Read, Pipes!Pipe
<1>3. call[2] \in {1, 2}
  BY <1>1, <1>2, CallIs
<1>4. /\ \A q \in Pipes!Proc : Left(q) \in Nat /\ Left(q)' = IF q = p THEN Left(q) - 1 ELSE Left(q)
      /\ "parent" \in Pipes!Proc /\ "child" \in Pipes!Proc
  BY <1>2, LeftAfter
<1>5. /\ pipe' \in [{1, 2} -> 0 .. 1] /\ \A k \in {1, 2} : pipe'[k] = 1 => pipe[k] = 1
  BY <1>2, <1>3, PipesNow
<1>6. Pipes!TypeOK'
  BY <1>2, <1>5, CallMade, PipesNow, PipesTyped
<1>7. OneMessage'
  BY <1>2, <1>4, <1>5 DEF OneMessage
<1>8. OwnReader'
  BY <1>2, <1>4 DEF OwnReader
<1>9. NoSigPipe'
  BY <1>2 DEF NoSigPipe
<1>10. QED
  BY <1>6, <1>7, <1>8, <1>9

LEMMA PipeCloseKeeps ==
  ASSUME PipesIInv, NEW p \in Pipes!Proc, Pipes!Close(p)
  PROVE  PipesIInv'
<1> USE DEF PipesIInv
<1>1. PICK call : call = Head(rest[p])
  OBVIOUS
<1>2. /\ Pipes!Makes(p, "close") /\ status[p] = "run" /\ rest[p] # << >> /\ code' = code
      /\ call[1] = "close" /\ ends' = ends \ {<<p, call[2], call[3]>>} /\ UNCHANGED <<status, pipe>>
  BY <1>1, CallMade DEF Pipes!Close, Pipes!Pipe
<1>3. /\ code = "pipe.c"
      /\ \/ p = "parent" /\ Left(p) <= 3
         \/ p = "child" /\ Left(p) = 4 /\ call[2] = 1
         \/ p = "child" /\ Left(p) = 1
  BY <1>1, <1>2, CallIs
<1>4. /\ \A q \in Pipes!Proc : Left(q) \in Nat /\ Left(q)' = IF q = p THEN Left(q) - 1 ELSE Left(q)
      /\ "parent" \in Pipes!Proc /\ "child" \in Pipes!Proc
  BY <1>2, LeftAfter
<1>5. Pipes!TypeOK'
  BY <1>2, CallMade, PipesNow, PipesTyped
<1>6. OneMessage'
  BY <1>2, <1>4 DEF OneMessage
<1>7. OwnReader'
  <2>1. status'["parent"] = "run" /\ Left("parent")' >= 4 => <<"parent", 1, "read">> \in ends'
    BY <1>2, <1>3, <1>4 DEF OwnReader
  <2>2. status'["child"] = "run" /\ Left("child")' >= 2 => <<"child", 2, "read">> \in ends'
    BY <1>2, <1>3, <1>4 DEF OwnReader
  <2>3. QED
    BY <1>2, <1>3, <2>1, <2>2 DEF OwnReader
<1>8. NoSigPipe'
  BY <1>2 DEF NoSigPipe
<1>9. QED
  BY <1>5, <1>6, <1>7, <1>8

LEMMA PipeEndKeeps ==
  ASSUME PipesIInv, NEW p \in Pipes!Proc, Pipes!Exit(p) \/ Pipes!Kill(p)
  PROVE  PipesIInv'
<1> USE DEF PipesIInv
<1>1. PICK how \in {"exit", "killed"} : Pipes!Ends(p, how) /\ UNCHANGED <<code, rest, pipe>>
  BY DEF Pipes!Exit, Pipes!Kill
<1>2. \A q \in Pipes!Proc : Left(q) \in Nat /\ Left(q)' = Left(q)
  <2> SUFFICES ASSUME NEW q \in Pipes!Proc PROVE Left(q) \in Nat /\ Left(q)' = Left(q)
    OBVIOUS
  <2>1. Left(q) \in Nat
    BY NextCall
  <2>2. QED
    BY <1>1, <2>1 DEF Left
<1>3. /\ status' \in [Pipes!Proc -> {"none", "run", "exit", "killed", "sigpipe"}]
      /\ \A e \in ends' : \E q \in Pipes!Proc : status'[q] = "run" /\ e \in Pipes!AllEnds(q)
      /\ OwnReader' /\ NoSigPipe'
  <2>1. \A q \in Pipes!Proc : Left(q) \in Nat /\ Left(q)' \in Nat /\ Left(q)' <= Left(q)
    BY <1>2
  <2>2. QED
    BY <1>1, <2>1, PipeUserEnds
<1>4. Pipes!TypeOK'
  BY <1>1, <1>3, PipesNow, PipesTyped
<1>5. OneMessage'
  BY <1>1, <1>2 DEF OneMessage, Pipes!Proc
<1>6. QED
  BY <1>3, <1>4, <1>5

LEMMA PipesInit ==
  ASSUME Pipes!Init
  PROVE  PipesIInv
<1>1. /\ code \in {"pipe.c", "C11_Pipe.c"} /\ rest = Pipes!Whole
      /\ status = [parent |-> "run", child |-> "none"]
      /\ ends = Pipes!AllEnds("parent") /\ pipe = [k \in {1, 2} |-> 0]
  BY DEF Pipes!Init
<1>2. status \in [Pipes!Proc -> {"none", "run", "exit", "killed", "sigpipe"}]
      /\ status["parent"] = "run" /\ status["child"] = "none"
  BY <1>1 DEF Pipes!Proc
<1>3. DOMAIN rest = Pipes!Proc
  BY <1>1 DEF Pipes!Whole, Pipes!Calls, Pipes!PipeCalls, Pipes!C11PipeCalls, Pipes!Proc
<1>4. \A p \in Pipes!Proc : \E k \in 0 .. Len(Pipes!Whole[p]) :
        rest[p] = SubSeq(Pipes!Whole[p], k + 1, Len(Pipes!Whole[p]))
  <2> SUFFICES ASSUME NEW p \in Pipes!Proc
               PROVE  /\ 0 \in 0 .. Len(Pipes!Whole[p])
                      /\ rest[p] = SubSeq(Pipes!Whole[p], 0 + 1, Len(Pipes!Whole[p]))
    OBVIOUS
  <2>1. PICK whole : whole = Pipes!Whole[p]
    OBVIOUS
  <2>2. whole \in Seq(Call)
    BY <2>1, PipeWhole, C11Whole DEF Pipes!Proc
  <2>3. 0 \in 0 .. Len(whole) /\ whole = SubSeq(whole, 0 + 1, Len(whole))
    BY <2>2
  <2>4. QED
    BY <1>1, <2>1, <2>3
<1>5. Pipes!TypeOK
  <2>1. ends \subseteq UNION {Pipes!AllEnds(p) : p \in {p \in Pipes!Proc : status[p] = "run"}}
    BY <1>1, <1>2 DEF Pipes!Proc
  <2>2. pipe \in [{1, 2} -> 0 .. 1]
    BY <1>1
  <2>3. QED
    BY <1>1, <1>2, <1>3, <1>4, <2>1, <2>2 DEF Pipes!TypeOK
<1>6. OneMessage
  BY <1>1 DEF OneMessage
<1>7. OwnReader
  BY <1>1, <1>2 DEF OwnReader, Pipes!AllEnds, Pipes!Proc
<1>8. NoSigPipe
  BY <1>2 DEF NoSigPipe, Pipes!Proc
<1>9. QED
  BY <1>5, <1>6, <1>7, <1>8 DEF PipesIInv

LEMMA PipesStep ==
  ASSUME PipesIInv, [Pipes!Next]_(Pipes!vars)
  PROVE  PipesIInv'
<1>1. CASE UNCHANGED Pipes!vars
  BY <1>1 DEF Pipes!vars, PipesIInv, Pipes!TypeOK, Pipes!Whole, Pipes!Calls, OneMessage, OwnReader,
     NoSigPipe, Left
<1>2. CASE Pipes!Next
  <2>1. PICK p \in Pipes!Proc : Pipes!ProcStep(p) \/ Pipes!Kill(p)
    BY <1>2 DEF Pipes!Next
  <2>2. QED
    BY <2>1, ForkKeeps, PipeWriteKeeps, PipeReadKeeps, PipeCloseKeeps, PipeEndKeeps
       DEF Pipes!ProcStep
<1>3. QED
  BY <1>1, <1>2

LEMMA PipesRun == ProgramsSpec => []PipesIInv
<1>1. Pipes!Init => PipesIInv
  BY PipesInit
<1>2. PipesIInv /\ [Pipes!Next]_(Pipes!vars) => PipesIInv'
  BY PipesStep
<1>3. QED
  BY <1>1, <1>2, RunsPipes, PTL

(* Neither process of pipe.c or C11_Pipe.c is ended by SIGPIPE, whoever is *)
(* killed when: each is a reader of the pipe it writes to until it has     *)
(* written (pipe.c l.59-60, l.81-82).                                      *)
THEOREM PipesWrite == ProgramsSpec => []NoSigPipe
<1>1. PipesIInv => NoSigPipe
  BY DEF PipesIInv
<1>2. QED
  BY <1>1, PipesRun, PTL

-----------------------------------------------------------------------------
(* The chat client.  Until main() has created a thread that thread has     *)
(* done nothing, and once it waits for them no other is created.           *)

LEMMA RunsClient == ProgramsSpec => Client!Init /\ [][Client!Next]_(Client!vars)
<1>1. ProgramsInit => Client!Init
  BY DEF ProgramsInit
<1>2. [ProgramsNext]_programs => [Client!Next]_(Client!vars)
  BY DEF ProgramsNext, programs, InCounter, InPipes, InServers, InUdp, InArrays, InClient, InCopies,
     client, Client!vars
<1>3. QED
  BY <1>1, <1>2, PTL DEF ProgramsSpec

NotYet ==
  /\ main \in {"connect", "create1"} => snd = "none"
  /\ main \in {"connect", "create1", "create2"} => rcv = "none"

\* The sending thread never returns, so main() gets past its join only if it
\* was not created.
SenderStays == snd # "returned" /\ (main = "join2" => snd = "none")

ClientIInv == Client!TypeOK /\ NotYet /\ SenderStays

LEMMA ClientInit == Client!Init => ClientIInv
<1>1. MaxTyped \in Nat
  BY ProgramsAssumption DEF ProgramsAssumption, Client!ChatClientAssumption
<1>2. 0 \in 0 .. MaxTyped
  BY <1>1
<1>3. QED
  BY <1>2 DEF Client!Init, ClientIInv, Client!TypeOK, NotYet, SenderStays

LEMMA ClientStep ==
  ASSUME ClientIInv, [Client!Next]_(Client!vars)
  PROVE  ClientIInv'
<1> USE DEF ClientIInv, Client!TypeOK, NotYet, SenderStays, Client!Over
<1>1. CASE UNCHANGED Client!vars
  BY <1>1 DEF Client!vars
<1>2. CASE Client!Connect
  BY <1>2 DEF Client!Connect, Client!MainGoes
<1>3. CASE Client!CreateSnd
  BY <1>3 DEF Client!CreateSnd, Client!MainGoes
<1>4. CASE Client!CreateRcv
  BY <1>4 DEF Client!CreateRcv, Client!MainGoes
<1>5. CASE Client!JoinSnd
  BY <1>5 DEF Client!JoinSnd, Client!MainGoes
<1>6. CASE Client!JoinRcv
  BY <1>6 DEF Client!JoinRcv, Client!MainGoes
<1>7. CASE Client!Type
  BY <1>7 DEF Client!Type, Client!SndGoes
<1>8. CASE Client!Write
  BY <1>8 DEF Client!Write, Client!SndGoes
<1>9. CASE Client!Quit
  BY <1>9 DEF Client!Quit, Client!SndGoes
<1>10. CASE Client!Exit
  BY <1>10 DEF Client!Exit, Client!SndGoes
<1>11. CASE Client!Read
  BY <1>11 DEF Client!Read, Client!RcvGoes
<1>12. CASE Client!Display
  BY <1>12 DEF Client!Display, Client!RcvGoes
<1>13. CASE Client!ServerSends
  BY <1>13 DEF Client!ServerSends
<1>14. CASE Client!ServerEnds
  BY <1>14 DEF Client!ServerEnds
<1>15. QED
  BY <1>1, <1>2, <1>3, <1>4, <1>5, <1>6, <1>7, <1>8, <1>9, <1>10, <1>11, <1>12, <1>13, <1>14
     DEF Client!Next, Client!MainStep, Client!RcvStep

LEMMA ClientRun == ProgramsSpec => []ClientIInv
<1>1. Client!Init => ClientIInv
  BY ClientInit
<1>2. ClientIInv /\ [Client!Next]_(Client!vars) => ClientIInv'
  BY ClientStep
<1>3. QED
  BY <1>1, <1>2, RunsClient, PTL

(* Unless a thread could not be created, nothing ends the chat client but  *)
(* "q", a line written to a server that has gone, or a connection that was *)
(* never made: what the server does, and what the receiving thread does,   *)
(* is no end (chat_client.c l.52-53, 69-70, 87).  This is the part of      *)
(* UserEndsClient that needs no fairness.                                  *)
THEOREM OnlyUserEnds ==
  ProgramsSpec => [][main \notin Client!Over /\ main' \in Client!Over =>
                       main = "connect" \/ snd \in {"none", "write", "closed"}]_(Client!vars)
<1>1. ASSUME ClientIInv, [Client!Next]_(Client!vars)
      PROVE  [main \notin Client!Over /\ main' \in Client!Over =>
                main = "connect" \/ snd \in {"none", "write", "closed"}]_(Client!vars)
  <2>1. CASE Client!MainStep
    BY <1>1, <2>1 DEF Client!MainStep, Client!Connect, Client!CreateSnd, Client!CreateRcv, Client!JoinSnd,
       Client!JoinRcv, Client!MainGoes, ClientIInv, SenderStays, Client!TypeOK, Client!Over
  <2>2. CASE Client!Type \/ Client!Write \/ Client!Quit \/ Client!Exit
    BY <2>2 DEF Client!Type, Client!Write, Client!Quit, Client!Exit, Client!SndGoes, Client!Over
  <2>3. CASE Client!RcvStep \/ Client!ServerSends \/ Client!ServerEnds
    BY <2>3 DEF Client!RcvStep, Client!Read, Client!Display, Client!RcvGoes, Client!ServerSends,
       Client!ServerEnds
  <2>4. QED
    BY <1>1, <2>1, <2>2, <2>3 DEF Client!Next
<1>2. QED
  BY <1>1, ClientRun, RunsClient, PTL

-----------------------------------------------------------------------------
(* The type invariants. *)

LEMMA RunsCounter == ProgramsSpec => Init /\ [][Next]_vars
<1>1. ProgramsInit => Init
  BY DEF ProgramsInit
<1>2. [ProgramsNext]_programs => [Next]_vars
  BY DEF ProgramsNext, programs, InCounter, InPipes, InServers, InUdp, InArrays, InClient, InCopies,
     counter, vars
<1>3. QED
  BY <1>1, <1>2, PTL DEF ProgramsSpec

(* Every variable of every program keeps its type.  Most of it is plain,   *)
(* but not that no pipe has a second message, that a forking server keeps  *)
(* no client's socket open (server.c l.158-161), or that the error of a    *)
(* reset connection is seen by one thread of the chat client only.         *)
THEOREM ProgramsTypes == ProgramsSpec => []ProgramsTypeOK
<1>1. ProgramsSpec => []IInv
  BY RunsCounter, InitIInv, StepIInv, PTL
<1>2. ProgramsSpec => []ServerFacts!IInv
  <2>1. ServerFacts!RequestReplyAssumption
    BY ProgramsAssumption DEF ProgramsAssumption, Servers!RequestReplyAssumption,
       ServerFacts!RequestReplyAssumption
  <2>2. ServerFacts!RequestReplyAssumption /\ ServerFacts!Steps => []ServerFacts!IInv
    BY ServerFacts!Invariance
  <2>3. QED
    BY <2>1, <2>2, RunsServers, SameServers, PTL
<1>3. ProgramsSpec => []UdpIInv
  <2>1. Udp!UdpAssumption
    BY ProgramsAssumption DEF ProgramsAssumption
  <2>2. (Udp!Init => UdpIInv) /\ (UdpIInv /\ [Udp!Next]_(Udp!vars) => UdpIInv')
    BY <2>1, UdpInit, UdpStep
  <2>3. QED
    BY <2>2, RunsUdp, PTL
<1>4. ProgramsSpec => []CopiesIInv
  <2>1. Copies!CopyAssumption
    BY ProgramsAssumption DEF ProgramsAssumption
  <2>2. (Copies!Init => CopiesIInv) /\ (CopiesIInv /\ [Copies!Next]_(Copies!vars) => CopiesIInv')
    BY <2>1, CopiesInit, CopiesStep
  <2>3. QED
    BY <2>2, RunsCopies, PTL
<1>5. ServerFacts!IInv => Servers!TypeOK
  BY DEF ServerFacts!IInv, ServerFacts!TypeOK, Servers!TypeOK, ServerFacts!Forked, Servers!Forked
<1>6. /\ IInv => TypeOK
      /\ PipesIInv => Pipes!TypeOK
      /\ UdpIInv => Udp!TypeOK
      /\ TextsIInv => Arrays!TypeOK
      /\ ClientIInv => Client!TypeOK
      /\ CopiesIInv => Copies!TypeOK
  BY DEF IInv, PipesIInv, UdpIInv, TextsIInv, TextsTyped, ClientIInv, CopiesIInv
<1>7. IInv /\ PipesIInv /\ ServerFacts!IInv /\ UdpIInv /\ TextsIInv /\ ClientIInv /\ CopiesIInv
        => ProgramsTypeOK
  BY <1>5, <1>6 DEF ProgramsTypeOK
<1>8. QED
  BY <1>1, <1>2, <1>3, <1>4, <1>7, PipesRun, TextsRun, ClientRun, PTL
=============================================================================
