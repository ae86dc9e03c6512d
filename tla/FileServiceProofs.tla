-------------------------- MODULE FileServiceProofs --------------------------
(***************************************************************************)
(* What FileService keeps for any number of clients, any files and any     *)
(* size of a block.  That a small file arrives whole needs that the last   *)
(* write is also the first, that a child is forked once only for a client, *)
(* and that a client which has seen an end of file saw it from a child     *)
(* that had written - or that was never forked.                            *)
(***************************************************************************)
EXTENDS FileService, SequenceTheorems, TLAPS

USE DEF parent

Waiting(c) == \E k \in DOMAIN backlog : backlog[k] = c

\* A connection waits for accept() once, and then is with the parent, which
\* forks for it once.
OnePlace ==
  /\ \A j, k \in DOMAIN backlog : backlog[j] = backlog[k] => j = k
  /\ ppc = "accept" => psock = None
  /\ ppc # "accept" => psock \in Clnt
  /\ ppc = "fork" => child[psock] = "none"
  /\ \A c \in Clnt :
       /\ cl[c] = "connect" => ~ Waiting(c) /\ c # psock /\ child[c] = "none"
       /\ Waiting(c) => c # psock /\ child[c] = "none"

Small(c) == Size[wanted[c]] \in 0 .. BUF_SIZE - 1

\* What a child has done when it is where it is.
Written == \A c \in Clnt :
  /\ child[c] \in {"none", "recv", "open", "read"} => out[c] = 0
  /\ child[c] \in {"read", "freed", "bye", "thanks", "close", "spin"} => Size[wanted[c]] # NoFile
  /\ eof[c] <=> child[c] \in {"thanks", "close", "spin"}
  /\ Small(c) =>
       /\ child[c] # "freed"
       /\ child[c] = "crashed" => cl[c] = "killed"
       /\ child[c] \in {"bye", "thanks", "close", "spin"} /\ cl[c] # "killed"
            => out[c] = Size[wanted[c]]

\* A client that has seen the end has read all that was or will be written.
Heard == \A c \in Clnt : cl[c] \in {"thanks", "done"} => rcvd[c] = out[c] /\ (eof[c] \/ Closed(c))

IInv == TypeOK /\ OnePlace /\ Written /\ Heard

-----------------------------------------------------------------------------
(* The backlog. *)

LEMMA HeadOfBacklog ==
  ASSUME TypeOK, OnePlace, backlog # << >>
  PROVE  /\ Head(backlog) \in Clnt /\ Waiting(Head(backlog)) /\ Tail(backlog) \in Seq(Clnt)
         /\ \A j, k \in DOMAIN Tail(backlog) : Tail(backlog)[j] = Tail(backlog)[k] => j = k
         /\ \A c : (\E k \in DOMAIN Tail(backlog) : Tail(backlog)[k] = c)
              => Waiting(c) /\ c # Head(backlog)
<1>1. /\ backlog \in Seq(Clnt) /\ Len(backlog) \in Nat /\ Len(backlog) >= 1
      /\ DOMAIN backlog = 1 .. Len(backlog) /\ Head(backlog) = backlog[1]
  BY DEF TypeOK
<1>2. /\ Tail(backlog) \in Seq(Clnt) /\ DOMAIN Tail(backlog) = 1 .. Len(backlog) - 1
      /\ \A k \in 1 .. Len(backlog) - 1 : Tail(backlog)[k] = backlog[k + 1]
  BY <1>1
<1>3. Head(backlog) \in Clnt /\ Waiting(Head(backlog))
  BY <1>1 DEF Waiting
<1>4. \A k \in DOMAIN Tail(backlog) :
        k \in Int /\ k + 1 \in DOMAIN backlog /\ Tail(backlog)[k] = backlog[k + 1]
  BY <1>1, <1>2
<1>5. \A j, k \in DOMAIN Tail(backlog) : Tail(backlog)[j] = Tail(backlog)[k] => j = k
  BY <1>4 DEF OnePlace
<1>6. \A k \in DOMAIN Tail(backlog) : Tail(backlog)[k] # Head(backlog)
  BY <1>1, <1>2 DEF OnePlace
<1>7. QED
  BY <1>2, <1>3, <1>4, <1>5, <1>6 DEF Waiting

LEMMA AppendToBacklog ==
  ASSUME TypeOK, OnePlace, NEW c \in Clnt, ~ Waiting(c), backlog' = Append(backlog, c)
  PROVE  /\ backlog' \in Seq(Clnt)
         /\ \A j, k \in DOMAIN backlog' : backlog'[j] = backlog'[k] => j = k
         /\ \A d : Waiting(d)' => Waiting(d) \/ d = c
<1>1. /\ backlog \in Seq(Clnt) /\ Len(backlog) \in Nat /\ DOMAIN backlog = 1 .. Len(backlog)
      /\ backlog' \in Seq(Clnt) /\ DOMAIN backlog' = 1 .. Len(backlog) + 1
      /\ backlog'[Len(backlog) + 1] = c /\ \A k \in 1 .. Len(backlog) : backlog'[k] = backlog[k]
  BY DEF TypeOK
<1>2. \A k \in DOMAIN backlog' : k \in DOMAIN backlog \/ k = Len(backlog) + 1
  BY <1>1
<1>3. \A j, k \in DOMAIN backlog' : backlog'[j] = backlog'[k] => j = k
  BY <1>1, <1>2 DEF OnePlace, Waiting
<1>4. QED
  BY <1>1, <1>2, <1>3 DEF Waiting


-----------------------------------------------------------------------------

LEMMA InitIInv == Init => IInv
<1> SUFFICES ASSUME Init PROVE IInv
  OBVIOUS
<1>1. /\ \A c \in Clnt : cl[c] = "connect" /\ child[c] = "none" /\ rcvd[c] = 0 /\ out[c] = 0
                         /\ eof[c] = FALSE
      /\ backlog = << >> /\ DOMAIN backlog = {} /\ ppc = "accept" /\ psock = None
      /\ wanted \in [Clnt -> DOMAIN Size]
  BY DEF Init
<1>2. TypeOK
  <2>1. /\ cl \in [Clnt -> {"connect"}] /\ child \in [Clnt -> {"none"}]
        /\ {out, rcvd} \subseteq [Clnt -> {0}] /\ {eof, held} \subseteq [Clnt -> {FALSE}]
    BY DEF Init
  <2>2. /\ cl \in [Clnt -> {"connect", "name", "recv", "thanks"} \cup Over]
        /\ child \in [Clnt -> Working \cup {"none", "spin", "crashed"}]
    BY <2>1
  <2>3. {out, rcvd} \subseteq [Clnt -> Nat] /\ {eof, held} \subseteq [Clnt -> BOOLEAN]
    <3>1. {out, rcvd} \subseteq [Clnt -> Nat]
      BY <2>1
    <3>2. {eof, held} \subseteq [Clnt -> BOOLEAN]
      BY <2>1
    <3>3. QED
      BY <3>1, <3>2
  <2>4. \A c \in Clnt : Size[wanted[c]] # NoFile => Size[wanted[c]] \in Nat
    BY <1>1, FileAssumption
  <2>5. QED
    BY <1>1, <2>2, <2>3, <2>4 DEF TypeOK
<1>3. OnePlace
  BY <1>1, FileAssumption DEF OnePlace, Waiting
<1>4. Written /\ Heard
  BY <1>1 DEF Written, Heard
<1>5. QED
  BY <1>2, <1>3, <1>4 DEF IInv

-----------------------------------------------------------------------------
(* The clients. *)

LEMMA ConnectKeeps ==
  ASSUME IInv, NEW c \in Clnt, Connect(c)
  PROVE  IInv'
<1> USE DEF IInv
<1>1. /\ cl[c] = "connect" /\ cl' = [cl EXCEPT ![c] = "name"] /\ backlog' = Append(backlog, c)
      /\ UNCHANGED <<wanted, rcvd, ppc, psock, held, child, out, eof>>
      /\ ~ Waiting(c) /\ c # psock /\ child[c] = "none"
  BY DEF Connect, OnePlace
<1>2. /\ backlog' \in Seq(Clnt)
      /\ \A j, k \in DOMAIN backlog' : backlog'[j] = backlog'[k] => j = k
      /\ \A d : Waiting(d)' => Waiting(d) \/ d = c
  BY <1>1, AppendToBacklog
<1>3. cl'[c] = "name" /\ \A d \in Clnt : d # c => cl'[d] = cl[d]
  BY <1>1 DEF TypeOK
<1>4. TypeOK'
  BY <1>1, <1>2 DEF TypeOK
<1>5. OnePlace'
  BY <1>1, <1>2, <1>3 DEF OnePlace
<1>6. Written'
  BY <1>1, <1>3 DEF Written, Small
<1>7. Heard'
  BY <1>1, <1>2, <1>3 DEF Heard, Closed, Waiting
<1>8. QED
  BY <1>4, <1>5, <1>6, <1>7

LEMMA RecvFileKeeps ==
  ASSUME IInv, NEW c \in Clnt, RecvFile(c)
  PROVE  IInv'
<1> USE DEF IInv
<1>1. PICK k \in 1 .. BUF_SIZE :
        rcvd[c] + k <= out[c] /\ rcvd' = [rcvd EXCEPT ![c] = rcvd[c] + k]
  BY DEF RecvFile
<1>2. cl[c] = "recv" /\ UNCHANGED <<wanted, cl, backlog, ppc, psock, held, child, out, eof>>
  BY DEF RecvFile
<1>3. rcvd \in [Clnt -> Nat] /\ k \in Nat /\ rcvd[c] + k \in Nat
  BY FileAssumption DEF TypeOK
<1>4. rcvd' \in [Clnt -> Nat] /\ rcvd'[c] = rcvd[c] + k /\ \A d \in Clnt : d # c => rcvd'[d] = rcvd[d]
  BY <1>1, <1>3
<1>5. TypeOK'
  BY <1>1, <1>2, <1>4 DEF TypeOK
<1>6. OnePlace' /\ Written'
  BY <1>2 DEF OnePlace, Waiting, Written, Small
<1>7. Heard'
  BY <1>2, <1>4 DEF Heard, Closed
<1>8. QED
  BY <1>5, <1>6, <1>7

(* The steps of a client's control. *)
LEMMA ClientGoesKeeps ==
  ASSUME IInv, NEW c \in Clnt, NEW from \in {"name", "recv", "thanks"},
         NEW to \in {"recv", "thanks"} \cup Over, ClientGoes(c, from, to),
         to \in {"thanks", "done"} =>
           from = "thanks" \/ (rcvd[c] = out[c] /\ (eof[c] \/ Closed(c)))
  PROVE  IInv'
<1> USE DEF IInv
<1>1. /\ cl[c] = from /\ cl' = [cl EXCEPT ![c] = to]
      /\ UNCHANGED <<wanted, rcvd, backlog, ppc, psock, held, child, out, eof>>
  BY DEF ClientGoes
<1>2. cl'[c] = to /\ \A d \in Clnt : d # c => cl'[d] = cl[d]
  BY <1>1 DEF TypeOK
<1>3. TypeOK'
  BY <1>1 DEF TypeOK
<1>4. OnePlace'
  BY <1>1, <1>2 DEF OnePlace, Waiting, Over
<1>5. Written'
  BY <1>1, <1>2 DEF Written, Small
<1>6. Heard'
  <2>1. \A d \in Clnt : Closed(d)' <=> Closed(d)
    BY <1>1 DEF Closed
  <2>2. QED
    BY <1>1, <1>2, <2>1 DEF Heard
<1>7. QED
  BY <1>3, <1>4, <1>5, <1>6

LEMMA ClientKeeps ==
  ASSUME IInv, NEW c \in Clnt, Connect(c) \/ ClientStep(c) \/ Kill(c)
  PROVE  IInv'
<1>1. CASE SendName(c)
  BY <1>1, ClientGoesKeeps DEF SendName
<1>2. CASE RecvEof(c)
  BY <1>2, ClientGoesKeeps DEF RecvEof
<1>3. CASE RecvReset(c)
  BY <1>3, ClientGoesKeeps DEF RecvReset, Over
<1>4. CASE Thank(c)
  BY <1>4, ClientGoesKeeps DEF Thank, Over
<1>5. CASE Kill(c)
  BY <1>5, ClientGoesKeeps DEF Kill, Over
<1>6. QED
  BY <1>1, <1>2, <1>3, <1>4, <1>5, ConnectKeeps, RecvFileKeeps DEF ClientStep

-----------------------------------------------------------------------------
(* The parent. *)

LEMMA AcceptKeeps ==
  ASSUME IInv, Accept
  PROVE  IInv'
<1> USE DEF IInv
<1>1. PICK h \in Clnt : h = Head(backlog) /\ Waiting(h)
  BY HeadOfBacklog DEF Accept
<1>2. /\ ppc = "accept" /\ ppc' = "fork" /\ psock = None /\ psock' = h
      /\ backlog' = Tail(backlog) /\ backlog # << >> /\ held' = [held EXCEPT ![h] = TRUE]
      /\ UNCHANGED <<wanted, cl, rcvd, child, out, eof>>
  BY <1>1 DEF Accept, OnePlace
<1>3. /\ backlog' \in Seq(Clnt)
      /\ \A j, k \in DOMAIN backlog' : backlog'[j] = backlog'[k] => j = k
      /\ \A d : Waiting(d)' => Waiting(d) /\ d # h
  BY <1>1, <1>2, HeadOfBacklog DEF Waiting
<1>4. child[h] = "none" /\ cl[h] # "connect" /\ ~ Closed(h)
  BY <1>1 DEF OnePlace, Closed, Waiting
<1>5. \A d \in Clnt : d # h => held'[d] = held[d]
  BY <1>2 DEF TypeOK
<1>6. TypeOK'
  BY <1>2, <1>3 DEF TypeOK
<1>7. OnePlace'
  BY <1>2, <1>3, <1>4 DEF OnePlace
<1>8. Written'
  BY <1>2 DEF Written, Small
<1>9. Heard'
  <2>1. \A d \in Clnt : Closed(d) => Closed(d)'
    BY <1>2, <1>3, <1>4, <1>5 DEF Closed, Waiting
  <2>2. QED
    BY <1>2, <2>1 DEF Heard
<1>10. QED
  BY <1>6, <1>7, <1>8, <1>9

LEMMA ForkKeeps ==
  ASSUME IInv, Fork
  PROVE  IInv'
<1> USE DEF IInv
<1>1. /\ ppc = "fork" /\ ppc' = "close" /\ psock \in Clnt /\ child[psock] = "none"
      /\ child' = [child EXCEPT ![psock] = "recv"]
      /\ UNCHANGED <<wanted, cl, rcvd, backlog, psock, held, out, eof>>
      /\ cl[psock] # "connect" /\ ~ Waiting(psock) /\ ~ Closed(psock)
  BY DEF Fork, OnePlace, Closed
<1>2. child'[psock] = "recv" /\ \A d \in Clnt : d # psock => child'[d] = child[d]
  BY <1>1 DEF TypeOK
<1>3. TypeOK'
  <2>1. child' \in [Clnt -> Working \cup {"none", "spin", "crashed"}]
    BY <1>1 DEF TypeOK, Working
  <2>2. QED
    BY <1>1, <2>1 DEF TypeOK
<1>4. OnePlace'
  BY <1>1, <1>2 DEF OnePlace, Waiting
<1>5. Written'
  BY <1>1, <1>2 DEF Written, Small
<1>6. Heard'
  <2>1. \A d \in Clnt : Closed(d) => Closed(d)'
    BY <1>1, <1>2 DEF Closed
  <2>2. QED
    BY <1>1, <2>1 DEF Heard
<1>7. QED
  BY <1>3, <1>4, <1>5, <1>6

LEMMA CloseClntKeeps ==
  ASSUME IInv, CloseClnt
  PROVE  IInv'
<1> USE DEF IInv
<1>1. /\ psock \in Clnt /\ psock' = None /\ ppc' = "accept" /\ held' = [held EXCEPT ![psock] = FALSE]
      /\ UNCHANGED <<wanted, cl, rcvd, backlog, child, out, eof>>
  BY DEF CloseClnt, NextClient, OnePlace
<1>2. \A d \in Clnt : d # psock' /\ (held'[d] => held[d])
  BY <1>1, FileAssumption DEF TypeOK
<1>3. TypeOK'
  BY <1>1 DEF TypeOK
<1>4. OnePlace'
  BY <1>1, <1>2 DEF OnePlace, Waiting
<1>5. Written'
  BY <1>1 DEF Written, Small
<1>6. Heard'
  <2>1. \A d \in Clnt : Closed(d) => Closed(d)'
    BY <1>1, <1>2 DEF Closed
  <2>2. QED
    BY <1>1, <2>1 DEF Heard
<1>7. QED
  BY <1>3, <1>4, <1>5, <1>6

-----------------------------------------------------------------------------
(* The children. *)

\* What has to hold of c for a step of its child to keep IInv.
WrittenBy(c) ==
  /\ child'[c] \in {"none", "recv", "open", "read"} => out'[c] = 0
  /\ child'[c] \in {"read", "freed", "bye", "thanks", "close", "spin"} => Size[wanted[c]] # NoFile
  /\ eof'[c] <=> child'[c] \in {"thanks", "close", "spin"}
  /\ Small(c) =>
       /\ child'[c] # "freed"
       /\ child'[c] = "crashed" => cl[c] = "killed"
       /\ child'[c] \in {"bye", "thanks", "close", "spin"} /\ cl[c] # "killed"
            => out'[c] = Size[wanted[c]]

LEMMA ChildKeeps ==
  ASSUME IInv, NEW c \in Clnt, NEW to \in Working \cup {"spin", "crashed"},
         child[c] \in Working, child' = [child EXCEPT ![c] = to],
         UNCHANGED <<wanted, cl, rcvd, backlog, ppc, psock, held>>,
         out' \in [Clnt -> Nat], eof' \in [Clnt -> BOOLEAN],
         \A d \in Clnt : d # c => out'[d] = out[d] /\ eof'[d] = eof[d],
         rcvd[c] <= out'[c], Size[wanted[c]] # NoFile => out'[c] <= Size[wanted[c]],
         eof[c] => eof'[c] /\ out'[c] = out[c], WrittenBy(c)
  PROVE  IInv'
<1> USE DEF IInv
<1>1. child'[c] = to /\ \A d \in Clnt : d # c => child'[d] = child[d]
  BY DEF TypeOK
<1>2. TypeOK'
  <2>1. child' \in [Clnt -> Working \cup {"none", "spin", "crashed"}]
    BY DEF TypeOK
  <2>2. QED
    BY <2>1 DEF TypeOK
<1>3. OnePlace'
  <2>1. cl[c] # "connect" /\ ~ Waiting(c) /\ (ppc = "fork" => c # psock)
    BY DEF OnePlace, Working
  <2>2. QED
    BY <1>1, <2>1 DEF OnePlace, Waiting
<1>4. Written'
  BY <1>1 DEF Written, WrittenBy, Small
<1>5. Heard'
  <2>1. ~ Closed(c)
    BY DEF Closed
  <2>2. \A d \in Clnt : d # c => (Closed(d) => Closed(d)')
    BY <1>1 DEF Closed
  <2>3. QED
    BY <2>1, <2>2 DEF Heard
<1>6. QED
  BY <1>2, <1>3, <1>4, <1>5

(* The steps that change only where the child is. *)
LEMMA SilentKeeps ==
  ASSUME IInv, NEW c \in Clnt,
         RecvName(c) \/ MissingFile(c) \/ OpenFile(c) \/ ReadFreed(c) \/ ReadThanks(c) \/ CloseAndSpin(c)
  PROVE  IInv'
<1> USE DEF IInv
<1>1. PICK to \in Working \cup {"spin", "crashed"} :
        /\ child' = [child EXCEPT ![c] = to] /\ Silent
        /\ \/ child[c] = "recv" /\ to \in {"open", "crashed"} /\ (to = "crashed" => Gone(c))
           \/ child[c] = "open" /\ to = "crashed" /\ Size[wanted[c]] = NoFile
           \/ child[c] = "open" /\ to = "read" /\ Size[wanted[c]] # NoFile
           \/ child[c] = "freed" /\ to \in {"bye", "crashed"}
           \/ child[c] = "thanks" /\ to = "close"
           \/ child[c] = "close" /\ to = "spin"
  BY DEF RecvName, MissingFile, OpenFile, ReadFreed, ReadThanks, CloseAndSpin, ChildGoes, Working
<1>2. UNCHANGED <<wanted, cl, rcvd, backlog, ppc, psock, held, out, eof>> /\ child'[c] = to
  BY <1>1 DEF Silent, TypeOK
<1>3. child[c] \in Working
  BY <1>1 DEF Working
<1>4. child[c] = "recv" /\ Gone(c) => cl[c] = "killed"
  BY <1>3 DEF Gone, Over, Written, Heard, Closed
<1>5. Small(c) => Size[wanted[c]] # NoFile
  BY FileAssumption DEF Small
<1>6. WrittenBy(c)
  BY <1>1, <1>2, <1>4, <1>5 DEF WrittenBy, Written, Small
<1>7. QED
  BY <1>1, <1>2, <1>3, <1>6, ChildKeeps DEF TypeOK

LEMMA ShutdownKeeps ==
  ASSUME IInv, NEW c \in Clnt, Shutdown(c)
  PROVE  IInv'
<1> USE DEF IInv
<1>1. /\ child[c] = "bye" /\ child' = [child EXCEPT ![c] = "thanks"] /\ child'[c] = "thanks"
      /\ eof' = [eof EXCEPT ![c] = TRUE] /\ UNCHANGED <<wanted, cl, rcvd, backlog, ppc, psock, held, out>>
  BY DEF Shutdown, ChildGoes, TypeOK
<1>2. /\ eof' \in [Clnt -> BOOLEAN] /\ eof'[c] = TRUE /\ \A d \in Clnt : d # c => eof'[d] = eof[d]
  BY <1>1 DEF TypeOK
<1>3. WrittenBy(c)
  BY <1>1, <1>2 DEF WrittenBy, Written, Small
<1>4. QED
  BY <1>1, <1>2, <1>3, ChildKeeps DEF TypeOK, Working

(* The one write() of the child: k units of a file that has as many. *)
LEMMA WriteKeeps ==
  ASSUME IInv, NEW c \in Clnt, SendLastBlock(c) \/ SendFullBlock(c)
  PROVE  IInv'
<1> USE DEF IInv
<1>1. child[c] = "read" /\ out[c] = 0 /\ Size[wanted[c]] # NoFile /\ ~ eof[c] /\ rcvd[c] = 0
  <2>1. child[c] = "read"
    BY DEF SendLastBlock, SendFullBlock, Write, ChildGoes
  <2>2. out[c] = 0 /\ Size[wanted[c]] # NoFile /\ ~ eof[c]
    BY <2>1 DEF Written
  <2>3. rcvd[c] \in Nat /\ rcvd[c] <= out[c]
    BY DEF TypeOK
  <2>4. QED
    BY <2>1, <2>2, <2>3
<1>2. Size[wanted[c]] \in Nat /\ BUF_SIZE \in Nat \ {0}
  BY <1>1, FileAssumption DEF TypeOK
<1>3. PICK k \in Nat, next \in {"bye", "freed"} :
        /\ Write(c, k, "read", next) /\ k <= Size[wanted[c]]
        /\ \/ next = "bye" /\ k = Size[wanted[c]]
           \/ next = "freed" /\ ~ Small(c)
  BY <1>2 DEF SendLastBlock, SendFullBlock, Small
<1>4. PICK to \in {"bye", "freed", "crashed"} :
        /\ child' = [child EXCEPT ![c] = to]
        /\ to = next \/ (to = "crashed" /\ Gone(c))
        /\ UNCHANGED <<wanted, cl, rcvd, backlog, ppc, psock, held, eof>>
        /\ out' = IF Gone(c) THEN out ELSE [out EXCEPT ![c] = out[c] + k]
  BY <1>3 DEF Write, ChildGoes
<1>5. child'[c] = to
  BY <1>4 DEF TypeOK
<1>6. out \in [Clnt -> Nat] /\ out[c] + k = k
  BY <1>1 DEF TypeOK
<1>7. /\ out' \in [Clnt -> Nat] /\ \A d \in Clnt : d # c => out'[d] = out[d]
      /\ out'[c] = IF Gone(c) THEN 0 ELSE k
  BY <1>1, <1>4, <1>6
<1>8. Gone(c) => cl[c] = "killed"
  BY <1>1 DEF Gone, Over, Heard, Closed, Working
<1>9. WrittenBy(c)
  BY <1>1, <1>3, <1>4, <1>5, <1>7, <1>8 DEF WrittenBy, Small, Gone, Over
<1>10. eof' \in [Clnt -> BOOLEAN] /\ rcvd[c] <= out'[c] /\ out'[c] <= Size[wanted[c]]
  BY <1>1, <1>2, <1>3, <1>4, <1>7 DEF TypeOK
<1>11. QED
  BY <1>1, <1>4, <1>7, <1>9, <1>10, ChildKeeps DEF Working

-----------------------------------------------------------------------------

LEMMA StepKeepsIInv ==
  ASSUME IInv, [Next]_vars
  PROVE  IInv'
<1>1. CASE UNCHANGED vars
  <2>1. \A c \in Clnt : Closed(c)' <=> Closed(c)
    BY <1>1 DEF vars, Closed
  <2>2. TypeOK' /\ OnePlace' /\ Written'
    BY <1>1 DEF vars, IInv, TypeOK, OnePlace, Waiting, Written, Small
  <2>3. Heard'
    BY <1>1, <2>1 DEF vars, IInv, Heard
  <2>4. QED
    BY <2>2, <2>3 DEF IInv
<1>2. QED
  BY <1>1, ClientKeeps, AcceptKeeps, ForkKeeps, CloseClntKeeps, SilentKeeps, ShutdownKeeps, WriteKeeps
  DEF Next, ParentStep, ChildStep

(* All of it holds of every behaviour. *)
THEOREM Invariance == Spec => []IInv
<1>1. IInv /\ [Next]_vars => IInv'
  BY StepKeepsIInv
<1>2. QED
  BY <1>1, InitIInv, PTL DEF Spec

(* Every variable keeps its type; nobody reads what was not written, and   *)
(* nothing is written that is not in the file.                             *)
THEOREM TypeCorrect == Spec => []TypeOK
BY Invariance, PTL DEF IInv

(* A file smaller than a block arrives whole.                              *)
THEOREM SmallOnesWhole == Spec => []SmallFilesWhole
<1>1. IInv => SmallFilesWhole
  <2> SUFFICES ASSUME IInv, NEW c \in Clnt, cl[c] = "done", child[c] # "none", Small(c)
               PROVE  rcvd[c] = Size[wanted[c]]
    BY DEF SmallFilesWhole, Small
  <2>1. rcvd[c] = out[c] /\ child[c] \in {"thanks", "close", "spin", "crashed"}
    BY DEF IInv, Heard, Written, Closed, TypeOK
  <2>2. QED
    BY <2>1 DEF IInv, Written
<1>2. QED
  BY <1>1, Invariance, PTL
=============================================================================
