--------------------------- MODULE EchoStoreProofs ---------------------------
(***************************************************************************)
(* What EchoStore keeps for any number of clients, any sizes of the buffer *)
(* and the pipe and any number of the saver's reads.  That the file is in  *)
(* order needs to know of each child how much it read and has not stored;  *)
(* that an end of file comes after the echoes needs to know where each     *)
(* socket is, so that a child is forked once for a client and never again  *)
(* for one that has seen the end.                                          *)
(***************************************************************************)
EXTENDS EchoStore, SequenceTheorems, TLAPS

USE DEF client, parent, serving, saving, signals

Waiting(c) == \E k \in DOMAIN backlog : backlog[k] = c

Busy == {"read", "echo", "store"}

\* A connection waits for accept() once, is the parent's, or its child's.
OnePlace ==
  /\ \A j, k \in DOMAIN backlog : backlog[j] = backlog[k] => j = k
  /\ ppc = "accept" => psock = None
  /\ ppc # "accept" => psock \in Clnt
  /\ ppc = "fork" => child[psock] = "none"
  /\ \A c \in Clnt :
       /\ link[c] = "none" => ~ Waiting(c) /\ c # psock /\ child[c] = "none" /\ reader[c] = "none"
       /\ Waiting(c) => c # psock /\ child[c] = "none"
       /\ child[c] \in Busy => "child" \in holders[c]

\* What the two processes of a client mean for its connection.
Ends == \A c \in Clnt :
  /\ writer[c] = "run" => link[c] = "open"
  /\ reader[c] \in {"run", "done"} => link[c] \in {"open", "half"}
  /\ reader[c] = "done" => ~ Waiting(c) /\ c # psock /\ child[c] \in {"none", "exited"}

\* What a child has read is echoed and then stored, as long as the client is
\* there.
Echoes == \A c \in Clnt :
  /\ taken[c] <= sent[c]
  /\ child[c] = "none" => taken[c] = 0
  /\ child[c] \in {"echo", "store"} => len[c] <= taken[c]
  /\ link[c] \in {"none", "open", "half"} =>
       /\ got[c] = taken[c] - (IF child[c] = "echo" THEN len[c] ELSE 0)
       /\ child[c] = "exited" => link[c] = "half" /\ taken[c] = sent[c]

\* What is not saved of what was read is in the hands of a child that is going
\* to store it, or went with it.
Kept(c, n) ==
  /\ SavedOf(c) = {c} \X (1 .. n)
  /\ child[c] \in {"none", "read"} => n = taken[c]
  /\ child[c] \in {"echo", "store"} => n = taken[c] - len[c]

InOrder ==
  /\ \A i, j \in DOMAIN Saved :
       i < j /\ Saved[i][1] = Saved[j][1] => Saved[i][2] < Saved[j][2]
  /\ \A c \in Clnt : \E n \in 0 .. taken[c] : Kept(c, n)

\* The file is written when the saver ends by itself.
OnDisk ==
  /\ saver \in {"run", "killed"} => disk = << >>
  /\ saver = "exited" => saves = SAVES /\ disk = file

IInv == TypeOK /\ OnePlace /\ Ends /\ Echoes /\ InOrder /\ OnDisk /\ ZombiesAreMergedSignals

-----------------------------------------------------------------------------
(* The backlog. *)

LEMMA HeadOfBacklog ==
  ASSUME TypeOK, OnePlace, backlog # << >>
  PROVE  /\ Head(backlog) \in Clnt /\ Waiting(Head(backlog)) /\ Tail(backlog) \in Seq(Clnt)
         /\ \A j, k \in DOMAIN Tail(backlog) : Tail(backlog)[j] = Tail(backlog)[k] => j = k
         /\ \A c : (\E k \in DOMAIN Tail(backlog) : Tail(backlog)[k] = c)
              => Waiting(c) /\ c # Head(backlog)
<1>1. /\ backlog \in Seq(Clnt) /\ Len(backlog) \in Nat /\ Len(backlog) >= 1
      /\ DOMAIN backlog = 1 .. Len(backlog) /\ Head(backlog) = backlog[1]
  BY SMTT(30) DEF TypeOK
<1>2. /\ Tail(backlog) \in Seq(Clnt) /\ DOMAIN Tail(backlog) = 1 .. Len(backlog) - 1
      /\ \A k \in 1 .. Len(backlog) - 1 : Tail(backlog)[k] = backlog[k + 1]
  BY <1>1
<1>3. Head(backlog) \in Clnt /\ Waiting(Head(backlog))
  BY <1>1 DEF Waiting
<1>4. \A k \in DOMAIN Tail(backlog) :
        k \in Int /\ k + 1 \in DOMAIN backlog /\ Tail(backlog)[k] = backlog[k + 1]
  BY <1>1, <1>2
<1>5. \A j, k \in DOMAIN Tail(backlog) : Tail(backlog)[j] = Tail(backlog)[k] => j = k
  BY <1>4 DEF OnePlace
<1>6. \A k \in DOMAIN Tail(backlog) : Tail(backlog)[k] # Head(backlog)
  BY <1>1, <1>2 DEF OnePlace
<1>7. QED
  BY <1>2, <1>3, <1>4, <1>5, <1>6 DEF Waiting

LEMMA AppendToBacklog ==
  ASSUME TypeOK, OnePlace, NEW c \in Clnt, ~ Waiting(c), backlog' = Append(backlog, c)
  PROVE  /\ backlog' \in Seq(Clnt)
         /\ \A j, k \in DOMAIN backlog' : backlog'[j] = backlog'[k] => j = k
         /\ \A d : Waiting(d)' => Waiting(d) \/ d = c
<1>1. /\ backlog \in Seq(Clnt) /\ Len(backlog) \in Nat /\ DOMAIN backlog = 1 .. Len(backlog)
      /\ backlog' \in Seq(Clnt) /\ DOMAIN backlog' = 1 .. Len(backlog) + 1
      /\ backlog'[Len(backlog) + 1] = c /\ \A k \in 1 .. Len(backlog) : backlog'[k] = backlog[k]
  BY DEF TypeOK
<1>2. \A k \in DOMAIN backlog' : k \in DOMAIN backlog \/ k = Len(backlog) + 1
  BY <1>1
<1>3. \A j, k \in DOMAIN backlog' : backlog'[j] = backlog'[k] => j = k
  BY <1>1, <1>2 DEF OnePlace, Waiting
<1>4. QED
  BY <1>1, <1>2, <1>3 DEF Waiting

(* What a child that stores has in hand. *)
LEMMA InHandIs ==
  ASSUME TypeOK, Echoes, NEW c \in Clnt, child[c] = "store"
  PROVE  /\ len[c] \in Nat /\ len[c] <= taken[c] /\ taken[c] \in Nat
         /\ InHand(c) \in Seq(Unit) /\ Len(InHand(c)) = len[c]
         /\ SubSeq(InHand(c), 1, len[c]) = InHand(c)
         /\ \A k \in 1 .. len[c] : InHand(c)[k] = <<c, taken[c] - len[c] + k>>
<1>1. len[c] \in Nat /\ len[c] <= taken[c] /\ taken[c] \in Nat
  BY StoreAssumption DEF TypeOK, Echoes
<1>2. \A k \in 1 .. len[c] : <<c, taken[c] - len[c] + k>> \in Unit
  BY <1>1 DEF Unit
<1>3. InHand(c) \in Seq(Unit) /\ Len(InHand(c)) = len[c]
  BY <1>1, <1>2 DEF InHand
<1>4. SubSeq(InHand(c), 1, len[c]) = InHand(c)
  BY <1>3, SubSeqFull
<1>5. \A k \in 1 .. len[c] : InHand(c)[k] = <<c, taken[c] - len[c] + k>>
  BY DEF InHand
<1>6. QED
  BY <1>1, <1>3, <1>4, <1>5

LEMMA ConcatUnits ==
  ASSUME NEW f \in Seq(Unit), NEW g \in Seq(Unit)
  PROVE  /\ f \o g \in Seq(Unit) /\ Len(f \o g) = Len(f) + Len(g)
         /\ DOMAIN (f \o g) = 1 .. Len(f) + Len(g)
         /\ \A i \in 1 .. Len(f) + Len(g) :
              (f \o g)[i] = IF i <= Len(f) THEN f[i] ELSE g[i - Len(f)]
OBVIOUS

(* The saver's reads cut the pipe in two, but not what they moved.         *)
LEMMA CutAnywhere ==
  ASSUME NEW f \in Seq(Unit), NEW p \in Seq(Unit), NEW k \in 1 .. Len(p)
  PROVE  /\ f \o SubSeq(p, 1, k) \in Seq(Unit) /\ SubSeq(p, k + 1, Len(p)) \in Seq(Unit)
         /\ Len(SubSeq(p, k + 1, Len(p))) = Len(p) - k
         /\ (f \o SubSeq(p, 1, k)) \o SubSeq(p, k + 1, Len(p)) = f \o p
<1>1. /\ SubSeq(p, 1, k) \in Seq(Unit) /\ SubSeq(p, k + 1, Len(p)) \in Seq(Unit)
      /\ Len(SubSeq(p, k + 1, Len(p))) = Len(p) - k
  OBVIOUS
<1>2. PICK x \in Seq(Unit) : x = SubSeq(p, 1, k)
  BY <1>1, Zenon
<1>3. PICK y \in Seq(Unit) : y = SubSeq(p, k + 1, Len(p)) /\ Len(y) = Len(p) - k
  BY <1>1, Zenon
<1>4. x \o y = p
  <2>1. SubSeq(p, 1, k) \o SubSeq(p, k + 1, Len(p)) = SubSeq(p, 1, Len(p))
    BY ConcatAdjacentSubSeq
  <2>2. QED
    BY <1>2, <1>3, <2>1, SubSeqFull
<1>5. f \o x \in Seq(Unit) /\ (f \o x) \o y = f \o (x \o y)
  OBVIOUS
<1>6. QED
  BY <1>2, <1>3, <1>4, <1>5

LEMMA CopiesMoves ==
  ASSUME TypeOK, NEW n, Copies(n)
  PROVE  /\ Saved' = Saved /\ file' \in Seq(Unit) /\ pipe' \in Seq(Unit)
         /\ Len(pipe') \in Nat /\ Len(pipe') <= Len(pipe)
<1>1. /\ pipe \in Seq(Unit) /\ file \in Seq(Unit) /\ Len(pipe) \in Nat /\ Len(pipe) >= 1
  BY DEF TypeOK, Copies
<1>2. PICK k \in 1 .. Len(pipe) :
        file' = file \o SubSeq(pipe, 1, k) /\ pipe' = SubSeq(pipe, k + 1, Len(pipe))
  <2>1. Readable \in 1 .. Len(pipe)
    BY <1>1, StoreAssumption DEF Readable
  <2>2. QED
    BY <2>1, Zenon DEF Copies
<1>3. /\ file' \in Seq(Unit) /\ pipe' \in Seq(Unit) /\ Len(pipe') = Len(pipe) - k
      /\ file' \o pipe' = file \o pipe
  BY <1>1, <1>2, CutAnywhere
<1>4. QED
  BY <1>1, <1>3 DEF Saved

-----------------------------------------------------------------------------

LEMMA InitIInv == Init => IInv
<1> SUFFICES ASSUME Init PROVE IInv
  OBVIOUS
<1>1. TypeOK
  <2>1. /\ {link, writer, reader, child} \subseteq [Clnt -> {"none"}]
        /\ {sent, taken, got, len} \subseteq [Clnt -> {0}] /\ holders \in [Clnt -> {{}}]
    BY DEF Init
  <2>2. /\ {sent, taken, got} \subseteq [Clnt -> Nat] /\ len \in [Clnt -> 0 .. BUF_SIZE]
        /\ SAVES \in Nat
    BY <2>1, StoreAssumption
  <2>3. /\ {pipe, file, disk} \subseteq Seq(Unit) /\ Len(pipe) <= PipeCap /\ backlog \in Seq(Clnt)
    BY StoreAssumption DEF Init
  <2>4. QED
    <3>1. {writer, reader} \subseteq [Clnt -> Process]
      BY <2>1 DEF Process
    <3>2. child \in [Clnt -> {"none", "read", "echo", "store", "exited"}]
      BY <2>1
    <3>3. link \in [Clnt -> {"none", "open", "half", "gone", "reset", "rst"}]
      BY <2>1
    <3>4. holders \in [Clnt -> SUBSET {"parent", "child"}]
      BY <2>1
    <3>5. /\ ppc = "accept" /\ psock = None /\ saves \in 0 .. SAVES /\ saver = "run"
          /\ zombies = 0 /\ sigchld = FALSE /\ merged = 0
      BY <2>2 DEF Init
    <3>6. QED
      BY <2>2, <2>3, <3>1, <3>2, <3>3, <3>4, <3>5 DEF TypeOK
<1>2. OnePlace /\ Ends /\ Echoes
  <2>1. \A c \in Clnt : /\ link[c] = "none" /\ writer[c] = "none" /\ reader[c] = "none"
                        /\ child[c] = "none" /\ sent[c] = 0 /\ taken[c] = 0 /\ got[c] = 0
    BY DEF Init
  <2>2. backlog = << >> /\ ppc = "accept" /\ psock = None /\ DOMAIN backlog = {}
    BY DEF Init
  <2>3. QED
    BY <2>1, <2>2, StoreAssumption DEF OnePlace, Ends, Echoes, Waiting, Busy
<1>3. Saved = << >> /\ DOMAIN Saved = {}
  BY DEF Init, Saved
<1>4. InOrder
  BY <1>3 DEF Init, InOrder, Kept, SavedOf
<1>5. OnDisk /\ ZombiesAreMergedSignals
  BY DEF Init, OnDisk, ZombiesAreMergedSignals
<1>6. QED
  BY <1>1, <1>2, <1>4, <1>5 DEF IInv

-----------------------------------------------------------------------------
(* Types. *)

LEMMA EndTyped ==
  ASSUME TypeOK, ProcessEnds
  PROVE  zombies' \in Nat /\ sigchld' \in BOOLEAN /\ merged' \in Nat
BY DEF TypeOK, ProcessEnds

LEMMA StepKeepsTypes ==
  ASSUME IInv, [Next]_vars
  PROVE  TypeOK'
<1> USE DEF IInv
<1>1. ASSUME NEW c \in Clnt, Connect(c) PROVE TypeOK'
  <2>1. backlog' \in Seq(Clnt)
    BY <1>1 DEF Connect, TypeOK
  <2>2. QED
    BY <1>1, <2>1 DEF Connect, TypeOK, Process
<1>2. ASSUME NEW c \in Clnt, WriteLine(c) PROVE TypeOK'
  <2>1. PICK k \in 1 .. BUF_SIZE : sent' = [sent EXCEPT ![c] = sent[c] + k]
    BY <1>2 DEF WriteLine
  <2>2. sent \in [Clnt -> Nat] /\ sent[c] + k \in Nat
    BY <2>1, StoreAssumption DEF TypeOK
  <2>3. sent' \in [Clnt -> Nat]
    BY <2>1, <2>2
  <2>4. QED
    BY <1>2, <2>3 DEF WriteLine, TypeOK
<1>3. ASSUME NEW c \in Clnt, Quit(c) \/ ReaderEof(c) \/ Interrupt(c) PROVE TypeOK'
  <2>1. link' \in [Clnt -> {"none", "open", "half", "gone", "reset", "rst"}]
    BY <1>3 DEF Quit, WriterEnds, ReaderEof, Interrupt, TypeOK
  <2>2. writer' \in [Clnt -> Process] /\ reader' \in [Clnt -> Process]
    BY <1>3 DEF Quit, WriterEnds, ReaderEof, Interrupt, TypeOK, Process
  <2>3. UNCHANGED <<sent, backlog, parent, serving, saving, signals>>
    BY <1>3 DEF Quit, WriterEnds, ReaderEof, Interrupt
  <2>4. QED
    BY <2>1, <2>2, <2>3 DEF TypeOK
<1>4. CASE Accept
  <2>1. Head(backlog) \in Clnt /\ Tail(backlog) \in Seq(Clnt)
    BY <1>4, HeadOfBacklog DEF Accept
  <2>2. QED
    BY <1>4, <2>1 DEF Accept, TypeOK
<1>5. CASE Fork \/ CloseClnt
  <2>1. psock \in Clnt
    BY <1>5 DEF Fork, CloseClnt, OnePlace
  <2>2. holders' \in [Clnt -> SUBSET {"parent", "child"}]
    <3>1. \/ holders' = [holders EXCEPT ![psock] = holders[psock] \cup {"child"}]
          \/ holders' = [holders EXCEPT ![psock] = holders[psock] \ {"parent"}]
          \/ holders' = holders
      BY <1>5 DEF Fork, CloseClnt
    <3>2. holders \in [Clnt -> SUBSET {"parent", "child"}]
      BY DEF TypeOK
    <3>3. /\ holders[psock] \cup {"child"} \in SUBSET {"parent", "child"}
          /\ holders[psock] \ {"parent"} \in SUBSET {"parent", "child"}
      BY <2>1, <3>2
    <3>4. QED
      BY <3>1, <3>2, <3>3
  <2>3. QED
    BY SMTT(30), <1>5, <2>1, <2>2 DEF Fork, CloseClnt, TypeOK
<1>6. CASE ReadChildproc
  <2>1. zombies' \in Nat
    BY <1>6 DEF ReadChildproc, Reap, TypeOK
  <2>2. QED
    BY <1>6, <2>1 DEF ReadChildproc, Reap, TypeOK
<1>7. ASSUME NEW c \in Clnt, ChildRead(c) PROVE TypeOK'
  <2>1. taken' \in [Clnt -> Nat] /\ len' \in [Clnt -> 0 .. BUF_SIZE]
    <3>1. PICK k \in 1 .. BUF_SIZE :
            taken' = [taken EXCEPT ![c] = taken[c] + k] /\ len' = [len EXCEPT ![c] = k]
      BY <1>7 DEF ChildRead
    <3>2. taken \in [Clnt -> Nat] /\ len \in [Clnt -> 0 .. BUF_SIZE] /\ BUF_SIZE \in Nat
      BY StoreAssumption DEF TypeOK
    <3>3. k \in 0 .. BUF_SIZE /\ taken[c] + k \in Nat
      BY <3>2
    <3>4. QED
      BY <3>1, <3>2, <3>3
  <2>2. QED
    BY SMTT(30), <1>7, <2>1 DEF ChildRead, ChildGoes, TypeOK
<1>8. ASSUME NEW c \in Clnt, ChildReadError(c) PROVE TypeOK'
  BY <1>8 DEF ChildReadError, TypeOK
<1>9. ASSUME NEW c \in Clnt, ChildEof(c) PROVE TypeOK'
  BY <1>9 DEF ChildEof, ChildGoes, ChildEnds, ProcessEnds, TypeOK
<1>10. ASSUME NEW c \in Clnt, ChildEcho(c) PROVE TypeOK'
  <2>1. got' \in [Clnt -> Nat]
    <3>1. got \in [Clnt -> Nat] /\ got[c] + len[c] \in Nat
      <4>1. got \in [Clnt -> Nat] /\ len \in [Clnt -> 0 .. BUF_SIZE] /\ BUF_SIZE \in Nat
        BY StoreAssumption DEF TypeOK
      <4>2. got[c] \in Nat /\ len[c] \in Nat
        BY <4>1
      <4>3. QED
        BY <4>1, <4>2
    <3>2. QED
      BY <1>10, <3>1 DEF ChildEcho
  <2>2. /\ link' \in [Clnt -> {"none", "open", "half", "gone", "reset", "rst"}]
        /\ child' \in [Clnt -> {"none", "read", "echo", "store", "exited"}]
    BY <1>10 DEF ChildEcho, ChildGoes, TypeOK
  <2>3. /\ holders' \in [Clnt -> SUBSET {"parent", "child"}]
        /\ zombies' \in Nat /\ sigchld' \in BOOLEAN /\ merged' \in Nat
    <3>1. CASE link[c] = "rst"
      <4>1. holders' = [holders EXCEPT ![c] = holders[c] \ {"child"}] /\ ProcessEnds
        BY <1>10, <3>1 DEF ChildEcho, ChildEnds
      <4>2. QED
        BY <4>1, EndTyped DEF TypeOK
    <3>2. CASE link[c] # "rst"
      BY <1>10, <3>2 DEF ChildEcho, TypeOK
    <3>3. QED
      BY <3>1, <3>2
  <2>4. QED
    BY <1>10, <2>1, <2>2, <2>3 DEF ChildEcho, TypeOK
<1>11. ASSUME NEW c \in Clnt, ChildStore(c) PROVE TypeOK'
  <2>1. /\ child[c] = "store" /\ child' = [child EXCEPT ![c] = "read"]
        /\ Len(pipe) + len[c] <= PipeCap /\ pipe' = pipe \o SubSeq(InHand(c), 1, len[c])
        /\ UNCHANGED <<client, parent, taken, got, len, holders, file, disk, saves, saver, signals>>
    BY <1>11 DEF ChildStore, Store, ChildGoes
  <2>2. InHand(c) \in Seq(Unit) /\ Len(InHand(c)) = len[c] /\ pipe' = pipe \o InHand(c)
    BY <2>1, InHandIs
  <2>3. pipe' \in Seq(Unit) /\ Len(pipe') = Len(pipe) + len[c]
    <3>1. pipe \in Seq(Unit)
      BY DEF TypeOK
    <3>2. pipe \o InHand(c) \in Seq(Unit) /\ Len(pipe \o InHand(c)) = Len(pipe) + Len(InHand(c))
      BY <2>2, <3>1, ConcatUnits
    <3>3. QED
      BY <2>2, <3>2
  <2>4. QED
    BY <2>1, <2>3 DEF TypeOK
<1>12. CASE SaverCopies
  <2>1. file' \in Seq(Unit) /\ pipe' \in Seq(Unit) /\ Len(pipe') \in Nat /\ Len(pipe') <= Len(pipe)
    BY <1>12, CopiesMoves DEF SaverCopies
  <2>2. saves' \in 0 .. SAVES /\ Len(pipe') <= PipeCap
    BY <1>12, <2>1, StoreAssumption DEF SaverCopies, Copies, TypeOK
  <2>3. QED
    BY <1>12, <2>1, <2>2 DEF SaverCopies, Copies, TypeOK
<1>13. CASE SaverExits \/ KillSaver
  <2>1. /\ ProcessEnds /\ saver' \in {"exited", "killed"} /\ disk' \in {file, disk}
        /\ UNCHANGED <<client, parent, serving, pipe, file, saves>>
    BY <1>13 DEF SaverExits, KillSaver, SaverEnds
  <2>2. QED
    BY <2>1, EndTyped DEF TypeOK
<1>14. CASE UNCHANGED vars
  BY <1>14 DEF vars, TypeOK
<1>15. QED
  BY <1>1, <1>2, <1>3, <1>4, <1>5, <1>6, <1>7, <1>8, <1>9, <1>10, <1>11, <1>12, <1>13, <1>14
  DEF Next, ClientStep, ParentStep, ChildStep, SaverStep

-----------------------------------------------------------------------------
(* Zombies and the file on disk. *)

LEMMA StepKeepsZombies ==
  ASSUME IInv, [Next]_vars
  PROVE  ZombiesAreMergedSignals'
<1> USE DEF IInv
<1>1. zombies \in Nat /\ merged \in Nat /\ sigchld \in BOOLEAN
  BY DEF TypeOK
<1>2. CASE ProcessEnds
  BY <1>1, <1>2 DEF ProcessEnds, ZombiesAreMergedSignals
<1>3. CASE ReadChildproc
  BY <1>1, <1>3 DEF ReadChildproc, Reap, ZombiesAreMergedSignals
<1>4. CASE UNCHANGED signals
  BY <1>4 DEF ZombiesAreMergedSignals
<1>5. ProcessEnds \/ ReadChildproc \/ UNCHANGED signals
  BY DEF Next, ClientStep, Connect, WriteLine, Quit, WriterEnds, ReaderEof, Interrupt, ParentStep,
         Accept, Fork, CloseClnt, ChildStep, ChildRead, ChildReadError, ChildEof, ChildEcho, ChildEnds,
         ChildStore, Store, SaverStep, SaverCopies, Copies, SaverExits, KillSaver, SaverEnds, vars
<1>6. QED
  BY <1>2, <1>3, <1>4, <1>5

LEMMA StepKeepsDisk ==
  ASSUME IInv, [Next]_vars
  PROVE  OnDisk'
<1> USE DEF IInv
<1>1. CASE SaverCopies
  BY <1>1 DEF SaverCopies, Copies, OnDisk
<1>2. CASE SaverExits \/ KillSaver
  BY <1>2 DEF SaverExits, KillSaver, SaverEnds, OnDisk
<1>3. CASE UNCHANGED <<file, disk, saves, saver>>
  BY <1>3 DEF OnDisk
<1>4. SaverCopies \/ SaverExits \/ KillSaver \/ UNCHANGED <<file, disk, saves, saver>>
  BY DEF Next, ClientStep, Connect, WriteLine, Quit, WriterEnds, ReaderEof, Interrupt, ParentStep,
         Accept, Fork, CloseClnt, ReadChildproc, Reap, ChildStep, ChildRead, ChildReadError, ChildEof,
         ChildEcho, ChildStore, Store, SaverStep, vars
<1>5. QED
  BY <1>1, <1>2, <1>3, <1>4

-----------------------------------------------------------------------------
(* Where the sockets are. *)

\* What a step of c's child does to the other children, and to its own.
ChildOf(c) ==
  /\ child[c] \in Busy /\ child'[c] \in Busy \cup {"exited"}
  /\ child'[c] \in Busy => "child" \in holders'[c]
  /\ \A d \in Clnt : d # c => child'[d] = child[d] /\ holders'[d] = holders[d]
  /\ \A d \in Clnt : link'[d] = link[d] \/ (d = c /\ link[d] \in {"gone", "reset"} /\ link'[d] = "rst")
  /\ UNCHANGED <<writer, reader, backlog, ppc, psock>>

LEMMA ChildStepOf ==
  ASSUME IInv, NEW c \in Clnt, ChildStep(c)
  PROVE  ChildOf(c)
<1> USE DEF IInv
<1>1. /\ child \in [Clnt -> {"none", "read", "echo", "store", "exited"}]
      /\ link \in [Clnt -> {"none", "open", "half", "gone", "reset", "rst"}]
      /\ holders \in [Clnt -> SUBSET {"parent", "child"}]
      /\ child[c] \in Busy => "child" \in holders[c]
  BY DEF TypeOK, OnePlace
<1>2. CASE ChildRead(c)
  BY <1>1, <1>2 DEF ChildRead, ChildGoes, ChildOf, Busy
<1>3. CASE ChildReadError(c)
  BY <1>1, <1>3 DEF ChildReadError, ChildOf, Busy
<1>4. CASE ChildEof(c)
  BY <1>1, <1>4 DEF ChildEof, ChildGoes, ChildEnds, ChildOf, Busy
<1>5. CASE ChildEcho(c)
  <2>1. CASE link[c] = "rst"
    BY <1>1, <1>5, <2>1 DEF ChildEcho, ChildGoes, ChildEnds, ChildOf, Busy
  <2>2. CASE link[c] # "rst"
    BY <1>1, <1>5, <2>2 DEF ChildEcho, ChildGoes, ChildOf, Busy
  <2>3. QED
    BY <2>1, <2>2
<1>6. CASE ChildStore(c)
  BY <1>1, <1>6 DEF ChildStore, Store, ChildGoes, ChildOf, Busy
<1>7. QED
  BY <1>2, <1>3, <1>4, <1>5, <1>6 DEF ChildStep

(* The other steps, but those of clients and of the parent. *)
LEMMA OtherSteps ==
  ASSUME [Next]_vars, \A c \in Clnt : ~ ClientStep(c) /\ ~ ChildStep(c),
         ~ Accept, ~ Fork, ~ CloseClnt
  PROVE  UNCHANGED <<client, parent, serving>>
BY DEF Next, ParentStep, ReadChildproc, Reap, SaverStep, SaverCopies, Copies, SaverExits,
       KillSaver, SaverEnds, vars

LEMMA StepKeepsOnePlace ==
  ASSUME IInv, [Next]_vars
  PROVE  OnePlace'
<1> USE DEF IInv
<1>1. ASSUME NEW c \in Clnt, Connect(c) PROVE OnePlace'
  <2>1. /\ link[c] = "none" /\ link' = [link EXCEPT ![c] = "open"]
        /\ reader' = [reader EXCEPT ![c] = "run"] /\ backlog' = Append(backlog, c)
        /\ UNCHANGED <<ppc, psock, child, holders>> /\ ~ Waiting(c) /\ c # psock /\ child[c] = "none"
    BY <1>1 DEF Connect, OnePlace
  <2>2. \A j, k \in DOMAIN backlog' : backlog'[j] = backlog'[k] => j = k
    BY <2>1, AppendToBacklog
  <2>3. \A d \in Clnt : Waiting(d)' => Waiting(d) \/ d = c
    BY <2>1, AppendToBacklog
  <2>4. \A d \in Clnt : d # c => link'[d] = link[d] /\ reader'[d] = reader[d]
    BY <2>1 DEF TypeOK
  <2>5. link'[c] = "open"
    BY <2>1 DEF TypeOK
  <2>6. QED
    BY <2>1, <2>2, <2>3, <2>4, <2>5 DEF OnePlace
<1>2. ASSUME NEW c \in Clnt, WriteLine(c) \/ Quit(c) \/ ReaderEof(c) \/ Interrupt(c) PROVE OnePlace'
  <2>1. UNCHANGED <<backlog, ppc, psock, child, holders>>
    BY <1>2 DEF WriteLine, Quit, WriterEnds, ReaderEof, Interrupt
  <2>2. \A d \in Clnt : link'[d] = "none" => link[d] = "none"
    BY <1>2 DEF WriteLine, Quit, WriterEnds, ReaderEof, Interrupt, TypeOK
  <2>3. \A d \in Clnt : link[d] = "none" => writer[d] # "run" /\ reader[d] = "none"
    BY DEF OnePlace, Ends
  <2>4. \A d \in Clnt : link[d] = "none" => reader'[d] = "none"
    BY <1>2, <2>3 DEF WriteLine, Quit, WriterEnds, ReaderEof, Interrupt, TypeOK
  <2>5. \A d \in Clnt : Waiting(d)' <=> Waiting(d)
    BY <2>1 DEF Waiting
  <2>6. QED
    BY <2>1, <2>2, <2>4, <2>5 DEF OnePlace
<1>3. CASE Accept
  <2>1. PICK h \in Clnt : h = Head(backlog) /\ Waiting(h)
    BY <1>3, HeadOfBacklog DEF Accept
  <2>2. /\ ppc' = "fork" /\ psock' = h /\ backlog' = Tail(backlog) /\ backlog # << >>
        /\ holders' = [holders EXCEPT ![h] = {"parent"}] /\ UNCHANGED <<link, reader, child>>
    BY <1>3, <2>1 DEF Accept
  <2>3. \A j, k \in DOMAIN backlog' : backlog'[j] = backlog'[k] => j = k
    BY <2>2, HeadOfBacklog
  <2>4. \A d \in Clnt : Waiting(d)' => Waiting(d) /\ d # h
    BY <2>1, <2>2, HeadOfBacklog DEF Waiting
  <2>5. child[h] = "none" /\ link[h] # "none"
    BY <2>1 DEF OnePlace
  <2>6. \A d \in Clnt : d # h => holders'[d] = holders[d]
    BY <2>2 DEF TypeOK
  <2>7. QED
    BY <2>2, <2>3, <2>4, <2>5, <2>6 DEF OnePlace, Busy
<1>4. CASE Fork
  <2>1. /\ ppc = "fork" /\ ppc' = "close" /\ psock \in Clnt
        /\ UNCHANGED <<link, reader, backlog, psock>> /\ link[psock] # "none" /\ ~ Waiting(psock)
    BY <1>4 DEF Fork, OnePlace
  <2>2. \/ /\ child' = [child EXCEPT ![psock] = "read"]
           /\ holders' = [holders EXCEPT ![psock] = holders[psock] \cup {"child"}]
        \/ child' = child /\ holders' = holders
    BY <1>4 DEF Fork
  <2>3. /\ \A d \in Clnt : d # psock => child'[d] = child[d] /\ holders'[d] = holders[d]
        /\ child'[psock] = "none" \/ (child'[psock] = "read" /\ "child" \in holders'[psock])
    BY <1>4, <2>1, <2>2 DEF OnePlace, TypeOK
  <2>4. \A d \in Clnt : Waiting(d)' <=> Waiting(d)
    BY <2>1 DEF Waiting
  <2>5. QED
    BY <2>1, <2>3, <2>4 DEF OnePlace, Busy
<1>5. CASE CloseClnt
  <2>1. /\ ppc = "close" /\ ppc' = "accept" /\ psock' = None /\ psock \in Clnt
        /\ holders' = [holders EXCEPT ![psock] = holders[psock] \ {"parent"}]
        /\ UNCHANGED <<link, reader, backlog, child>>
    BY <1>5 DEF CloseClnt, OnePlace
  <2>2. \A d \in Clnt : "child" \in holders[d] => "child" \in holders'[d]
    BY <2>1 DEF TypeOK
  <2>3. \A d \in Clnt : (Waiting(d)' <=> Waiting(d)) /\ d # psock'
    BY <2>1, StoreAssumption DEF Waiting
  <2>4. QED
    BY <2>1, <2>2, <2>3 DEF OnePlace
<1>6. ASSUME NEW c \in Clnt, ChildStep(c) PROVE OnePlace'
  <2>1. ChildOf(c)
    BY <1>6, ChildStepOf
  <2>2. ppc = "fork" => psock # c
    BY <2>1 DEF ChildOf, OnePlace, Busy
  <2>3. \A d \in Clnt : Waiting(d)' <=> Waiting(d)
    BY <2>1 DEF Waiting, ChildOf
  <2>4. \A d \in Clnt : link'[d] = "none" => link[d] = "none" /\ d # c
    BY <2>1 DEF ChildOf, OnePlace, Busy
  <2>5. Waiting(c) => FALSE
    BY <2>1 DEF ChildOf, OnePlace, Busy
  <2>6. QED
    BY <2>1, <2>2, <2>3, <2>4, <2>5 DEF ChildOf, OnePlace
<1>7. CASE UNCHANGED <<client, parent, serving>>
  BY <1>7 DEF OnePlace, Waiting
<1>8. QED
  BY <1>1, <1>2, <1>3, <1>4, <1>5, <1>6, <1>7, OtherSteps DEF ClientStep

LEMMA StepKeepsEnds ==
  ASSUME IInv, [Next]_vars
  PROVE  Ends'
<1> USE DEF IInv
<1>1. ASSUME NEW c \in Clnt, Connect(c) PROVE Ends'
  <2>1. /\ link' = [link EXCEPT ![c] = "open"] /\ writer' = [writer EXCEPT ![c] = "run"]
        /\ reader' = [reader EXCEPT ![c] = "run"] /\ backlog' = Append(backlog, c)
        /\ UNCHANGED <<psock, child>> /\ ~ Waiting(c)
    BY <1>1 DEF Connect, OnePlace
  <2>2. \A d \in Clnt : Waiting(d)' => Waiting(d) \/ d = c
    BY <2>1, AppendToBacklog
  <2>3. /\ link'[c] = "open" /\ reader'[c] = "run"
        /\ \A d \in Clnt : d # c =>
             link'[d] = link[d] /\ writer'[d] = writer[d] /\ reader'[d] = reader[d]
    BY <2>1 DEF TypeOK
  <2>4. QED
    BY <2>1, <2>2, <2>3 DEF Ends
<1>2. ASSUME NEW c \in Clnt, WriteLine(c) \/ Quit(c) PROVE Ends'
  <2>1. /\ UNCHANGED <<reader, backlog, psock, child>>
        /\ \A d \in Clnt : d # c => link'[d] = link[d] /\ writer'[d] = writer[d]
    BY <1>2 DEF WriteLine, Quit, WriterEnds, TypeOK
  <2>2. \/ link'[c] = link[c] /\ writer'[c] = writer[c]
        \/ writer'[c] = "done" /\ link'[c] = (IF link[c] = "open" THEN "half" ELSE link[c])
    BY <1>2 DEF WriteLine, Quit, WriterEnds, TypeOK
  <2>3. \A d \in Clnt : Waiting(d)' <=> Waiting(d)
    BY <2>1 DEF Waiting
  <2>4. QED
    BY <2>1, <2>2, <2>3 DEF Ends
<1>3. ASSUME NEW c \in Clnt, ReaderEof(c) PROVE Ends'
  <2>1. /\ reader[c] = "run" /\ reader' = [reader EXCEPT ![c] = "done"] /\ c # psock
        /\ ~ Waiting(c) /\ holders[c] = {} /\ UNCHANGED <<link, writer, backlog, psock, child>>
    BY <1>3 DEF ReaderEof, Waiting
  <2>2. child[c] \in {"none", "exited"}
    BY <2>1 DEF OnePlace, Busy, TypeOK
  <2>3. reader'[c] = "done" /\ \A d \in Clnt : d # c => reader'[d] = reader[d]
    BY <2>1 DEF TypeOK
  <2>4. \A d \in Clnt : Waiting(d)' <=> Waiting(d)
    BY <2>1 DEF Waiting
  <2>5. QED
    BY <2>1, <2>2, <2>3, <2>4 DEF Ends
<1>4. ASSUME NEW c \in Clnt, Interrupt(c) PROVE Ends'
  <2>1. /\ writer'[c] = "killed" /\ reader'[c] = "killed"
        /\ \A d \in Clnt : d # c =>
             link'[d] = link[d] /\ writer'[d] = writer[d] /\ reader'[d] = reader[d]
        /\ UNCHANGED <<backlog, psock, child>>
    BY <1>4 DEF Interrupt, TypeOK
  <2>2. \A d \in Clnt : Waiting(d)' <=> Waiting(d)
    BY <2>1 DEF Waiting
  <2>3. QED
    BY <2>1, <2>2 DEF Ends
<1>5. CASE Accept
  <2>1. PICK h \in Clnt : h = Head(backlog) /\ Waiting(h)
    BY <1>5, HeadOfBacklog DEF Accept
  <2>2. /\ psock' = h /\ backlog' = Tail(backlog) /\ backlog # << >>
        /\ UNCHANGED <<link, writer, reader, child>>
    BY <1>5, <2>1 DEF Accept
  <2>3. \A d \in Clnt : Waiting(d)' => Waiting(d)
    BY <2>1, <2>2, HeadOfBacklog DEF Waiting
  <2>4. QED
    BY <2>1, <2>2, <2>3 DEF Ends
<1>6. CASE Fork \/ CloseClnt
  <2>1. /\ psock \in Clnt /\ psock' \in {psock, None} /\ UNCHANGED <<link, writer, reader, backlog>>
    BY <1>6 DEF Fork, CloseClnt, OnePlace
  <2>2. \A d \in Clnt : d # psock => child'[d] = child[d] /\ d # psock'
    BY <1>6, <2>1, StoreAssumption DEF Fork, CloseClnt, TypeOK
  <2>3. \A d \in Clnt : Waiting(d)' <=> Waiting(d)
    BY <2>1 DEF Waiting
  <2>4. QED
    BY <2>1, <2>2, <2>3 DEF Ends
<1>7. ASSUME NEW c \in Clnt, ChildStep(c) PROVE Ends'
  <2>1. ChildOf(c)
    BY <1>7, ChildStepOf
  <2>2. reader[c] # "done"
    BY <2>1 DEF ChildOf, Ends, Busy
  <2>3. \A d \in Clnt : Waiting(d)' <=> Waiting(d)
    BY <2>1 DEF Waiting, ChildOf
  <2>4. QED
    BY <2>1, <2>2, <2>3 DEF ChildOf, Ends
<1>8. CASE UNCHANGED <<client, parent, serving>>
  BY <1>8 DEF Ends, Waiting
<1>9. QED
  BY <1>1, <1>2, <1>3, <1>4, <1>5, <1>6, <1>7, <1>8, OtherSteps DEF ClientStep

-----------------------------------------------------------------------------
(* Echoes and what is saved. *)

LEMMA Amounts ==
  ASSUME TypeOK, NEW c \in Clnt
  PROVE  sent[c] \in Nat /\ taken[c] \in Nat /\ got[c] \in Nat /\ len[c] \in Nat
BY StoreAssumption DEF TypeOK

(* A step that reads and echoes nothing. *)
LEMMA EchoesStay ==
  ASSUME IInv, NEW c \in Clnt, taken'[c] = taken[c], got'[c] = got[c], len'[c] = len[c],
         sent'[c] = sent[c] \/ (sent'[c] >= sent[c] /\ sent'[c] \in Nat /\ writer[c] = "run"),
         child'[c] = child[c] \/ (child[c] = "none" /\ child'[c] = "read"),
         \/ link'[c] = link[c] \/ link'[c] \in {"gone", "reset", "rst"}
         \/ (link[c] = "none" /\ link'[c] = "open") \/ (link[c] = "open" /\ link'[c] = "half")
  PROVE  /\ taken'[c] <= sent'[c]
         /\ child'[c] = "none" => taken'[c] = 0
         /\ child'[c] \in {"echo", "store"} => len'[c] <= taken'[c]
         /\ link'[c] \in {"none", "open", "half"} =>
              /\ got'[c] = taken'[c] - (IF child'[c] = "echo" THEN len'[c] ELSE 0)
              /\ child'[c] = "exited" => link'[c] = "half" /\ taken'[c] = sent'[c]
<1>1. sent[c] \in Nat /\ taken[c] \in Nat /\ got[c] \in Nat /\ len[c] \in Nat
  BY Amounts DEF IInv
<1>2. writer[c] = "run" => link[c] = "open"
  BY DEF IInv, Ends
<1>3. child[c] = "exited" => link[c] # "none"
  BY DEF IInv, OnePlace
<1>4. QED
  BY <1>1, <1>2, <1>3 DEF IInv, Echoes

LEMMA StepKeepsEchoes ==
  ASSUME IInv, [Next]_vars
  PROVE  Echoes'
<1> USE DEF IInv
<1> SUFFICES ASSUME NEW c \in Clnt
             PROVE  /\ taken'[c] <= sent'[c]
                    /\ child'[c] = "none" => taken'[c] = 0
                    /\ child'[c] \in {"echo", "store"} => len'[c] <= taken'[c]
                    /\ link'[c] \in {"none", "open", "half"} =>
                         /\ got'[c] = taken'[c] - (IF child'[c] = "echo" THEN len'[c] ELSE 0)
                         /\ child'[c] = "exited" => link'[c] = "half" /\ taken'[c] = sent'[c]
  BY DEF Echoes
<1>1. sent[c] \in Nat /\ taken[c] \in Nat /\ got[c] \in Nat /\ len[c] \in Nat
  BY Amounts
<1>2. ASSUME NEW d \in Clnt, Connect(d) \/ Quit(d) \/ ReaderEof(d) \/ Interrupt(d)
      PROVE  /\ UNCHANGED <<sent, serving>>
             /\ \/ link'[c] = link[c] \/ link'[c] \in {"gone", "reset", "rst"}
                \/ (link[c] = "none" /\ link'[c] = "open") \/ (link[c] = "open" /\ link'[c] = "half")
  <2>1. UNCHANGED <<sent, serving>>
    BY <1>2 DEF Connect, Quit, WriterEnds, ReaderEof, Interrupt
  <2>2. link \in [Clnt -> {"none", "open", "half", "gone", "reset", "rst"}]
    BY DEF TypeOK
  <2>3. CASE Connect(d)
    <3>1. link[d] = "none" /\ link' = [link EXCEPT ![d] = "open"]
      BY <2>3 DEF Connect
    <3>2. link'[c] = IF c = d THEN "open" ELSE link[c]
      BY <2>2, <3>1
    <3>3. QED
      BY <2>1, <3>1, <3>2
  <2>4. CASE Quit(d)
    BY <2>2, <2>4 DEF Quit, WriterEnds
  <2>5. CASE ReaderEof(d) \/ Interrupt(d)
    BY <2>2, <2>5 DEF ReaderEof, Interrupt
  <2>6. QED
    BY <1>2, <2>1, <2>3, <2>4, <2>5
<1>3. ASSUME NEW d \in Clnt, WriteLine(d)
      PROVE  /\ UNCHANGED <<link, serving>>
             /\ sent'[c] = sent[c] \/ (sent'[c] >= sent[c] /\ sent'[c] \in Nat /\ writer[c] = "run")
  <2>1. PICK k \in 1 .. BUF_SIZE : sent' = [sent EXCEPT ![d] = sent[d] + k]
    BY <1>3 DEF WriteLine
  <2>2. k \in Nat /\ sent \in [Clnt -> Nat]
    BY StoreAssumption DEF TypeOK
  <2>3. d # c => sent'[c] = sent[c]
    BY <2>1, <2>2
  <2>4. d = c => sent'[c] = sent[c] + k /\ writer[c] = "run"
    BY <1>3, <2>1, <2>2 DEF WriteLine
  <2>5. QED
    BY <1>1, <1>3, <2>2, <2>3, <2>4 DEF WriteLine
<1>4. CASE Accept \/ Fork \/ CloseClnt
  <2>1. UNCHANGED <<link, sent, taken, got, len>>
    BY <1>4 DEF Accept, Fork, CloseClnt
  <2>2. child'[c] = child[c] \/ (child[c] = "none" /\ child'[c] = "read")
    BY <1>4 DEF Accept, Fork, CloseClnt, OnePlace, TypeOK
  <2>3. QED
    BY <2>1, <2>2, EchoesStay
<1>5. ASSUME NEW d \in Clnt, ChildStep(d), d # c
      PROVE  /\ UNCHANGED sent /\ link'[c] = link[c] /\ child'[c] = child[c]
             /\ taken'[c] = taken[c] /\ got'[c] = got[c] /\ len'[c] = len[c]
  <2>1. link'[c] = link[c] /\ child'[c] = child[c]
    BY <1>5, ChildStepOf DEF ChildOf
  <2>2. taken'[c] = taken[c] /\ got'[c] = got[c] /\ len'[c] = len[c] /\ UNCHANGED sent
    BY <1>5 DEF ChildStep, ChildRead, ChildReadError, ChildEof, ChildEcho, ChildStore, Store, TypeOK
  <2>3. QED
    BY <2>1, <2>2
<1>6. CASE ChildRead(c)
  <2>1. PICK k \in 1 .. BUF_SIZE :
          /\ taken[c] + k <= sent[c]
          /\ taken' = [taken EXCEPT ![c] = taken[c] + k] /\ len' = [len EXCEPT ![c] = k]
    BY <1>6 DEF ChildRead
  <2>2. k \in Nat /\ taken'[c] = taken[c] + k /\ len'[c] = k
    BY <2>1, StoreAssumption DEF TypeOK
  <2>3. child[c] = "read" /\ child'[c] = "echo" /\ UNCHANGED <<link, sent, got>>
    BY <1>6 DEF ChildRead, ChildGoes, TypeOK
  <2>4. QED
    BY <1>1, <2>1, <2>2, <2>3 DEF Echoes
<1>7. CASE ChildReadError(c)
  BY <1>7, EchoesStay DEF ChildReadError, TypeOK
<1>8. CASE ChildEof(c)
  <2>1. /\ child[c] = "read" /\ child'[c] = "exited" /\ taken[c] = sent[c]
        /\ link[c] \in {"half", "gone", "rst"} /\ UNCHANGED <<link, sent, taken, got, len>>
    BY <1>8 DEF ChildEof, ChildGoes, AtEof, TypeOK
  <2>2. QED
    BY <1>1, <2>1 DEF Echoes
<1>9. CASE ChildEcho(c)
  <2>1. /\ child[c] = "echo" /\ child'[c] = (IF link[c] = "rst" THEN "exited" ELSE "store")
        /\ UNCHANGED <<sent, taken, len>> /\ link[c] # "none"
    BY <1>9 DEF ChildEcho, ChildGoes, OnePlace, TypeOK
  <2>2. got'[c] = IF link[c] \in {"open", "half"} THEN got[c] + len[c] ELSE got[c]
    BY <1>9 DEF ChildEcho, TypeOK
  <2>3. link'[c] = IF link[c] \in {"gone", "reset"} THEN "rst" ELSE link[c]
    BY <1>9 DEF ChildEcho, TypeOK
  <2>4. QED
    BY <1>1, <2>1, <2>2, <2>3 DEF Echoes
<1>10. CASE ChildStore(c)
  <2>1. /\ child[c] = "store" /\ child'[c] = "read" /\ UNCHANGED <<link, sent, taken, got, len>>
    BY <1>10 DEF ChildStore, Store, ChildGoes, TypeOK
  <2>2. QED
    BY <1>1, <2>1 DEF Echoes
<1>11. CASE UNCHANGED <<client, parent, serving>>
  BY <1>11 DEF Echoes
<1>12. QED
  <2>1. ASSUME NEW d \in Clnt, ClientStep(d)
        PROVE  \/ UNCHANGED serving /\ sent'[c] = sent[c]
                  /\ \/ link'[c] = link[c] \/ link'[c] \in {"gone", "reset", "rst"}
                     \/ (link[c] = "none" /\ link'[c] = "open") \/ (link[c] = "open" /\ link'[c] = "half")
               \/ UNCHANGED <<link, serving>>
                  /\ (sent'[c] = sent[c] \/ (sent'[c] >= sent[c] /\ sent'[c] \in Nat /\ writer[c] = "run"))
    BY <1>2, <1>3, <2>1 DEF ClientStep
  <2>2. CASE \E d \in Clnt : ClientStep(d)
    BY <2>1, <2>2, EchoesStay
  <2>3. CASE \E d \in Clnt : ChildStep(d) /\ d # c
    BY <1>5, <2>3, EchoesStay
  <2>4. CASE ChildStep(c)
    BY <1>6, <1>7, <1>8, <1>9, <1>10, <2>4 DEF ChildStep
  <2>5. QED
    BY <1>4, <1>11, <2>2, <2>3, <2>4, OtherSteps

(* What is in the file and the pipe, when nothing is put into it. *)
LEMMA InOrderStays ==
  ASSUME IInv, Saved' = Saved,
         \A c \in Clnt : \/ taken'[c] = taken[c] /\ len'[c] = len[c]
                            /\ \/ child'[c] = child[c] \/ child'[c] = "exited"
                               \/ child[c] = "none" /\ child'[c] = "read"
                               \/ child[c] = "echo" /\ child'[c] = "store"
                         \/ /\ child[c] = "read" /\ child'[c] = "echo" /\ len'[c] \in Nat
                            /\ taken'[c] = taken[c] + len'[c]
  PROVE  InOrder'
<1>1. \A i, j \in DOMAIN Saved' :
        i < j /\ Saved'[i][1] = Saved'[j][1] => Saved'[i][2] < Saved'[j][2]
  BY DEF IInv, InOrder
<1>2. ASSUME NEW c \in Clnt
      PROVE  \E n \in 0 .. taken'[c] : Kept(c, n)'
  <2>1. PICK n \in 0 .. taken[c] : Kept(c, n)
    BY DEF IInv, InOrder
  <2>2. taken[c] \in Nat /\ len[c] \in Nat
    BY Amounts DEF IInv
  <2>3. SavedOf(c)' = SavedOf(c)
    BY DEF SavedOf
  <2>4. n \in 0 .. taken'[c]
    BY <2>1, <2>2
  <2>5. Kept(c, n)'
    BY <2>1, <2>2, <2>3 DEF Kept
  <2>6. QED
    BY <2>4, <2>5
<1>3. QED
  BY <1>1, <1>2 DEF InOrder

(* A child puts what it has in hand after all that is there. *)
LEMMA StoreKeepsInOrder ==
  ASSUME IInv, NEW c \in Clnt, ChildStore(c)
  PROVE  InOrder'
<1> USE DEF IInv
<1>1. /\ child[c] = "store" /\ child' = [child EXCEPT ![c] = "read"]
      /\ pipe' = pipe \o SubSeq(InHand(c), 1, len[c]) /\ UNCHANGED <<taken, len, file>>
  BY DEF ChildStore, Store, ChildGoes
<1>2. /\ len[c] \in Nat /\ taken[c] \in Nat /\ len[c] <= taken[c]
      /\ InHand(c) \in Seq(Unit) /\ Len(InHand(c)) = len[c] /\ pipe' = pipe \o InHand(c)
      /\ \A k \in 1 .. len[c] : InHand(c)[k] = <<c, taken[c] - len[c] + k>>
  BY <1>1, InHandIs
<1>3. PICK h \in Seq(Unit) : h = InHand(c)
  BY <1>2
<1>4. Saved \in Seq(Unit) /\ Len(Saved) \in Nat /\ DOMAIN Saved = 1 .. Len(Saved)
  <2>1. file \in Seq(Unit) /\ pipe \in Seq(Unit)
    BY DEF TypeOK
  <2>2. QED
    BY <2>1, ConcatUnits DEF Saved
<1>5. Saved' = Saved \o h
  <2>1. PICK f \in Seq(Unit), p \in Seq(Unit) : f = file /\ p = pipe
    BY DEF TypeOK
  <2>2. f \o (p \o h) = (f \o p) \o h
    OBVIOUS
  <2>3. QED
    BY <1>1, <1>2, <1>3, <2>1, <2>2 DEF Saved
<1>6. /\ DOMAIN Saved' = 1 .. Len(Saved) + len[c]
      /\ \A i \in 1 .. Len(Saved) : Saved'[i] = Saved[i]
      /\ \A i \in Len(Saved) + 1 .. Len(Saved) + len[c] :
           Saved'[i] = <<c, taken[c] - len[c] + (i - Len(Saved))>>
  BY SMTT(30), <1>2, <1>3, <1>4, <1>5, ConcatUnits
<1>7. PICK n \in 0 .. taken[c] : Kept(c, n)
  BY DEF InOrder
<1>8. n = taken[c] - len[c] /\ SavedOf(c) = {c} \X (1 .. n)
  BY <1>1, <1>7 DEF Kept
<1>9. \A i \in 1 .. Len(Saved) : Saved[i] \in Unit /\ (Saved[i][1] = c => Saved[i][2] \in 1 .. n)
  <2> SUFFICES ASSUME NEW i \in 1 .. Len(Saved)
               PROVE  Saved[i] \in Unit /\ (Saved[i][1] = c => Saved[i][2] \in 1 .. n)
    OBVIOUS
  <2>1. Saved[i] \in Unit
    BY <1>4
  <2>2. Saved[i][1] = c => Saved[i] \in SavedOf(c)
    BY <1>4 DEF SavedOf
  <2>3. QED
    BY <1>8, <2>1, <2>2 DEF Unit
<1>10. ASSUME NEW i \in DOMAIN Saved', NEW j \in DOMAIN Saved', i < j, Saved'[i][1] = Saved'[j][1]
       PROVE  Saved'[i][2] < Saved'[j][2]
  <2>1. i \in Int /\ j \in Int /\ 1 <= i /\ j <= Len(Saved) + len[c]
    BY <1>2, <1>4, <1>6
  <2>2. CASE j <= Len(Saved)
    BY <1>4, <1>6, <1>10, <2>1, <2>2 DEF InOrder
  <2>3. CASE j > Len(Saved) /\ i > Len(Saved)
    <3>1. i \in Len(Saved) + 1 .. Len(Saved) + len[c] /\ j \in Len(Saved) + 1 .. Len(Saved) + len[c]
      BY <1>2, <1>4, <1>10, <2>1, <2>3
    <3>2. /\ Saved'[i] = <<c, taken[c] - len[c] + (i - Len(Saved))>>
          /\ Saved'[j] = <<c, taken[c] - len[c] + (j - Len(Saved))>>
      BY <1>6, <3>1
    <3>3. Saved'[i][2] = taken[c] - len[c] + (i - Len(Saved))
          /\ Saved'[j][2] = taken[c] - len[c] + (j - Len(Saved))
      BY <3>2
    <3>4. QED
      BY <1>2, <1>4, <1>10, <2>1, <3>3
  <2>4. CASE j > Len(Saved) /\ i <= Len(Saved)
    <3>1. Saved'[j] = <<c, n + (j - Len(Saved))>> /\ Saved'[i] = Saved[i] /\ i \in 1 .. Len(Saved)
      BY SMTT(30), <1>2, <1>4, <1>6, <1>8, <2>1, <2>4
    <3>2. Saved[i][2] \in 1 .. n
      BY <1>9, <1>10, <3>1
    <3>3. QED
      BY <1>2, <1>4, <1>7, <2>1, <2>4, <3>1, <3>2
  <2>5. QED
    BY <1>4, <2>1, <2>2, <2>3, <2>4
<1>11. SavedOf(c)' = {c} \X (1 .. taken[c])
  <2>1. ASSUME NEW u, u \in SavedOf(c)' PROVE u \in {c} \X (1 .. taken[c])
    <3>1. PICK i \in DOMAIN Saved' : u = Saved'[i] /\ u[1] = c
      BY <2>1 DEF SavedOf
    <3>2. CASE i <= Len(Saved)
      <4>1. i \in 1 .. Len(Saved) /\ u = Saved[i]
        BY <1>2, <1>4, <1>6, <3>1, <3>2
      <4>2. u \in SavedOf(c)
        BY <1>4, <3>1, <4>1 DEF SavedOf
      <4>3. QED
        BY <1>2, <1>7, <1>8, <4>2
    <3>3. CASE i > Len(Saved)
      <4>1. i \in Int /\ i <= Len(Saved) + len[c] /\ u = <<c, taken[c] - len[c] + (i - Len(Saved))>>
        BY <1>2, <1>4, <1>6, <3>1, <3>3
      <4>2. QED
        BY <1>2, <1>4, <3>3, <4>1
    <3>4. QED
      BY <1>2, <1>4, <1>6, <3>1, <3>2, <3>3
  <2>2. ASSUME NEW m \in 1 .. taken[c] PROVE <<c, m>> \in SavedOf(c)'
    <3>1. CASE m <= n
      <4>1. <<c, m>> \in SavedOf(c)
        BY <1>2, <1>7, <1>8, <3>1
      <4>2. PICK i \in DOMAIN Saved : Saved[i] = <<c, m>>
        BY <4>1 DEF SavedOf
      <4>3. i \in DOMAIN Saved' /\ Saved'[i] = <<c, m>>
        BY <1>2, <1>4, <1>6, <4>2
      <4>4. QED
        BY <4>3 DEF SavedOf
    <3>2. CASE m > n
      <4>1. Len(Saved) + (m - n) \in Len(Saved) + 1 .. Len(Saved) + len[c]
        BY SMTT(30), <1>2, <1>4, <1>7, <1>8, <3>2
      <4>2. Saved'[Len(Saved) + (m - n)] = <<c, m>>
        <5>1. PICK i \in Len(Saved) + 1 .. Len(Saved) + len[c] : i = Len(Saved) + (m - n)
          BY <4>1
        <5>2. Saved'[i] = <<c, taken[c] - len[c] + (i - Len(Saved))>>
          BY <1>6
        <5>3. taken[c] - len[c] + (i - Len(Saved)) = m
          BY <1>2, <1>4, <1>7, <1>8, <5>1
        <5>4. QED
          BY <5>1, <5>2, <5>3
      <4>3. Len(Saved) + (m - n) \in DOMAIN Saved'
        BY <1>2, <1>4, <1>6, <4>1
      <4>4. QED
        BY <4>2, <4>3 DEF SavedOf
    <3>3. QED
      BY <1>2, <1>7, <3>1, <3>2
  <2>3. QED
    BY <2>1, <2>2
<1>12. ASSUME NEW d \in Clnt PROVE \E k \in 0 .. taken'[d] : Kept(d, k)'
  <2>1. CASE d = c
    <3>1. child'[c] = "read" /\ taken'[c] = taken[c]
      BY <1>1 DEF TypeOK
    <3>2. Kept(c, taken[c])'
      BY <1>11, <3>1 DEF Kept
    <3>3. QED
      BY <1>2, <2>1, <3>1, <3>2
  <2>2. CASE d # c
    <3>1. PICK k \in 0 .. taken[d] : Kept(d, k)
      BY DEF InOrder
    <3>2. SavedOf(d)' = SavedOf(d)
      <4>1. ASSUME NEW u, u[1] = d
            PROVE  (\E i \in DOMAIN Saved' : Saved'[i] = u) <=> (\E i \in DOMAIN Saved : Saved[i] = u)
        <5>1. ASSUME NEW i \in DOMAIN Saved', Saved'[i] = u PROVE i \in DOMAIN Saved /\ Saved[i] = u
          BY <1>2, <1>4, <1>6, <2>2, <4>1, <5>1
        <5>2. ASSUME NEW i \in DOMAIN Saved, Saved[i] = u PROVE i \in DOMAIN Saved' /\ Saved'[i] = u
          BY <1>2, <1>4, <1>6, <5>2
        <5>3. QED
          BY <5>1, <5>2
      <4>2. QED
        BY <4>1 DEF SavedOf
    <3>3. child'[d] = child[d] /\ taken'[d] = taken[d] /\ len'[d] = len[d]
      BY <1>1, <2>2 DEF TypeOK
    <3>4. QED
      BY <3>1, <3>2, <3>3 DEF Kept
  <2>3. QED
    BY <2>1, <2>2
<1>13. QED
  BY <1>10, <1>12 DEF InOrder

LEMMA StepKeepsInOrder ==
  ASSUME IInv, [Next]_vars
  PROVE  InOrder'
<1> USE DEF IInv
<1>1. ASSUME NEW c \in Clnt, ChildStep(c), ~ ChildStore(c)
      PROVE  InOrder'
  <2>1. Saved' = Saved
    BY <1>1 DEF ChildStep, ChildRead, ChildReadError, ChildEof, ChildEcho, Saved
  <2>2. ASSUME NEW d \in Clnt, d # c
        PROVE  taken'[d] = taken[d] /\ len'[d] = len[d] /\ child'[d] = child[d]
    <3>1. child'[d] = child[d]
      BY <1>1, <2>2, ChildStepOf DEF ChildOf
    <3>2. taken'[d] = taken[d] /\ len'[d] = len[d]
      BY <1>1, <2>2 DEF ChildStep, ChildRead, ChildReadError, ChildEof, ChildEcho, TypeOK
    <3>3. QED
      BY <3>1, <3>2
  <2>3. CASE ChildRead(c)
    <3>1. PICK k \in 1 .. BUF_SIZE :
            taken' = [taken EXCEPT ![c] = taken[c] + k] /\ len' = [len EXCEPT ![c] = k]
      BY <2>3 DEF ChildRead
    <3>2. /\ k \in Nat /\ taken'[c] = taken[c] + k /\ len'[c] = k
          /\ child[c] = "read" /\ child'[c] = "echo"
      BY <2>3, <3>1, StoreAssumption DEF ChildRead, ChildGoes, TypeOK
    <3>3. QED
      BY <2>1, <2>2, <3>2, InOrderStays
  <2>4. CASE ~ ChildRead(c)
    <3>1. taken'[c] = taken[c] /\ len'[c] = len[c]
      BY <1>1, <2>4 DEF ChildStep, ChildReadError, ChildEof, ChildEcho
    <3>2. child'[c] = child[c] \/ child'[c] = "exited" \/ (child[c] = "echo" /\ child'[c] = "store")
      BY <1>1, <2>4 DEF ChildStep, ChildReadError, ChildEof, ChildEcho, ChildGoes, TypeOK
    <3>3. QED
      BY <2>1, <2>2, <3>1, <3>2, InOrderStays
  <2>5. QED
    BY <2>3, <2>4
<1>2. CASE SaverCopies
  <2>1. Saved' = Saved
    BY <1>2, CopiesMoves DEF SaverCopies
  <2>2. UNCHANGED <<taken, len, child>>
    BY <1>2 DEF SaverCopies, Copies
  <2>3. QED
    BY <2>1, <2>2, InOrderStays
<1>3. CASE Fork
  <2>1. UNCHANGED <<taken, len, file, pipe>>
    BY <1>3 DEF Fork
  <2>2. \A c \in Clnt : child'[c] = child[c] \/ (child[c] = "none" /\ child'[c] = "read")
    BY <1>3 DEF Fork, OnePlace, TypeOK
  <2>3. Saved' = Saved
    BY <2>1 DEF Saved
  <2>4. QED
    BY <2>1, <2>2, <2>3, InOrderStays
<1>4. CASE UNCHANGED <<taken, len, child, file, pipe>>
  <2>1. Saved' = Saved
    BY <1>4 DEF Saved
  <2>2. QED
    BY <1>4, <2>1, InOrderStays
<1>5. QED
  <2>1. \/ \E c \in Clnt : ChildStep(c)
        \/ SaverCopies \/ Fork \/ UNCHANGED <<taken, len, child, file, pipe>>
    BY DEF Next, ClientStep, Connect, WriteLine, Quit, WriterEnds, ReaderEof, Interrupt, ParentStep,
           Accept, CloseClnt, ReadChildproc, Reap, SaverStep, SaverExits, KillSaver, SaverEnds, vars
  <2>2. QED
    BY <1>1, <1>2, <1>3, <1>4, <2>1, StoreKeepsInOrder

-----------------------------------------------------------------------------

(* All of it holds of every behaviour. *)
THEOREM Invariance == Spec => []IInv
<1>1. IInv /\ [Next]_vars => IInv'
  BY StepKeepsTypes, StepKeepsOnePlace, StepKeepsEnds, StepKeepsEchoes, StepKeepsInOrder,
     StepKeepsDisk, StepKeepsZombies DEF IInv
<1>2. QED
  BY <1>1, InitIInv, PTL DEF Spec

(* Every variable keeps its type, and the pipe its size.                   *)
THEOREM TypeCorrect == Spec => []TypeOK
BY Invariance, PTL DEF IInv

(* What is saved is each client's data in its order and without a gap,     *)
(* however the children's writes interleave and the saver's reads cut them.*)
THEOREM SavesInOrder == Spec => []StoredInOrder
<1>1. IInv => StoredInOrder
  BY DEF IInv, InOrder, Kept, StoredInOrder
<1>2. QED
  BY <1>1, Invariance, PTL

(* The file on disk is all that was read, or empty.                        *)
THEOREM AllOrNothing == Spec => []DiskAllOrNothing
<1>1. IInv => DiskAllOrNothing
  BY DEF IInv, TypeOK, OnDisk, DiskAllOrNothing
<1>2. QED
  BY <1>1, Invariance, PTL

(* A client that typed "q" and sees end of file has its echoes.            *)
THEOREM EchoesFirst == Spec => []EofAfterEcho
<1>1. IInv => EofAfterEcho
  <2> SUFFICES ASSUME IInv, NEW c \in Clnt, reader[c] = "done", child[c] # "none"
               PROVE  got[c] = sent[c]
    BY DEF EofAfterEcho
  <2>1. child[c] = "exited" /\ link[c] \in {"open", "half"}
    BY DEF IInv, Ends
  <2>2. QED
    BY <2>1, Amounts DEF IInv, Echoes
<1>2. QED
  BY <1>1, Invariance, PTL

(* The zombies are the merged signals.                                     *)
THEOREM ZombiesCounted == Spec => []ZombiesAreMergedSignals
BY Invariance, PTL DEF IInv
=============================================================================
