--------------------------- MODULE SelectEchoProofs ---------------------------
(***************************************************************************)
(* What SelectEcho keeps for every number of connections and descriptors   *)
(* and every size of the buffer.  That the scan finds what select() saw    *)
(* needs that no two descriptors are of one connection: else reading one   *)
(* would empty the other.  That in turn needs that a connection waits for  *)
(* accept() once only, and no more after it was accepted.                  *)
(***************************************************************************)
EXTENDS SelectEcho, SequenceTheorems, TLAPS

USE DEF clients, data, watch

Waiting(c) == \E k \in 1 .. Len(backlog) : backlog[k] = c

\* A connection is in one place: not made yet, waiting, behind one descriptor,
\* or closed.
OnePlace ==
  /\ \A j, k \in 1 .. Len(backlog) : backlog[j] = backlog[k] => j = k
  /\ \A c \in Conn : Waiting(c) => tcp[c] \notin {"none", "closed"}
  /\ \A f \in Fd : fdtab[f] # NoConn =>
       /\ tcp[fdtab[f]] \notin {"none", "closed"} /\ ~ Waiting(fdtab[f])
       /\ \A g \in Fd : fdtab[g] = fdtab[f] => g = f

\* What is to be written was read from an open descriptor.
WritesOpen == pc = "write" => i - 1 \in Fd /\ fdtab[i - 1] # NoConn

\* What was read from c and is not written.
InHand(c) == IF pc = "write" /\ Served = c THEN str_len ELSE 0

\* Nothing is lost on a client that has not gone, nor made up for any.
EchoedSoFar == \A c \in Conn :
  /\ got[c] + InHand(c) <= taken[c]
  /\ tcp[c] \in {"none", "open", "half"} => got[c] + InHand(c) = taken[c]

IInv ==
  TypeOK /\ OnePlace /\ WritesOpen /\ EchoedSoFar /\ ScanNeverBlocks /\ WatchedAreOpen

-----------------------------------------------------------------------------
(* What an action's steps mean for the other descriptors. *)

LEMMA DescriptorTyped ==
  ASSUME TypeOK, NEW f \in Fd, fdtab[f] # NoConn
  PROVE  fdtab[f] \in Conn /\ f \in Int /\ f > serv_sock
BY SelectAssumption DEF TypeOK, Fd, serv_sock

(* The loop is at an open descriptor f that select() reported or at        *)
(* serv_sock; what is ahead of it is ahead of f.                           *)
LEMMA NextInScan ==
  ASSUME TypeOK, NEW f, NextSet(f)
  PROVE  /\ pc = "scan" /\ f \in cpy_reads /\ i <= f /\ i' = f + 1
         /\ f \in Fd \cup {serv_sock} /\ i' \in 0 .. MaxFd + 1
         /\ \A g \in Fd \cup {serv_sock} : g >= i' => g > f /\ g >= i /\ g \in Fd
         /\ cpy_reads' = cpy_reads /\ sent' = sent
BY SelectAssumption DEF NextSet, Ahead, TypeOK, Fd, serv_sock

(* What the loop does to the connection of f and to descriptors behind it  *)
(* leaves the ones ahead as they are.                                      *)
LEMMA ScanGoesOn ==
  ASSUME TypeOK, OnePlace, ScanNeverBlocks, NEW f \in Fd, NextSet(f), fdtab[f] # NoConn,
         \A c \in Conn : c # fdtab[f] => taken'[c] = taken[c] /\ tcp'[c] = tcp[c],
         \A g \in Fd : g # f => fdtab'[g] = fdtab[g]
  PROVE  ScanNeverBlocks'
<1> SUFFICES ASSUME NEW g \in cpy_reads', g >= i'
             PROVE  Ready(g)'
  BY DEF ScanNeverBlocks
<1>1. g \in cpy_reads /\ g \in Fd /\ g > f /\ g >= i /\ pc = "scan"
  BY NextInScan DEF TypeOK
<1>2. Ready(g) /\ g # f /\ g # serv_sock
  BY <1>1, DescriptorTyped DEF ScanNeverBlocks, Fd, serv_sock
<1>3. fdtab[g] \in Conn /\ fdtab[g] # fdtab[f] /\ fdtab'[g] = fdtab[g]
  BY <1>1, <1>2, DescriptorTyped DEF Ready, OnePlace
<1>4. QED
  BY <1>2, <1>3, NextInScan DEF Ready, Ended

-----------------------------------------------------------------------------

LEMMA InitIInv == Init => IInv
<1> SUFFICES ASSUME Init PROVE IInv
  OBVIOUS
<1>1. TypeOK
  BY SelectAssumption DEF Init, TypeOK
<1>2. OnePlace /\ WritesOpen /\ EchoedSoFar
  BY DEF Init, OnePlace, Waiting, WritesOpen, EchoedSoFar, InHand
<1>3. ScanNeverBlocks /\ WatchedAreOpen
  BY DEF Init, ScanNeverBlocks, WatchedAreOpen, serv_sock
<1>4. QED
  BY <1>1, <1>2, <1>3 DEF IInv

-----------------------------------------------------------------------------
(* The clients: the descriptors are not theirs, and what was ready stays so. *)

LEMMA ConnectKeepsIInv ==
  ASSUME IInv, NEW c \in Conn, Connect(c)
  PROVE  IInv'
<1> USE DEF IInv
<1>1. /\ Len(backlog') = Len(backlog) + 1 /\ Len(backlog) \in Nat
      /\ backlog'[Len(backlog) + 1] = c /\ backlog' # << >>
      /\ \A k \in 1 .. Len(backlog) : backlog'[k] = backlog[k] /\ backlog[k] \in Conn
  <2>1. backlog \in Seq(Conn) /\ backlog' = Append(backlog, c)
    BY DEF Connect, TypeOK
  <2>2. QED
    BY <2>1
<1>2. TypeOK'
  BY DEF Connect, TypeOK
<1>3. ~ Waiting(c) /\ \A d \in Conn : Waiting(d)' <=> d = c \/ Waiting(d)
  BY <1>1 DEF Connect, OnePlace, Waiting
<1>4. \A d \in Conn : tcp'[d] = IF d = c THEN "open" ELSE tcp[d]
  BY DEF Connect, TypeOK
<1>5. \A f \in Fd : fdtab[f] # NoConn => fdtab[f] \in Conn /\ fdtab[f] # c
  BY DescriptorTyped DEF Connect, OnePlace
<1>6. OnePlace'
  <2>1. \A j, k \in 1 .. Len(backlog') : backlog'[j] = backlog'[k] => j = k
    BY <1>1, <1>3 DEF OnePlace, Waiting
  <2>2. \A d \in Conn : Waiting(d)' => tcp'[d] \notin {"none", "closed"}
    BY <1>3, <1>4 DEF OnePlace
  <2>3. QED
    BY <2>1, <2>2, <1>3, <1>4, <1>5 DEF Connect, OnePlace
<1>7. WritesOpen' /\ EchoedSoFar'
  BY <1>4 DEF Connect, WritesOpen, EchoedSoFar, InHand, Served
<1>8. \A f \in Fd \cup {serv_sock} : Ready(f) => Ready(f)'
  BY <1>1, <1>4, <1>5 DEF Connect, Ready, Ended
<1>9. ScanNeverBlocks' /\ WatchedAreOpen'
  BY <1>8 DEF Connect, ScanNeverBlocks, WatchedAreOpen, TypeOK
<1>10. QED
  BY <1>2, <1>6, <1>7, <1>9

LEMMA SendOrLeaveKeepsIInv ==
  ASSUME IInv, NEW c \in Conn, ClientSend(c) \/ ClientLeave(c)
  PROVE  IInv'
<1> USE DEF IInv
<1>1. UNCHANGED <<data, backlog, watch, i, pc>> /\ full' \in [Conn -> BOOLEAN]
  <2>1. CASE ClientSend(c)
    BY <2>1 DEF ClientSend, TypeOK
  <2>2. CASE ClientLeave(c)
    BY <2>2 DEF ClientLeave, TypeOK
  <2>3. QED
    BY <2>1, <2>2
<1>2. /\ sent' \in [Conn -> Nat] /\ \A d \in Conn : sent[d] <= sent'[d]
      /\ tcp' \in [Conn -> {"none", "open", "half", "gone", "rst", "reset", "closed"}]
  <2>1. CASE ClientSend(c)
    BY <2>1 DEF ClientSend, TypeOK
  <2>2. CASE ClientLeave(c)
    <3>1. sent' = sent /\ \A d \in Conn : sent[d] \in Nat
      BY <2>2 DEF ClientLeave, TypeOK
    <3>2. tcp' \in [Conn -> {"none", "open", "half", "gone", "rst", "reset", "closed"}]
      BY <2>2 DEF ClientLeave, TypeOK
    <3>3. sent' \in [Conn -> Nat]
      BY <3>1 DEF TypeOK
    <3>4. QED
      BY <3>1, <3>2, <3>3
  <2>3. QED
    BY <2>1, <2>2
<1>3. \A d \in Conn :
        /\ tcp'[d] # tcp[d] => tcp[d] \in {"open", "half"} /\ tcp'[d] \in {"half", "gone", "reset"}
        /\ Ended(d) \/ tcp[d] = "reset" => Ended(d)' \/ tcp'[d] = "reset"
  BY DEF ClientSend, ClientLeave, TypeOK, Ended
<1>4. TypeOK'
  <2>1. \A d \in Conn : got[d] <= taken[d] /\ taken[d] <= sent'[d]
    BY <1>2 DEF TypeOK
  <2>2. QED
    BY <1>1, <1>2, <2>1 DEF TypeOK
<1>5. OnePlace' /\ WritesOpen' /\ EchoedSoFar'
  <2>1. OnePlace' /\ WritesOpen'
    BY <1>1, <1>3, DescriptorTyped DEF OnePlace, Waiting, WritesOpen
  <2>2. \A d \in Conn : InHand(d)' = InHand(d)
    BY <1>1 DEF InHand, Served
  <2>3. EchoedSoFar'
    BY <1>1, <1>3, <2>2 DEF EchoedSoFar
  <2>4. QED
    BY <2>1, <2>3
<1>6. \A f \in Fd \cup {serv_sock} : Ready(f) => Ready(f)'
  <2> SUFFICES ASSUME NEW f \in Fd \cup {serv_sock}, Ready(f)
               PROVE  Ready(f)'
    OBVIOUS
  <2>1. CASE f = serv_sock
    BY <1>1, <2>1 DEF Ready
  <2>2. CASE f # serv_sock
    <3>1. fdtab[f] \in Conn /\ fdtab' = fdtab /\ taken' = taken
      BY <1>1, <2>2, DescriptorTyped DEF Ready
    <3>2. taken[fdtab[f]] < sent[fdtab[f]] => taken[fdtab[f]] < sent'[fdtab[f]]
      BY <1>2, <3>1 DEF TypeOK
    <3>3. QED
      BY <1>3, <2>2, <3>1, <3>2 DEF Ready
  <2>3. QED
    BY <2>1, <2>2
<1>7. ScanNeverBlocks' /\ WatchedAreOpen'
  BY <1>1, <1>6 DEF ScanNeverBlocks, WatchedAreOpen, TypeOK
<1>8. QED
  BY <1>4, <1>5, <1>7

LEMMA ResumeKeepsIInv ==
  ASSUME IInv, NEW c \in Conn, Resume(c)
  PROVE  IInv'
<1>1. UNCHANGED <<clients, data, backlog, watch, i, pc>> /\ full' \in [Conn -> BOOLEAN]
  BY DEF Resume, IInv, TypeOK
<1>2. TypeOK'
  BY <1>1 DEF IInv, TypeOK
<1>3. QED
  BY <1>1, <1>2 DEF IInv, OnePlace, Waiting, WritesOpen, EchoedSoFar, InHand, Served,
                    ScanNeverBlocks, Ready, Ended, WatchedAreOpen

-----------------------------------------------------------------------------
(* The server. *)

LEMMA SelectKeepsIInv ==
  ASSUME IInv, Select \/ ScanEnds
  PROVE  IInv'
<1> USE DEF IInv
<1>1. /\ UNCHANGED <<clients, data, full, backlog, fdtab, reads, fd_max>>
      /\ pc # "write" /\ pc' # "write"
  BY DEF Select, StartScan, ScanEnds
<1>2. OnePlace' /\ WritesOpen' /\ EchoedSoFar' /\ WatchedAreOpen'
  BY <1>1 DEF OnePlace, Waiting, WritesOpen, EchoedSoFar, InHand, WatchedAreOpen
<1>3. CASE Select
  <2>1. /\ cpy_reads' = {f \in reads : f <= fd_max /\ Ready(f)}
        /\ i' = 0 /\ pc' = "scan"
    BY <1>3 DEF Select, StartScan
  <2>2. TypeOK'
    BY <1>1, <2>1, SelectAssumption DEF TypeOK
  <2>3. \A f : Ready(f)' <=> Ready(f)
    BY <1>1 DEF Ready, Ended
  <2>4. ScanNeverBlocks'
    BY <2>1, <2>3 DEF ScanNeverBlocks
  <2>5. QED
    BY <1>2, <2>2, <2>4
<1>4. CASE ScanEnds
  BY <1>2, <1>4 DEF ScanEnds, TypeOK, ScanNeverBlocks
<1>5. QED
  BY <1>3, <1>4

LEMMA AcceptKeepsIInv ==
  ASSUME IInv, Accept
  PROVE  IInv'
<1> USE DEF IInv
<1>1. PICK f \in FreeFd : Admit(f) /\ fd_max' = IF fd_max < f THEN f ELSE fd_max
  BY DEF Accept
<1>2. PICK c \in Conn : c = Head(backlog)
  BY <1>1 DEF Admit, TypeOK
<1>3. /\ NextSet(serv_sock) /\ f \in Fd /\ fdtab[f] = NoConn /\ backlog # << >>
      /\ fdtab' = [fdtab EXCEPT ![f] = c] /\ reads' = reads \cup {f}
      /\ backlog' = Tail(backlog) /\ UNCHANGED <<tcp, data, full, pc>> /\ pc = "scan"
  BY <1>1, <1>2 DEF Admit, FreeFd, NextSet
<1>4. /\ c \in Conn /\ backlog' \in Seq(Conn) /\ c = backlog[1] /\ Len(backlog) \in Nat
      /\ Len(backlog) >= 1 /\ Len(backlog') = Len(backlog) - 1
      /\ \A k \in 1 .. Len(backlog') : backlog'[k] = backlog[k + 1]
  BY <1>2, <1>3 DEF TypeOK
<1>5. TypeOK'
  BY <1>1, <1>3, <1>4, NextInScan DEF TypeOK
<1>6. Waiting(c) /\ ~ Waiting(c)' /\ \A d \in Conn : Waiting(d)' => Waiting(d)
  <2>1. \A k \in 1 .. Len(backlog') : k + 1 \in 1 .. Len(backlog) /\ k + 1 # 1
    BY <1>4
  <2>2. \A k \in 1 .. Len(backlog') : backlog[k + 1] # backlog[1]
    BY <1>4, <2>1 DEF OnePlace
  <2>3. QED
    BY <1>4, <2>1, <2>2 DEF Waiting
<1>7. \A g \in Fd : fdtab[g] # NoConn => fdtab[g] \in Conn /\ fdtab[g] # c
  BY <1>6, DescriptorTyped DEF OnePlace
<1>8. \A g \in Fd : fdtab'[g] = IF g = f THEN c ELSE fdtab[g]
  BY <1>3 DEF TypeOK
<1>9. OnePlace'
  <2>1. \A j, k \in 1 .. Len(backlog') : backlog'[j] = backlog'[k] => j = k
    BY SMTT(30), <1>4 DEF OnePlace
  <2>2. \A g \in Fd : fdtab'[g] # NoConn =>
          /\ tcp[fdtab'[g]] \notin {"none", "closed"} /\ ~ Waiting(fdtab[g])'
          /\ \A h \in Fd : fdtab'[h] = fdtab'[g] => h = g
    BY <1>3, <1>4, <1>6, <1>7, <1>8 DEF OnePlace
  <2>3. \A d \in Conn : Waiting(d)' => tcp'[d] \notin {"none", "closed"}
    BY <1>3, <1>6 DEF OnePlace
  <2>4. QED
    BY <1>3, <2>1, <2>2, <2>3 DEF OnePlace
<1>10. WritesOpen' /\ EchoedSoFar'
  BY <1>3 DEF WritesOpen, EchoedSoFar, InHand
<1>11. ScanNeverBlocks'
  <2> SUFFICES ASSUME NEW g \in cpy_reads', g >= i'
               PROVE  Ready(g)'
    BY DEF ScanNeverBlocks
  <2>1. g \in cpy_reads /\ g \in Fd /\ g # serv_sock /\ g >= i /\ pc = "scan" /\ sent' = sent
    BY SMTT(30), <1>3, NextInScan DEF TypeOK, Fd, serv_sock
  <2>2. Ready(g)
    BY <2>1 DEF ScanNeverBlocks
  <2>3. QED
    BY <1>3, <1>8, <2>1, <2>2 DEF Ready, Ended
<1>12. WatchedAreOpen'
  <2>1. reads' \ {serv_sock} = {g \in Fd : fdtab'[g] # NoConn}
    BY <1>3, <1>4, <1>8, SelectAssumption DEF WatchedAreOpen, Fd, serv_sock
  <2>2. \A g \in reads' : g <= fd_max'
    <3>1. \A g \in reads \cup {f, fd_max} : g \in Fd \cup {serv_sock}
      BY <1>3 DEF TypeOK
    <3>2. \A g \in Fd \cup {serv_sock} : g \in Int
      BY SelectAssumption DEF Fd, serv_sock
    <3>3. f \in Int /\ fd_max \in Int /\ \A g \in reads : g \in Int
      BY <3>1, <3>2
    <3>4. fd_max' \in Int /\ f <= fd_max' /\ fd_max <= fd_max'
      BY <1>1, <3>3
    <3>5. QED
      BY <1>3, <3>3, <3>4 DEF WatchedAreOpen
  <2>3. QED
    BY <2>1, <2>2 DEF WatchedAreOpen
<1>13. QED
  BY <1>5, <1>9, <1>10, <1>11, <1>12

LEMMA AcceptFailsKeepsIInv ==
  ASSUME IInv, AcceptFails
  PROVE  IInv'
<1> USE DEF IInv
<1>1. NextSet(serv_sock) /\ UNCHANGED <<clients, data, full, backlog, watch, pc>> /\ pc = "scan"
  BY DEF AcceptFails, NextSet
<1>2. TypeOK' /\ OnePlace' /\ WritesOpen' /\ EchoedSoFar' /\ WatchedAreOpen'
  BY <1>1, NextInScan DEF TypeOK, OnePlace, Waiting, WritesOpen, EchoedSoFar, InHand, WatchedAreOpen
<1>3. ScanNeverBlocks'
  BY <1>1, NextInScan DEF ScanNeverBlocks, Ready, Ended, TypeOK
<1>4. QED
  BY <1>2, <1>3

LEMMA ReadKeepsIInv ==
  ASSUME IInv, NEW f \in Fd, fdtab[f] # NoConn, Read(f)
  PROVE  IInv'
<1> USE DEF IInv
<1> DEFINE c == fdtab[f]
<1>1. c \in Conn /\ NextSet(f) /\ pc = "scan" /\ i' = f + 1 /\ f \in Int /\ i' - 1 = f
  BY DescriptorTyped DEF Read, NextSet
<1>2. PICK k \in 1 .. BUF_SIZE :
        /\ taken[c] + k <= sent[c] /\ taken' = [taken EXCEPT ![c] = @ + k] /\ str_len' = k
  BY DEF Read
<1>3. pc' = "write" /\ UNCHANGED <<tcp, got, full, backlog, fdtab, reads, fd_max>>
  BY DEF Read
<1>4. k \in Nat /\ \A d \in Conn : got[d] \in Nat /\ taken[d] \in Nat /\ got[d] <= taken[d]
  BY <1>1, SelectAssumption DEF TypeOK
<1>5. /\ \A d \in Conn : taken'[d] = IF d = c THEN taken[c] + k ELSE taken[d]
      /\ taken' \in [Conn -> Nat]
  BY <1>1, <1>2, <1>4 DEF TypeOK
<1>6. TypeOK'
  <2>1. \A d \in Conn : got'[d] <= taken'[d] /\ taken'[d] <= sent[d]
    BY <1>1, <1>2, <1>3, <1>4, <1>5 DEF TypeOK
  <2>2. UNCHANGED cpy_reads /\ sent' = sent /\ i' \in 0 .. MaxFd + 1
    BY <1>1, NextInScan
  <2>3. QED
    BY <1>2, <1>3, <1>5, <2>1, <2>2 DEF TypeOK
<1>7. OnePlace' /\ WritesOpen'
  BY <1>1, <1>3, DescriptorTyped DEF OnePlace, Waiting, WritesOpen
<1>8. EchoedSoFar'
  <2>1. \A d \in Conn : InHand(d) = 0 /\ InHand(d)' = IF d = c THEN k ELSE 0
    BY <1>1, <1>2, <1>3 DEF InHand, Served
  <2>2. QED
    BY <1>3, <1>4, <1>5, <2>1 DEF EchoedSoFar
<1>9. ScanNeverBlocks'
  BY <1>1, <1>3, <1>5, ScanGoesOn
<1>10. WatchedAreOpen'
  BY <1>3 DEF WatchedAreOpen
<1>11. QED
  BY <1>6, <1>7, <1>8, <1>9, <1>10

LEMMA WriteKeepsIInv ==
  ASSUME IInv, Write
  PROVE  IInv'
<1> USE DEF IInv
<1> DEFINE c == Served
           there == tcp[c] \in {"open", "half"}
<1>1. c \in Conn /\ i - 1 \in Fd /\ fdtab[i - 1] = c /\ pc = "write" /\ i \in Int
  BY DescriptorTyped, SelectAssumption DEF Write, WritesOpen, Served, TypeOK
<1>2. /\ got' = (IF there THEN [got EXCEPT ![c] = @ + str_len] ELSE got)
      /\ tcp' = (IF tcp[c] \in {"gone", "reset"} THEN [tcp EXCEPT ![c] = "rst"] ELSE tcp)
      /\ pc' \in {"scan", "killed"} /\ str_len' = 0
      /\ UNCHANGED <<sent, taken, backlog, watch, i>>
  BY DEF Write
<1>3. full' \in [Conn -> BOOLEAN]
  <2>1. PICK b \in BOOLEAN : full' = [full EXCEPT ![c] = b]
    BY DEF Write
  <2>2. QED
    BY <2>1 DEF TypeOK
<1>4. /\ str_len \in Nat
      /\ \A d \in Conn : got[d] \in Nat /\ taken[d] \in Nat /\ got[d] + InHand(d) <= taken[d]
      /\ \A d \in Conn : InHand(d) = (IF d = c THEN str_len ELSE 0) /\ InHand(d)' = 0
  BY <1>1, <1>2, SelectAssumption DEF TypeOK, EchoedSoFar, InHand, Served
<1>5. \A d \in Conn :
        /\ got'[d] = IF d = c /\ there THEN got[c] + str_len ELSE got[d]
        /\ d # c => tcp'[d] = tcp[d]
        /\ tcp'[d] # tcp[d] => tcp'[d] = "rst"
  BY <1>1, <1>2, <1>4 DEF TypeOK
<1>6. TypeOK'
  <2>1. got' \in [Conn -> Nat]
    BY <1>1, <1>2, <1>4 DEF TypeOK
  <2>2. \A d \in Conn : got'[d] <= taken'[d] /\ taken'[d] <= sent'[d]
    BY <1>1, <1>2, <1>4, <1>5 DEF TypeOK
  <2>3. tcp' \in [Conn -> {"none", "open", "half", "gone", "rst", "reset", "closed"}]
    BY <1>2 DEF TypeOK
  <2>4. pc' \in {"select", "scan", "write", "killed"} /\ str_len' \in 0 .. BUF_SIZE
    BY <1>2, SelectAssumption
  <2>5. {sent', taken', got'} \subseteq [Conn -> Nat]
    BY <1>2, <2>1 DEF TypeOK
  <2>6. QED
    BY <1>2, <1>3, <2>2, <2>3, <2>4, <2>5 DEF TypeOK
<1>7. OnePlace' /\ WritesOpen'
  BY <1>2, <1>5, DescriptorTyped DEF OnePlace, Waiting, WritesOpen
<1>8. EchoedSoFar'
  <2> SUFFICES ASSUME NEW d \in Conn
               PROVE  /\ got'[d] + InHand(d)' <= taken'[d]
                      /\ tcp'[d] \in {"none", "open", "half"} => got'[d] + InHand(d)' = taken'[d]
    BY DEF EchoedSoFar
  <2>1. CASE d # c
    BY <1>1, <1>2, <1>4, <1>5, <2>1 DEF EchoedSoFar
  <2>2. CASE d = c
    <3>1. tcp[c] # "none"
      BY <1>1, DescriptorTyped DEF OnePlace, WritesOpen
    <3>2. there => got'[c] = got[c] + str_len /\ got[c] + str_len = taken[c]
      BY <1>1, <1>4, <1>5 DEF EchoedSoFar
    <3>3. ~ there => got'[c] = got[c] /\ tcp'[c] \notin {"none", "open", "half"}
      BY <1>1, <1>5, <3>1 DEF TypeOK
    <3>4. got[c] + str_len <= taken[c] /\ taken' = taken
      BY <1>1, <1>2, <1>4
    <3>5. QED
      BY <1>1, <1>4, <2>2, <3>2, <3>3, <3>4
  <2>3. QED
    BY <2>1, <2>2
<1>9. ScanNeverBlocks'
  <2> SUFFICES ASSUME NEW g \in cpy_reads, g >= i
               PROVE  Ready(g)'
    BY <1>2 DEF ScanNeverBlocks
  <2>1. Ready(g) /\ g \in Fd \cup {serv_sock}
    BY <1>1 DEF ScanNeverBlocks, TypeOK
  <2>2. CASE g = serv_sock
    BY <1>2, <2>1, <2>2 DEF Ready
  <2>3. CASE g # serv_sock
    <3>1. g \in Fd /\ fdtab[g] \in Conn /\ g # i - 1
      BY <1>1, <2>1, <2>3, DescriptorTyped DEF Ready
    <3>2. fdtab[g] # c
      BY <1>1, <2>1, <2>3, <3>1, DescriptorTyped DEF OnePlace, Ready
    <3>3. QED
      BY <1>2, <1>5, <2>1, <2>3, <3>1, <3>2 DEF Ready, Ended
  <2>4. QED
    BY <2>2, <2>3
<1>10. WatchedAreOpen'
  BY <1>2 DEF WatchedAreOpen
<1>11. QED
  BY <1>6, <1>7, <1>8, <1>9, <1>10

LEMMA ErrorKeepsIInv ==
  ASSUME IInv, NEW f \in Fd, fdtab[f] # NoConn, ReadError(f)
  PROVE  IInv'
<1> USE DEF IInv
<1>1. /\ NextSet(f) /\ fdtab[f] \in Conn /\ tcp' = [tcp EXCEPT ![fdtab[f]] = "rst"]
      /\ UNCHANGED <<sent, data, full, backlog, watch, pc>> /\ pc = "scan"
  BY DescriptorTyped DEF ReadError, NoData, NextSet
<1>2. \A d \in Conn : tcp'[d] = IF d = fdtab[f] THEN "rst" ELSE tcp[d]
  BY <1>1 DEF TypeOK
<1>3. TypeOK'
  BY <1>1, NextInScan DEF TypeOK
<1>4. OnePlace' /\ WritesOpen' /\ EchoedSoFar' /\ WatchedAreOpen'
  <2>1. OnePlace' /\ WritesOpen' /\ WatchedAreOpen'
    BY <1>1, <1>2, DescriptorTyped DEF OnePlace, Waiting, WritesOpen, WatchedAreOpen
  <2>2. EchoedSoFar'
    BY <1>1, <1>2 DEF EchoedSoFar, InHand
  <2>3. QED
    BY <2>1, <2>2
<1>5. ScanNeverBlocks'
  BY <1>1, <1>2, ScanGoesOn
<1>6. QED
  BY <1>3, <1>4, <1>5

LEMMA CloseKeepsIInv ==
  ASSUME IInv, NEW f \in Fd, fdtab[f] # NoConn, CloseRequest(f)
  PROVE  IInv'
<1> USE DEF IInv
<1>1. /\ NextSet(f) /\ fdtab[f] \in Conn /\ tcp' = [tcp EXCEPT ![fdtab[f]] = "closed"]
      /\ fdtab' = [fdtab EXCEPT ![f] = NoConn] /\ reads' = reads \ {f}
      /\ full' = [full EXCEPT ![fdtab[f]] = FALSE]
      /\ UNCHANGED <<sent, data, backlog, cpy_reads, fd_max, pc>> /\ pc = "scan"
  BY DescriptorTyped DEF CloseRequest, Close, NoData, NextSet
<1>2. /\ \A d \in Conn : tcp'[d] = IF d = fdtab[f] THEN "closed" ELSE tcp[d]
      /\ \A g \in Fd : fdtab'[g] = IF g = f THEN NoConn ELSE fdtab[g]
  BY <1>1 DEF TypeOK
<1>3. TypeOK'
  BY <1>1, NextInScan DEF TypeOK
<1>4. OnePlace'
  BY <1>1, <1>2, DescriptorTyped DEF OnePlace, Waiting
<1>5. WritesOpen' /\ EchoedSoFar'
  BY <1>1, <1>2 DEF WritesOpen, EchoedSoFar, InHand
<1>6. ScanNeverBlocks'
  BY <1>1, <1>2, ScanGoesOn
<1>7. WatchedAreOpen'
  BY <1>1, <1>2 DEF WatchedAreOpen
<1>8. QED
  BY <1>3, <1>4, <1>5, <1>6, <1>7

-----------------------------------------------------------------------------

LEMMA NextKeepsIInv == IInv /\ [Next]_vars => IInv'
<1> SUFFICES ASSUME IInv, [Next]_vars PROVE IInv'
  OBVIOUS
<1>1. CASE UNCHANGED vars
  BY <1>1 DEF vars, IInv, TypeOK, OnePlace, Waiting, WritesOpen, EchoedSoFar, InHand, Served,
              ScanNeverBlocks, Ready, Ended, WatchedAreOpen
<1>2. ASSUME NEW c \in Conn, ClientStep(c)
      PROVE  IInv'
  BY <1>2, ConnectKeepsIInv, SendOrLeaveKeepsIInv, ResumeKeepsIInv DEF ClientStep
<1>3. CASE ServerStep
  BY <1>3, SelectKeepsIInv, AcceptKeepsIInv, AcceptFailsKeepsIInv, ReadKeepsIInv,
     WriteKeepsIInv, ErrorKeepsIInv, CloseKeepsIInv DEF ServerStep, FreeFd
<1>4. QED
  BY <1>1, <1>2, <1>3 DEF Next

(* The invariant of the one process and its clients. *)
THEOREM Invariance == Spec => []IInv
BY InitIInv, NextKeepsIInv, PTL DEF Spec

(* Every variable keeps its type; what is echoed was read, and what is     *)
(* read was sent.                                                          *)
THEOREM TypeCorrect == Spec => []TypeOK
<1>1. IInv => TypeOK
  BY DEF IInv
<1>2. QED
  BY <1>1, Invariance, PTL

(* Neither read() nor accept() blocks the one process, whatever it accepts *)
(* and closes between select() and the call.                               *)
THEOREM NeverBlocks == Spec => []ScanNeverBlocks
<1>1. IInv => ScanNeverBlocks
  BY DEF IInv
<1>2. QED
  BY <1>1, Invariance, PTL

(* select() watches the open connections and nothing else. *)
THEOREM WatchesOpen == Spec => []WatchedAreOpen
<1>1. IInv => WatchedAreOpen
  BY DEF IInv
<1>2. QED
  BY <1>1, Invariance, PTL

(* A client that shut its side down was echoed everything before the       *)
(* server closes.                                                          *)
THEOREM ClosesAfterEcho == Spec => ClosedAfterEcho
<1>1. IInv /\ [Next]_vars =>
        [\A c \in Conn : tcp[c] = "half" /\ tcp'[c] = "closed" => got[c] = sent[c]]_vars
  <2> SUFFICES ASSUME IInv, Next, NEW c \in Conn, tcp[c] = "half", tcp'[c] = "closed"
               PROVE  got[c] = sent[c]
    OBVIOUS
  <2> USE DEF IInv
  <2>1. CASE \E d \in Conn : ClientStep(d)
    BY <2>1 DEF ClientStep, Connect, ClientSend, ClientLeave, Resume, TypeOK
  <2>2. CASE Select \/ ScanEnds \/ Accept \/ AcceptFails
    BY <2>2 DEF Select, StartScan, ScanEnds, Accept, Admit, AcceptFails
  <2>3. ASSUME NEW f \in Fd, fdtab[f] # NoConn, Read(f) \/ ReadError(f)
        PROVE  FALSE
    BY <2>3, DescriptorTyped DEF Read, ReadError, NoData, TypeOK
  <2>4. ASSUME NEW f \in Fd, fdtab[f] # NoConn, CloseRequest(f)
        PROVE  got[c] = sent[c]
    <3>1. fdtab[f] = c /\ taken[c] = sent[c] /\ pc = "scan"
      BY <2>4, DescriptorTyped DEF CloseRequest, NoData, NextSet, TypeOK
    <3>2. InHand(c) = 0 /\ got[c] \in Nat
      BY <3>1 DEF InHand, TypeOK
    <3>3. QED
      BY <3>1, <3>2 DEF EchoedSoFar
  <2>5. ~ Write
    BY DEF Write, TypeOK
  <2>6. QED
    BY <2>1, <2>2, <2>3, <2>4, <2>5 DEF Next, ServerStep, FreeFd
<1>2. QED
  BY <1>1, Invariance, PTL DEF Spec, ClosedAfterEcho
=============================================================================
