-------------------------- MODULE ChatServerProofs --------------------------
(***************************************************************************)
(* What ChatServer keeps for every number of connections, descriptors,     *)
(* threads and table slots.  IInv is inductive; its step is proved one     *)
(* conjunct at a time, each by the actions that can disturb it.            *)
(***************************************************************************)
EXTENDS ChatServer, FiniteSetTheorems, TLAPS

USE DEF clients, kernel, globals, mainVars, locals

LEMMA ThreadsAreNat == /\ Thread \in SUBSET Nat /\ NoThread \notin Thread
                       /\ IsFiniteSet(Thread) /\ MaxThreads \in Nat
<1>1. MaxThreads \in Nat /\ NoThread \notin Nat
  BY ChatAssumption
<1>2. IsFiniteSet(Thread)
  BY <1>1, FS_Interval DEF Thread
<1>3. QED
  BY <1>1, <1>2 DEF Thread

(* A thread about to take itself off is counted. *)
LEMMA RemoverIsCounted ==
  ASSUME TypeOK, CountMatches, NEW t \in Thread, pc[t] = "remove"
  PROVE  clnt_cnt >= 1
<1>1. t \in Registered /\ IsFiniteSet(Registered)
  BY ThreadsAreNat, FS_Subset DEF Registered
<1>2. Cardinality(Registered) \in Nat /\ Cardinality(Registered) # 0
  BY <1>1, FS_CardinalityType, FS_EmptySet
<1>3. QED
  BY <1>2 DEF CountMatches, TypeOK

LEMMA TargetTyped ==
  ASSUME TypeOK, NEW f
  PROVE  ConnOf(f) # NoConn => ConnOf(f) \in Conn /\ f \in Fd
BY DEF TypeOK, ConnOf

-----------------------------------------------------------------------------

LEMMA InitIInv == Init => IInv
<1> SUFFICES ASSUME Init PROVE IInv
  OBVIOUS
<1>1. TypeOK
  BY ChatAssumption DEF Init, TypeOK, Tcp
<1>2. CreatedInOrder
  BY ChatAssumption DEF Init, CreatedInOrder, Thread
<1>3. CountMatches
  <2>1. Registered = {}
    BY DEF Init, Registered
  <2>2. QED
    BY <2>1, FS_EmptySet DEF Init, CountMatches
<1>4. InBounds /\ HolderSends /\ ChunksApart /\ NothingLost /\ SendsLast
  BY ChatAssumption, ThreadsAreNat
     DEF Init, InBounds, HolderSends, ChunksApart, NothingLost, SendsLast, Carries
<1>5. QED
  BY <1>1, <1>2, <1>3, <1>4 DEF IInv

-----------------------------------------------------------------------------

LEMMA ClientKeepsTypes ==
  ASSUME TypeOK, NEW c \in Conn, ClientStep(c)
  PROVE  TypeOK'
<1>1. CASE Connect(c)
  BY <1>1 DEF Connect, TypeOK, Tcp
<1>2. CASE ClientSend(c)
  BY <1>2, ChatAssumption DEF ClientSend, TypeOK
<1>3. CASE ClientLeave(c)
  BY <1>3 DEF ClientLeave, TypeOK, Tcp
<1>4. CASE RstArrives(c)
  BY <1>4 DEF RstArrives, TypeOK, Tcp
<1>5. CASE Resume(c)
  BY <1>5 DEF Resume, TypeOK
<1>6. QED
  BY <1>1, <1>2, <1>3, <1>4, <1>5 DEF ClientStep

LEMMA MainKeepsTypes ==
  ASSUME TypeOK, MainStep
  PROVE  TypeOK'
<1>1. CASE Accept
  BY SMTT(30), <1>1 DEF Accept, TypeOK, FreeFd
<1>2. CASE AcceptFails
  BY <1>2 DEF AcceptFails, TypeOK
<1>3. CASE Register
  <2>1. clnt_socks' \in [0 .. MAX_CLNT -> Fd \cup {0, -1}]
    BY <1>3 DEF Register, TypeOK
  <2>2. clnt_cnt' \in Nat /\ server' \in {"up", "killed", "overrun"}
    BY <1>3 DEF Register, TypeOK
  <2>3. QED
    BY <1>3, <2>1, <2>2 DEF Register, TypeOK
<1>4. CASE CreateThread
  <2>1. pc' \in [Thread -> {"none", "start", "read", "lock", "send", "remove", "close", "done"}]
    BY <1>4 DEF CreateThread, TypeOK
  <2>2. created' \in 0 .. MaxThreads
    BY <1>4, ChatAssumption DEF CreateThread, TypeOK
  <2>3. QED
    BY <1>4, <2>1, <2>2 DEF CreateThread, TypeOK
<1>5. CASE CreateFails
  BY <1>5 DEF CreateFails, TypeOK
<1>6. QED
  BY <1>1, <1>2, <1>3, <1>4, <1>5 DEF MainStep

LEMMA ThreadKeepsTypes ==
  ASSUME TypeOK, CountMatches, InBounds, server = "up", NEW t \in Thread, ThreadStep(t)
  PROVE  TypeOK'
<1>1. CASE Start(t)
  BY <1>1 DEF Start, TypeOK
<1>2. CASE ReadChunk(t)
  <2>1. ConnOf(sock[t]) \in Conn
    BY <1>2, TargetTyped DEF ReadChunk
  <2>2. taken[ConnOf(sock[t])] + 1 \in 1 .. MaxSent
    BY <1>2, <2>1, ChatAssumption DEF ReadChunk, TypeOK
  <2>3. QED
    BY SMTT(30), <1>2, <2>1, <2>2 DEF ReadChunk, TypeOK, Chunk
<1>3. CASE ReadEof(t)
  BY <1>3 DEF ReadEof, TypeOK
<1>4. CASE ReadError(t)
  BY <1>4, TargetTyped DEF ReadError, TypeOK, Tcp
<1>5. CASE LockSend(t)
  <2>1. log' \in Seq(Chunk)
    BY <1>5 DEF LockSend, TypeOK
  <2>2. QED
    BY <1>5, <2>1 DEF LockSend, TypeOK
<1>6. CASE WriteChunk(t)
  <2>1. Target(t) \in Conn /\ msg[t] \in Chunk
    BY <1>6, TargetTyped DEF WriteChunk, Target, TypeOK
  <2>2. delivered' \in [Conn -> Seq(Chunk)]
    BY <1>6, <2>1 DEF WriteChunk, TypeOK
  <2>3. full' \in [Conn -> BOOLEAN]
    <3>1. PICK b \in BOOLEAN : full' = [full EXCEPT ![Target(t)] = b]
      BY <1>6 DEF WriteChunk
    <3>2. QED
      BY <3>1 DEF TypeOK
  <2>4. idx' \in [Thread -> Nat]
    BY <1>6 DEF WriteChunk, Writing, TypeOK
  <2>5. QED
    BY <1>6, <2>1, <2>2, <2>3, <2>4 DEF WriteChunk, Writing, TypeOK
<1>7. CASE WriteLost(t)
  <2>1. tcp' \in [Conn -> Tcp] /\ server' \in {"up", "killed", "overrun"}
    BY <1>7 DEF WriteLost, TypeOK, Tcp
  <2>2. idx' \in [Thread -> Nat]
    BY <1>7 DEF WriteLost, Writing, TypeOK
  <2>3. QED
    BY <1>7, <2>1, <2>2 DEF WriteLost, Writing, TypeOK
<1>8. CASE WriteNothing(t)
  BY <1>8 DEF WriteNothing, Writing, TypeOK
<1>9. CASE WriteReset(t)
  <2>1. tcp' \in [Conn -> Tcp] /\ server' \in {"up", "killed", "overrun"}
    BY <1>9 DEF WriteReset, TypeOK, Tcp
  <2>2. idx' \in [Thread -> Nat]
    BY <1>9 DEF WriteReset, Writing, TypeOK
  <2>3. QED
    BY <1>9, <2>1, <2>2 DEF WriteReset, Writing, TypeOK
<1>10. CASE UnlockSend(t)
  BY <1>10 DEF UnlockSend, TypeOK
<1>11. CASE Remove(t)
  <2>1. clnt_cnt >= 1 /\ clnt_cnt <= MAX_CLNT
    BY <1>11, RemoverIsCounted DEF Remove, InBounds
  <2>2. \A k \in Slots(sock[t]) : Shifted(k) \in [0 .. MAX_CLNT -> Fd \cup {0, -1}]
    BY <2>1, ChatAssumption DEF Slots, Shifted, TypeOK
  <2>3. clnt_socks' \in [0 .. MAX_CLNT -> Fd \cup {0, -1}]
    BY <1>11, <2>2 DEF Remove, TakeOff, TypeOK
  <2>4. QED
    BY <1>11, <2>1, <2>3 DEF Remove, TypeOK
<1>12. CASE Close(t)
  BY <1>12, TargetTyped DEF Close, TypeOK, Tcp
<1>13. QED
  BY <1>1, <1>2, <1>3, <1>4, <1>5, <1>6, <1>7, <1>8, <1>9, <1>10, <1>11, <1>12 DEF ThreadStep

-----------------------------------------------------------------------------

LEMMA CountedThreads ==
  ASSUME TypeOK
  PROVE  IsFiniteSet(Registered) /\ Cardinality(Registered) \in Nat
BY ThreadsAreNat, FS_Subset, FS_CardinalityType DEF Registered

(* A thread that stays among the counted, or among the others, does not    *)
(* change the count.                                                       *)
LEMMA CountStays ==
  ASSUME TypeOK, CountMatches, NEW t \in Thread, NEW s,
         pc' = [pc EXCEPT ![t] = s],
         pc[t] \notin {"none", "close", "done"} <=> s \notin {"none", "close", "done"},
         clnt_cnt' = clnt_cnt, unserved' = unserved, mpc' = mpc
  PROVE  CountMatches'
<1>1. Registered' = Registered
  BY DEF Registered, TypeOK
<1>2. QED
  BY <1>1 DEF CountMatches

LEMMA MainKeepsCount ==
  ASSUME TypeOK, CountMatches, CreatedInOrder, MainStep
  PROVE  CountMatches'
<1>1. CASE Accept \/ AcceptFails
  <2>1. Registered' = Registered
    BY <1>1 DEF Accept, AcceptFails, Registered
  <2>2. QED
    BY <1>1, <2>1 DEF Accept, AcceptFails, CountMatches
<1>2. CASE Register
  <2>1. Registered' = Registered
    BY <1>2 DEF Register, Registered
  <2>2. QED
    BY SMTT(30), <1>2, <2>1, CountedThreads DEF Register, CountMatches, TypeOK
<1>3. CASE CreateThread
  <2> DEFINE t == created + 1
  <2>1. t \in Thread /\ pc[t] = "none"
    BY <1>3, ThreadsAreNat DEF CreateThread, CreatedInOrder, TypeOK, Thread
  <2>2. Registered' = Registered \cup {t} /\ t \notin Registered
    BY <1>3, <2>1 DEF CreateThread, Registered, TypeOK
  <2>3. Cardinality(Registered') = Cardinality(Registered) + 1
    BY <2>2, CountedThreads, FS_AddElement
  <2>4. QED
    BY <1>3, <2>3, CountedThreads DEF CreateThread, CountMatches, TypeOK
<1>4. CASE CreateFails
  <2>1. Registered' = Registered
    BY <1>4 DEF CreateFails, Registered
  <2>2. QED
    BY <1>4, <2>1, CountedThreads DEF CreateFails, CountMatches, TypeOK
<1>5. QED
  BY <1>1, <1>2, <1>3, <1>4 DEF MainStep

LEMMA ThreadKeepsCount ==
  ASSUME TypeOK, CountMatches, NEW t \in Thread, ThreadStep(t)
  PROVE  CountMatches'
<1>1. CASE Start(t)
  BY <1>1, CountStays DEF Start
<1>2. CASE ReadChunk(t) \/ ReadEof(t) \/ ReadError(t)
  BY <1>2, CountStays DEF ReadChunk, ReadEof, ReadError
<1>3. CASE LockSend(t) \/ UnlockSend(t)
  BY <1>3, CountStays DEF LockSend, UnlockSend
<1>4. CASE WriteChunk(t) \/ WriteLost(t) \/ WriteNothing(t) \/ WriteReset(t)
  <2>1. Writing(t)
    BY <1>4 DEF WriteChunk, WriteLost, WriteNothing, WriteReset
  <2>2. QED
    BY <2>1 DEF Writing, CountMatches, Registered
<1>5. CASE Remove(t)
  <2>1. Registered' = Registered \ {t} /\ t \in Registered
    BY <1>5 DEF Remove, Registered, TypeOK
  <2>2. Cardinality(Registered') = Cardinality(Registered) - 1
    BY <2>1, CountedThreads, FS_RemoveElement
  <2>3. clnt_cnt' = clnt_cnt - 1 /\ mpc' = mpc /\ unserved' = unserved
    BY <1>5 DEF Remove
  <2>4. clnt_cnt \in Nat /\ unserved \in Nat /\ Cardinality(Registered) \in Nat
    BY CountedThreads DEF TypeOK
  <2>5. CASE mpc = "create"
    BY <2>2, <2>3, <2>4, <2>5 DEF CountMatches
  <2>6. CASE mpc # "create"
    BY <2>2, <2>3, <2>4, <2>6 DEF CountMatches
  <2>7. QED
    BY <2>5, <2>6
<1>6. CASE Close(t)
  BY <1>6, CountStays DEF Close
<1>7. QED
  BY <1>1, <1>2, <1>3, <1>4, <1>5, <1>6 DEF ThreadStep

-----------------------------------------------------------------------------

LEMMA MainKeepsControl ==
  ASSUME TypeOK, CreatedInOrder, InBounds, HolderSends, server = "up", MainStep
  PROVE  CreatedInOrder' /\ InBounds' /\ HolderSends'
<1>1. CASE Accept \/ AcceptFails
  BY <1>1 DEF Accept, AcceptFails, CreatedInOrder, InBounds, HolderSends
<1>2. CASE Register
  BY <1>2, ChatAssumption DEF Register, CreatedInOrder, InBounds, HolderSends, TypeOK
<1>3. CASE CreateThread
  <2>1. created + 1 \in Thread /\ pc[created + 1] = "none"
    BY <1>3, ThreadsAreNat DEF CreateThread, CreatedInOrder, TypeOK, Thread
  <2>2. pc' = [pc EXCEPT ![created + 1] = "start"] /\ created' = created + 1
    BY <1>3 DEF CreateThread
  <2>3. CreatedInOrder'
    <3> SUFFICES ASSUME NEW u \in Thread
                 PROVE  pc'[u] = "none" <=> u > created'
      BY DEF CreatedInOrder
    <3>1. u \in Nat /\ created \in Nat
      BY ThreadsAreNat DEF TypeOK
    <3>2. QED
      BY <2>1, <2>2, <3>1 DEF CreatedInOrder, TypeOK
  <2>4. InBounds' /\ HolderSends'
    BY <1>3, <2>1, <2>2 DEF CreateThread, InBounds, HolderSends, TypeOK
  <2>5. QED
    BY <2>3, <2>4
<1>4. CASE CreateFails
  BY <1>4 DEF CreateFails, CreatedInOrder, InBounds, HolderSends
<1>5. QED
  BY <1>1, <1>2, <1>3, <1>4 DEF MainStep

LEMMA ThreadKeepsControl ==
  ASSUME TypeOK, CreatedInOrder, InBounds, HolderSends, server = "up",
         NEW t \in Thread, ThreadStep(t)
  PROVE  CreatedInOrder' /\ InBounds' /\ HolderSends'
<1>1. CASE Start(t)
  BY <1>1 DEF Start, CreatedInOrder, InBounds, HolderSends, TypeOK
<1>2. CASE ReadChunk(t) \/ ReadEof(t) \/ ReadError(t)
  BY <1>2 DEF ReadChunk, ReadEof, ReadError, CreatedInOrder, InBounds, HolderSends, TypeOK
<1>3. CASE LockSend(t) \/ UnlockSend(t)
  <2>1. CreatedInOrder' /\ InBounds'
    BY <1>3 DEF LockSend, UnlockSend, CreatedInOrder, InBounds, TypeOK
  <2>2. HolderSends'
    BY SMTT(30), <1>3, ThreadsAreNat DEF LockSend, UnlockSend, HolderSends, TypeOK
  <2>3. QED
    BY <2>1, <2>2
<1>4. CASE WriteChunk(t) \/ WriteLost(t) \/ WriteNothing(t) \/ WriteReset(t)
  <2>1. Writing(t) /\ server' \in {"up", "killed"}
    BY <1>4 DEF WriteChunk, WriteLost, WriteNothing, WriteReset
  <2>2. QED
    BY <2>1 DEF Writing, CreatedInOrder, InBounds, HolderSends
<1>5. CASE Remove(t)
  BY <1>5, ChatAssumption DEF Remove, CreatedInOrder, InBounds, HolderSends, TypeOK
<1>6. CASE Close(t)
  BY <1>6 DEF Close, CreatedInOrder, InBounds, HolderSends, TypeOK
<1>7. QED
  BY <1>1, <1>2, <1>3, <1>4, <1>5, <1>6 DEF ThreadStep

-----------------------------------------------------------------------------

(* The chunks change hands in ReadChunk and LockSend only. *)
LEMMA ChunksUntouched ==
  ASSUME ChunksApart, log' = log, taken' = taken,
         \A t \in Thread : Carries(t)' => Carries(t) /\ msg'[t] = msg[t]
  PROVE  ChunksApart'
BY DEF ChunksApart

LEMMA ReadKeepsChunks ==
  ASSUME TypeOK, ChunksApart, NEW t \in Thread, ReadChunk(t)
  PROVE  ChunksApart'
<1> DEFINE c == ConnOf(sock[t])
<1>1. c \in Conn /\ taken[c] \in Nat
  BY TargetTyped DEF ReadChunk, TypeOK
<1>2. /\ taken' = [taken EXCEPT ![c] = taken[c] + 1]
      /\ msg' = [msg EXCEPT ![t] = <<c, taken[c] + 1>>]
      /\ pc' = [pc EXCEPT ![t] = "lock"] /\ pc[t] = "read" /\ log' = log
  BY DEF ReadChunk
<1>3. \A d \in Conn : taken[d] \in Nat /\ taken'[d] \in Nat /\ taken[d] <= taken'[d]
  BY SMTT(30), <1>1, <1>2 DEF TypeOK
<1>4. \A k \in 1 .. Len(log) : log[k] \in Chunk
  BY DEF TypeOK
<1>5. \A k \in 1 .. Len(log) : log[k][2] <= taken'[log[k][1]] /\ log[k] # msg'[t]
  <2> SUFFICES ASSUME NEW k \in 1 .. Len(log)
               PROVE  log[k][2] <= taken'[log[k][1]] /\ log[k] # msg'[t]
    OBVIOUS
  <2>1. log[k][1] \in Conn /\ log[k][2] \in Nat
    BY <1>4 DEF Chunk
  <2>2. log[k][2] <= taken[log[k][1]]
    BY DEF ChunksApart
  <2>3. msg'[t] = <<c, taken[c] + 1>>
    BY <1>2 DEF TypeOK
  <2>4. QED
    BY <1>1, <1>3, <2>1, <2>2, <2>3
<1>6. \A u \in Thread : u # t /\ Carries(u)' =>
        /\ Carries(u) /\ msg'[u] = msg[u] /\ msg[u] # msg'[t]
        /\ msg[u][2] <= taken'[msg[u][1]]
  <2> SUFFICES ASSUME NEW u \in Thread, u # t, Carries(u)'
               PROVE  /\ Carries(u) /\ msg'[u] = msg[u] /\ msg[u] # msg'[t]
                      /\ msg[u][2] <= taken'[msg[u][1]]
    OBVIOUS
  <2>1. Carries(u) /\ msg'[u] = msg[u]
    BY <1>2 DEF Carries, TypeOK
  <2>2. msg[u][1] \in Conn /\ msg[u][2] \in Nat
    BY <2>1 DEF Carries, TypeOK, Chunk
  <2>3. msg[u][2] <= taken[msg[u][1]]
    BY <2>1 DEF ChunksApart
  <2>4. msg'[t] = <<c, taken[c] + 1>>
    BY <1>2 DEF TypeOK
  <2>5. QED
    BY <1>1, <1>3, <2>1, <2>2, <2>3, <2>4
<1>7. msg'[t] = <<c, taken[c] + 1>> /\ taken'[c] = taken[c] + 1
  BY <1>1, <1>2 DEF TypeOK
<1>8. QED
  BY <1>1, <1>2, <1>5, <1>6, <1>7 DEF ChunksApart

LEMMA LockKeepsChunks ==
  ASSUME TypeOK, ChunksApart, NEW t \in Thread, LockSend(t)
  PROVE  ChunksApart'
<1>1. \A u \in Thread : Carries(u)' => Carries(u) /\ u # t /\ msg'[u] = msg[u]
  BY DEF LockSend, Carries, TypeOK
<1>2. taken' = taken /\ msg' = msg
  BY DEF LockSend
<1>3. CASE msg[t] = Empty
  BY <1>1, <1>2, <1>3, ChunksUntouched DEF LockSend
<1>4. CASE msg[t] # Empty
  <2>1. Carries(t) /\ msg[t] \in Chunk
    BY <1>4 DEF LockSend, Carries, TypeOK
  <2>2. /\ Len(log') = Len(log) + 1 /\ Len(log) \in Nat
        /\ log'[Len(log) + 1] = msg[t]
        /\ \A k \in 1 .. Len(log) : log'[k] = log[k]
    BY <1>4, <2>1 DEF LockSend, TypeOK
  <2>3. \A k \in 1 .. Len(log') : log'[k][2] <= taken[log'[k][1]]
    BY <2>1, <2>2 DEF ChunksApart
  <2>4. \A j, k \in 1 .. Len(log') : log'[j] = log'[k] => j = k
    BY <2>1, <2>2 DEF ChunksApart
  <2>5. \A u \in Thread : Carries(u)' =>
          \A k \in 1 .. Len(log') : log'[k] # msg[u]
    BY <1>1, <2>1, <2>2 DEF ChunksApart
  <2>6. QED
    BY <1>1, <1>2, <2>3, <2>4, <2>5 DEF ChunksApart
<1>5. QED
  BY <1>3, <1>4

LEMMA ThreadKeepsChunks ==
  ASSUME TypeOK, HolderSends, ChunksApart, SendsLast, NEW t \in Thread, ThreadStep(t)
  PROVE  ChunksApart' /\ SendsLast'
<1>1. CASE Start(t)
  <2>1. ChunksApart'
    BY <1>1, ChunksUntouched DEF Start, Carries, TypeOK
  <2>2. QED
    BY <1>1, <2>1 DEF Start, SendsLast, TypeOK
<1>2. CASE ReadChunk(t)
  <2>1. SendsLast'
    BY <1>2 DEF ReadChunk, SendsLast, TypeOK
  <2>2. QED
    BY <1>2, <2>1, ReadKeepsChunks
<1>3. CASE ReadEof(t)
  <2>1. ChunksApart'
    BY <1>3, ChunksUntouched DEF ReadEof, Carries, TypeOK
  <2>2. QED
    BY <1>3, <2>1 DEF ReadEof, SendsLast, TypeOK
<1>4. CASE ReadError(t)
  <2>1. ChunksApart'
    BY <1>4, ChunksUntouched DEF ReadError, Carries, TypeOK
  <2>2. QED
    BY <1>4, <2>1 DEF ReadError, SendsLast, TypeOK
<1>5. CASE LockSend(t)
  <2>1. \A u \in Thread : pc'[u] = "send" => u = t
    BY <1>5, ThreadsAreNat DEF LockSend, HolderSends, TypeOK
  <2>2. msg' = msg /\ (msg[t] # Empty => log' # << >> /\ log'[Len(log')] = msg[t])
    <3>1. msg' = msg /\ (msg[t] # Empty => msg[t] \in Chunk /\ log' = Append(log, msg[t]))
      BY <1>5 DEF LockSend, TypeOK
    <3>2. log \in Seq(Chunk)
      BY DEF TypeOK
    <3>3. QED
      BY <3>1, <3>2
  <2>3. SendsLast'
    BY <2>1, <2>2 DEF SendsLast
  <2>4. QED
    BY <1>5, <2>3, LockKeepsChunks
<1>6. CASE WriteChunk(t) \/ WriteLost(t) \/ WriteNothing(t) \/ WriteReset(t)
  <2>1. Writing(t)
    BY <1>6 DEF WriteChunk, WriteLost, WriteNothing, WriteReset
  <2>2. ChunksApart'
    BY <2>1, ChunksUntouched DEF Writing, Carries
  <2>3. QED
    BY <2>1, <2>2 DEF Writing, SendsLast
<1>7. CASE UnlockSend(t)
  <2>1. ChunksApart'
    BY <1>7, ChunksUntouched DEF UnlockSend, Carries, TypeOK
  <2>2. QED
    BY <1>7, <2>1 DEF UnlockSend, SendsLast, TypeOK
<1>8. CASE Remove(t)
  <2>1. ChunksApart'
    BY <1>8, ChunksUntouched DEF Remove, Carries, TypeOK
  <2>2. QED
    BY <1>8, <2>1 DEF Remove, SendsLast, TypeOK
<1>9. CASE Close(t)
  <2>1. ChunksApart'
    BY <1>9, ChunksUntouched DEF Close, Carries, TypeOK
  <2>2. QED
    BY <1>9, <2>1 DEF Close, SendsLast, TypeOK
<1>10. QED
  BY <1>1, <1>2, <1>3, <1>4, <1>5, <1>6, <1>7, <1>8, <1>9 DEF ThreadStep

LEMMA OthersKeepChunks ==
  ASSUME TypeOK, ChunksApart, SendsLast,
         MainStep \/ \E c \in Conn : ClientStep(c)
  PROVE  ChunksApart' /\ SendsLast'
<1>1. /\ log' = log /\ taken' = taken /\ msg' = msg
      /\ \A t \in Thread : pc'[t] = pc[t] \/ pc'[t] = "start"
  <2>1. CASE MainStep
    BY <2>1 DEF MainStep, Accept, AcceptFails, Register, CreateThread, CreateFails, TypeOK
  <2>2. CASE \E c \in Conn : ClientStep(c)
    BY <2>2 DEF ClientStep, Connect, ClientSend, ClientLeave, RstArrives, Resume
  <2>3. QED
    BY <2>1, <2>2
<1>2. ChunksApart'
  BY <1>1, ChunksUntouched DEF Carries
<1>3. QED
  BY <1>1, <1>2 DEF SendsLast

-----------------------------------------------------------------------------

(* A step moves what it takes to a thread's hands, and from there to the   *)
(* log.                                                                    *)
LEMMA HandsKept ==
  ASSUME TypeOK, NEW t \in Thread, ThreadStep(t), ~ ReadChunk(t), ~ LockSend(t)
  PROVE  taken' = taken /\ log' = log /\ \A u \in Thread : Carries(u) =>
           Carries(u)' /\ msg'[u] = msg[u]
<1>1. CASE Start(t) \/ ReadEof(t) \/ ReadError(t)
  BY <1>1 DEF Start, ReadEof, ReadError, Carries, TypeOK
<1>2. CASE UnlockSend(t) \/ Remove(t) \/ Close(t)
  BY <1>2 DEF UnlockSend, Remove, Close, Carries, TypeOK
<1>3. CASE WriteChunk(t) \/ WriteLost(t) \/ WriteNothing(t) \/ WriteReset(t)
  <2>1. Writing(t)
    BY <1>3 DEF WriteChunk, WriteLost, WriteNothing, WriteReset
  <2>2. QED
    BY <2>1 DEF Writing, Carries
<1>4. QED
  BY <1>1, <1>2, <1>3 DEF ThreadStep

LEMMA NextKeepsAll ==
  ASSUME TypeOK, CreatedInOrder, NothingLost,
         MainStep \/ (\E c \in Conn : ClientStep(c)) \/ \E t \in Thread : ThreadStep(t)
  PROVE  NothingLost'
<1>1. CASE MainStep \/ \E c \in Conn : ClientStep(c)
  <2>1. log' = log /\ taken' = taken /\ msg' = msg
        /\ \A t \in Thread : pc[t] = "lock" => pc'[t] = "lock"
    <3>1. CASE Accept \/ AcceptFails \/ Register \/ CreateFails
      BY <3>1 DEF Accept, AcceptFails, Register, CreateFails
    <3>2. CASE CreateThread
      <4>1. pc[created + 1] = "none" /\ pc' = [pc EXCEPT ![created + 1] = "start"]
        BY <3>2, ThreadsAreNat DEF CreateThread, CreatedInOrder, TypeOK, Thread
      <4>2. QED
        BY <3>2, <4>1 DEF CreateThread, TypeOK
    <3>3. CASE \E c \in Conn : ClientStep(c)
      BY <3>3 DEF ClientStep, Connect, ClientSend, ClientLeave, RstArrives, Resume
    <3>4. QED
      BY <1>1, <3>1, <3>2, <3>3 DEF MainStep
  <2>2. QED
    BY <2>1 DEF NothingLost, Carries
<1>2. ASSUME NEW t \in Thread, ReadChunk(t)
      PROVE  NothingLost'
  <2> DEFINE c == ConnOf(sock[t])
  <2>1. c \in Conn /\ taken[c] \in Nat
    BY <1>2, TargetTyped DEF ReadChunk, TypeOK
  <2>2. /\ \A d \in Conn : taken'[d] = IF d = c THEN taken[c] + 1 ELSE taken[d]
        /\ msg'[t] = <<c, taken[c] + 1>> /\ pc'[t] = "lock" /\ log' = log
        /\ \A u \in Thread : Carries(u) => Carries(u)' /\ msg'[u] = msg[u]
    BY <1>2, <2>1 DEF ReadChunk, Carries, TypeOK
  <2> SUFFICES ASSUME NEW d \in Conn, NEW n \in 1 .. taken'[d]
               PROVE  \/ \E k \in 1 .. Len(log) : log[k] = <<d, n>>
                      \/ \E u \in Thread : Carries(u)' /\ msg'[u] = <<d, n>>
    BY <2>2 DEF NothingLost
  <2>3. CASE d = c /\ n = taken[c] + 1
    <3>1. msg'[t] = <<d, n>> /\ <<d, n>> # << >>
      BY <2>2, <2>3
    <3>2. QED
      BY <2>2, <3>1 DEF Carries, Empty
  <2>4. CASE n \in 1 .. taken[d]
    BY <2>2, <2>4 DEF NothingLost
  <2>5. taken'[d] = (IF d = c THEN taken[c] + 1 ELSE taken[d]) /\ taken[d] \in Nat
    BY <2>2 DEF TypeOK
  <2>6. n \in 1 .. taken[d] \/ (d = c /\ n = taken[c] + 1)
    BY <2>5
  <2>7. QED
    BY <2>3, <2>4, <2>6
<1>3. ASSUME NEW t \in Thread, LockSend(t)
      PROVE  NothingLost'
  <2>1. taken' = taken /\ msg' = msg /\ log \in Seq(Chunk)
        /\ \A u \in Thread : u # t /\ Carries(u) => Carries(u)'
    BY <1>3 DEF LockSend, Carries, TypeOK
  <2>2. \A k \in 1 .. Len(log) : k \in 1 .. Len(log') /\ log'[k] = log[k]
    BY <1>3, <2>1 DEF LockSend, TypeOK
  <2>3. Carries(t) => Len(log') \in 1 .. Len(log') /\ log'[Len(log')] = msg[t]
    BY <1>3, <2>1 DEF LockSend, Carries, TypeOK
  <2>4. QED
    BY <2>1, <2>2, <2>3 DEF NothingLost
<1>4. ASSUME NEW t \in Thread, ThreadStep(t), ~ ReadChunk(t), ~ LockSend(t)
      PROVE  NothingLost'
  <2>1. taken' = taken /\ log' = log
        /\ \A u \in Thread : Carries(u) => Carries(u)' /\ msg'[u] = msg[u]
    BY <1>4, HandsKept
  <2>2. QED
    BY <2>1 DEF NothingLost
<1>5. CASE \E t \in Thread : ThreadStep(t)
  <2>1. PICK t \in Thread : ThreadStep(t)
    BY <1>5
  <2>2. QED
    BY <2>1, <1>2, <1>3, <1>4
<1>6. QED
  BY <1>1, <1>5

LEMMA NextKeepsIInv == IInv /\ [Next]_vars => IInv'
<1> SUFFICES ASSUME IInv, [Next]_vars PROVE IInv'
  OBVIOUS
<1> USE DEF IInv
<1>1. CASE UNCHANGED vars
  <2>1. TypeOK' /\ CreatedInOrder' /\ CountMatches' /\ InBounds' /\ HolderSends'
    BY <1>1 DEF vars, TypeOK, CreatedInOrder, CountMatches, Registered, InBounds, HolderSends
  <2>2. ChunksApart' /\ NothingLost' /\ SendsLast'
    BY <1>1 DEF vars, ChunksApart, NothingLost, Carries, SendsLast
  <2>3. QED
    BY <2>1, <2>2
<1>2. CASE server = "up" /\ \E c \in Conn : ClientStep(c)
  <2>1. PICK c \in Conn : ClientStep(c)
    BY <1>2
  <2>2. TypeOK'
    BY <2>1, ClientKeepsTypes
  <2>3. UNCHANGED <<globals, mainVars, locals, server>>
    BY <2>1 DEF ClientStep, Connect, ClientSend, ClientLeave, RstArrives, Resume
  <2>4. CreatedInOrder' /\ CountMatches' /\ InBounds' /\ HolderSends'
    BY <2>3 DEF CreatedInOrder, CountMatches, Registered, InBounds, HolderSends
  <2>5. QED
    BY <1>2, <2>2, <2>4, OthersKeepChunks, NextKeepsAll
<1>3. CASE server = "up" /\ MainStep
  BY <1>3, MainKeepsTypes, MainKeepsCount, MainKeepsControl, OthersKeepChunks, NextKeepsAll
<1>4. CASE server = "up" /\ \E t \in Thread : ThreadStep(t)
  BY <1>4, ThreadKeepsTypes, ThreadKeepsCount, ThreadKeepsControl, ThreadKeepsChunks, NextKeepsAll
<1>5. QED
  BY <1>1, <1>2, <1>3, <1>4 DEF Next

(* The invariant of the relay. *)
THEOREM Invariance == Spec => []IInv
BY InitIInv, NextKeepsIInv, PTL DEF Spec

(* Every variable keeps its type; in particular clnt_cnt is never negative. *)
THEOREM TypeCorrect == Spec => []TypeOK
<1>1. IInv => TypeOK
  BY DEF IInv
<1>2. QED
  BY <1>1, Invariance, PTL

(* clnt_cnt counts the registered threads that have not taken themselves   *)
(* off, even when removals hit the wrong entry of the table, and for good  *)
(* the registrations whose thread could not be created.                    *)
THEOREM CountCorrect == Spec => []CountMatches
<1>1. IInv => CountMatches
  BY DEF IInv
<1>2. QED
  BY <1>1, Invariance, PTL

(* Whatever was read is relayed once: it is in one thread's hands or one   *)
(* entry of the log, whatever sockets the threads share.                   *)
THEOREM NothingLostOrDoubled == Spec => []RelayedOnce
<1>1. IInv => RelayedOnce
  <2> SUFFICES ASSUME IInv, NEW c \in Conn, NEW n \in 1 .. taken[c]
               PROVE  LET logged == {k \in 1 .. Len(log) : log[k] = <<c, n>>}
                          held   == {t \in Thread : Carries(t) /\ msg[t] = <<c, n>>}
                      IN \/ held = {} /\ \E k \in 1 .. Len(log) : logged = {k}
                         \/ logged = {} /\ \E t \in Thread : held = {t}
    BY DEF RelayedOnce
  <2>1. ASSUME NEW k \in 1 .. Len(log), log[k] = <<c, n>>
        PROVE  /\ {j \in 1 .. Len(log) : log[j] = <<c, n>>} = {k}
               /\ {t \in Thread : Carries(t) /\ msg[t] = <<c, n>>} = {}
    BY <2>1 DEF IInv, ChunksApart
  <2>2. ASSUME NEW t \in Thread, Carries(t), msg[t] = <<c, n>>
        PROVE  /\ {u \in Thread : Carries(u) /\ msg[u] = <<c, n>>} = {t}
               /\ {j \in 1 .. Len(log) : log[j] = <<c, n>>} = {}
    BY <2>2 DEF IInv, ChunksApart
  <2>3. \/ \E k \in 1 .. Len(log) : log[k] = <<c, n>>
        \/ \E t \in Thread : Carries(t) /\ msg[t] = <<c, n>>
    BY DEF IInv, NothingLost
  <2>4. QED
    BY <2>1, <2>2, <2>3
<1>2. QED
  BY <1>1, Invariance, PTL

(* Nobody changes the table under a broadcast.                             *)
THEOREM TableStableWhileSending == Spec => TableStable
<1>1. IInv /\ [Next]_vars =>
        [mutx # NoThread /\ mutx' = mutx => UNCHANGED <<clnt_socks, clnt_cnt>>]_vars
  <2> SUFFICES ASSUME IInv, Next, mutx # NoThread
               PROVE  UNCHANGED <<clnt_socks, clnt_cnt>>
    OBVIOUS
  <2>1. CASE \E c \in Conn : ClientStep(c)
    BY <2>1 DEF ClientStep, Connect, ClientSend, ClientLeave, RstArrives, Resume
  <2>2. CASE MainStep
    BY <2>2 DEF MainStep, Accept, AcceptFails, Register, CreateThread, CreateFails
  <2>3. CASE \E t \in Thread : ThreadStep(t)
    BY <2>3 DEF ThreadStep, Start, ReadChunk, ReadEof, ReadError, LockSend, Writing,
                WriteChunk, WriteLost, WriteNothing, WriteReset, UnlockSend, Remove, Close
  <2>4. QED
    BY <2>1, <2>2, <2>3 DEF Next
<1>2. QED
  BY <1>1, Invariance, PTL DEF Spec, TableStable

(* The server implements the room: each chunk is relayed by one broadcast  *)
(* at most, and only the chunk of the running broadcast is handed out.     *)
THEOREM Implementation == Spec => ImplementsRoom
<1>1. Init => Room!RoomInit
  BY DEF Init, Room!RoomInit
<1>2. IInv /\ [Next]_vars => [Room!RoomNext]_(Room!roomVars)
  <2> SUFFICES ASSUME IInv, [Next]_vars
               PROVE  Room!RoomNext \/ UNCHANGED <<log, delivered>>
    BY DEF Room!roomVars
  <2> USE DEF IInv
  <2>1. CASE UNCHANGED vars
    BY <2>1 DEF vars
  <2>2. CASE MainStep \/ \E c \in Conn : ClientStep(c)
    BY <2>2 DEF MainStep, Accept, AcceptFails, Register, CreateThread, CreateFails,
                ClientStep, Connect, ClientSend, ClientLeave, RstArrives, Resume
  <2>3. ASSUME NEW t \in Thread, ThreadStep(t)
        PROVE  Room!RoomNext \/ UNCHANGED <<log, delivered>>
    <3>1. CASE LockSend(t) /\ msg[t] # Empty
      <4>1. msg[t] \in Chunk /\ Carries(t)
        BY <3>1 DEF LockSend, Carries, TypeOK
      <4>2. Room!Post(msg[t])
        BY <3>1, <4>1 DEF LockSend, ChunksApart, Room!Post
      <4>3. QED
        BY <4>1, <4>2 DEF Room!RoomNext
    <3>2. CASE WriteChunk(t)
      <4>1. Target(t) \in Conn
        BY <3>2, TargetTyped DEF WriteChunk, Target
      <4>2. log # << >> /\ log[Len(log)] = msg[t]
        BY <3>2 DEF WriteChunk, Writing, SendsLast
      <4>3. Room!Deliver(Target(t))
        BY <3>2, <4>2 DEF WriteChunk, Writing, Room!Deliver
      <4>4. QED
        BY <4>1, <4>3 DEF Room!RoomNext
    <3>3. CASE LockSend(t) /\ msg[t] = Empty
      BY <3>3 DEF LockSend
    <3>4. CASE WriteLost(t) \/ WriteNothing(t) \/ WriteReset(t)
      BY <3>4 DEF WriteLost, WriteNothing, WriteReset, Writing
    <3>5. CASE Start(t) \/ ReadChunk(t) \/ ReadEof(t) \/ ReadError(t)
               \/ UnlockSend(t) \/ Remove(t) \/ Close(t)
      BY <3>5 DEF Start, ReadChunk, ReadEof, ReadError, UnlockSend, Remove, Close
    <3>6. QED
      BY <2>3, <3>1, <3>2, <3>3, <3>4, <3>5 DEF ThreadStep
  <2>4. QED
    BY <2>1, <2>2, <2>3 DEF Next
<1>3. QED
  BY <1>1, <1>2, Invariance, PTL DEF Spec, ImplementsRoom, Room!RoomSpec

-----------------------------------------------------------------------------

RoomFacts == INSTANCE ChatRoomProofs

(* Everybody sees the chunks in one order: it holds of the room, and so of *)
(* every implementation of it.                                             *)
THEOREM RelayOrder == Spec => []SameOrder
<1>1. Room!RoomSpec => RoomFacts!RoomSpec
  BY DEF Room!RoomSpec, Room!RoomInit, Room!RoomNext, Room!Post, Room!Deliver, Room!roomVars,
         RoomFacts!RoomSpec, RoomFacts!RoomInit, RoomFacts!RoomNext, RoomFacts!Post,
         RoomFacts!Deliver, RoomFacts!roomVars
<1>2. RoomFacts!RoomSpec => []RoomFacts!SameOrder
  BY RoomFacts!RoomSameOrder
<1>3. RoomFacts!SameOrder <=> SameOrder
  BY DEF SameOrder, Room!SameOrder, RoomFacts!SameOrder
<1>4. QED
  BY <1>1, <1>2, <1>3, Implementation, PTL DEF ImplementsRoom
-----------------------------------------------------------------------------
(* The table and the broadcasts.                                           *)

Waiting(c) == \E k \in 1 .. Len(backlog) : backlog[k] = c

\* A connection waits once, or is behind one descriptor, and was made.
OnePlace ==
  /\ \A j, k \in 1 .. Len(backlog) : backlog[j] = backlog[k] => j = k
  /\ \A c \in Conn : Waiting(c) => tcp[c] # "none"
  /\ \A f \in Fd : fdtab[f] # NoConn =>
       /\ tcp[fdtab[f]] # "none" /\ ~ Waiting(fdtab[f])
       /\ \A g \in Fd : fdtab[g] = fdtab[f] => g = f

NobodyDeparted == (\A t \in Thread : pc[t] \notin {"close", "done"}) /\ server # "overrun"

\* Until somebody departs no descriptor is closed, so a new one is in no entry.
ListedOpen == NobodyDeparted =>
  /\ \A k \in 0 .. clnt_cnt - 1 : clnt_socks[k] \in Fd => fdtab[clnt_socks[k]] # NoConn
  /\ mpc = "register" /\ msock # -1 => fdtab[msock] # NoConn /\ msock \notin Listed

TableInv == OnePlace /\ ListedOpen /\ BroadcastCovers /\ TableExactUntilDeparture

-----------------------------------------------------------------------------
(* Which steps open, close and name descriptors, and which walk the table. *)

LEMMA DescriptorsChange ==
  ASSUME IInv, [Next]_vars
  PROVE  \/ \E c \in Conn : Connect(c)
         \/ Accept
         \/ \E t \in Thread : Close(t)
         \/ /\ UNCHANGED <<backlog, fdtab>>
            /\ \A c \in Conn : tcp'[c] = tcp[c] \/ tcp'[c] \notin {"none", "open"}
<1> USE DEF IInv
<1>1. CASE UNCHANGED vars
  BY <1>1 DEF vars
<1>2. ASSUME NEW c \in Conn, ClientSend(c) \/ ClientLeave(c) \/ RstArrives(c) \/ Resume(c)
      PROVE  /\ UNCHANGED <<backlog, fdtab>>
             /\ \A d \in Conn : tcp'[d] = tcp[d] \/ tcp'[d] \notin {"none", "open"}
  BY <1>2 DEF ClientSend, ClientLeave, RstArrives, Resume, TypeOK
<1>3. CASE AcceptFails \/ Register \/ CreateThread \/ CreateFails
  BY <1>3 DEF AcceptFails, Register, CreateThread, CreateFails
<1>4. ASSUME NEW t \in Thread, ThreadStep(t), ~ Close(t)
      PROVE  /\ UNCHANGED <<backlog, fdtab>>
             /\ \A d \in Conn : tcp'[d] = tcp[d] \/ tcp'[d] \notin {"none", "open"}
  <2>1. CASE Start(t) \/ ReadChunk(t) \/ ReadEof(t) \/ LockSend(t) \/ UnlockSend(t) \/ Remove(t)
    BY <2>1 DEF Start, ReadChunk, ReadEof, LockSend, UnlockSend, Remove
  <2>2. CASE ReadError(t)
    BY <2>2 DEF ReadError, TypeOK
  <2>3. CASE WriteChunk(t) \/ WriteLost(t) \/ WriteNothing(t) \/ WriteReset(t)
    BY <2>3 DEF WriteChunk, WriteLost, WriteNothing, WriteReset, Writing, TypeOK
  <2>4. QED
    BY <1>4, <2>1, <2>2, <2>3 DEF ThreadStep
<1>5. QED
  BY <1>1, <1>2, <1>3, <1>4 DEF Next, ClientStep, MainStep

LEMMA AcceptOpens ==
  ASSUME TypeOK, Accept
  PROVE  \E f \in Fd, c \in Conn :
           /\ mpc = "accept" /\ mpc' = "register" /\ msock' = f
           /\ fdtab[f] = NoConn /\ fdtab' = [fdtab EXCEPT ![f] = c]
           /\ backlog # << >> /\ c = Head(backlog) /\ backlog' = Tail(backlog)
           /\ UNCHANGED <<clients, taken, globals, unserved, created, locals, server>>
<1>1. Head(backlog) \in Conn
  BY DEF Accept, TypeOK
<1>2. QED
  BY <1>1 DEF Accept, FreeFd

LEMMA CloseCloses ==
  ASSUME TypeOK, NEW t \in Thread, Close(t)
  PROVE  \/ UNCHANGED <<tcp, fdtab>> /\ ConnOf(sock[t]) = NoConn
         \/ /\ sock[t] \in Fd /\ fdtab[sock[t]] \in Conn
            /\ fdtab' = [fdtab EXCEPT ![sock[t]] = NoConn]
            /\ tcp' = [tcp EXCEPT ![fdtab[sock[t]]] = "closed"]
BY TargetTyped DEF Close, ConnOf

LEMMA NextKeepsOnePlace ==
  ASSUME IInv, OnePlace, [Next]_vars
  PROVE  OnePlace'
<1> USE DEF IInv
<1>1. ASSUME NEW c \in Conn, Connect(c)
      PROVE  OnePlace'
  <2>1. /\ Len(backlog') = Len(backlog) + 1 /\ Len(backlog) \in Nat
        /\ backlog'[Len(backlog) + 1] = c
        /\ \A k \in 1 .. Len(backlog) : backlog'[k] = backlog[k] /\ backlog[k] \in Conn
    BY <1>1 DEF Connect, TypeOK
  <2>2. ~ Waiting(c) /\ \A d \in Conn : Waiting(d)' <=> d = c \/ Waiting(d)
    BY <1>1, <2>1 DEF Connect, OnePlace, Waiting
  <2>3. \A d \in Conn : tcp'[d] = IF d = c THEN "open" ELSE tcp[d]
    BY <1>1 DEF Connect, TypeOK
  <2>4. fdtab' = fdtab /\ \A f \in Fd : fdtab[f] # NoConn => fdtab[f] \in Conn /\ fdtab[f] # c
    BY <1>1 DEF Connect, OnePlace, TypeOK
  <2>5. \A j, k \in 1 .. Len(backlog') : backlog'[j] = backlog'[k] => j = k
    BY <2>1, <2>2 DEF OnePlace, Waiting
  <2>6. QED
    BY <2>2, <2>3, <2>4, <2>5 DEF OnePlace
<1>2. CASE Accept
  <2>1. PICK f \in Fd, c \in Conn :
          /\ fdtab[f] = NoConn /\ fdtab' = [fdtab EXCEPT ![f] = c] /\ tcp' = tcp
          /\ backlog # << >> /\ c = Head(backlog) /\ backlog' = Tail(backlog)
    BY <1>2, AcceptOpens
  <2>2. /\ c = backlog[1] /\ Len(backlog) \in Nat
        /\ Len(backlog) >= 1 /\ Len(backlog') = Len(backlog) - 1
        /\ \A k \in 1 .. Len(backlog') : backlog'[k] = backlog[k + 1]
    BY <2>1 DEF TypeOK
  <2>3. \A k \in 1 .. Len(backlog') : k + 1 \in 1 .. Len(backlog) /\ k + 1 # 1
    BY <2>2
  <2>4. \A k \in 1 .. Len(backlog') : backlog[k + 1] # backlog[1]
    BY <2>2, <2>3 DEF OnePlace
  <2>5. Waiting(c) /\ ~ Waiting(c)' /\ \A d \in Conn : Waiting(d)' => Waiting(d)
    BY <2>2, <2>3, <2>4 DEF Waiting
  <2>6. \A g \in Fd : fdtab[g] # NoConn => fdtab[g] \in Conn /\ fdtab[g] # c
    BY <2>5 DEF OnePlace, TypeOK
  <2>7. \A g \in Fd : fdtab'[g] = IF g = f THEN c ELSE fdtab[g]
    BY <2>1 DEF TypeOK
  <2>8. \A j, k \in 1 .. Len(backlog') : backlog'[j] = backlog'[k] => j = k
    BY <2>2, <2>3 DEF OnePlace
  <2>9. \A g \in Fd : fdtab'[g] # NoConn =>
          /\ tcp'[fdtab'[g]] # "none" /\ ~ Waiting(fdtab[g])'
          /\ \A h \in Fd : fdtab'[h] = fdtab'[g] => h = g
    BY <2>1, <2>5, <2>6, <2>7 DEF OnePlace
  <2>10. \A d \in Conn : Waiting(d)' => tcp'[d] # "none"
    BY <2>1, <2>5 DEF OnePlace
  <2>11. QED
    BY <2>8, <2>9, <2>10 DEF OnePlace
<1>3. ASSUME NEW t \in Thread, Close(t)
      PROVE  OnePlace'
  <2>1. backlog' = backlog /\ \A d \in Conn : tcp[d] # "none" => tcp'[d] # "none"
    BY <1>3, CloseCloses DEF Close, TypeOK
  <2>2. \A g \in Fd : fdtab'[g] \in {fdtab[g], NoConn} /\ fdtab[g] \in Conn \cup {NoConn}
    BY <1>3, CloseCloses DEF TypeOK
  <2>3. QED
    BY <2>1, <2>2 DEF OnePlace, Waiting
<1>4. CASE /\ UNCHANGED <<backlog, fdtab>>
           /\ \A c \in Conn : tcp'[c] = tcp[c] \/ tcp'[c] \notin {"none", "open"}
  <2>1. \A g \in Fd : fdtab[g] \in Conn \cup {NoConn}
    BY DEF TypeOK
  <2>2. QED
    BY <1>4, <2>1 DEF OnePlace, Waiting
<1>5. QED
  BY <1>1, <1>2, <1>3, <1>4, DescriptorsChange

-----------------------------------------------------------------------------

(* Nobody else touches the table, or main's descriptor, under a broadcast. *)
LEMMA Broadcasting ==
  ASSUME IInv, [Next]_vars, NEW t \in Thread, pc'[t] = "send", ~ LockSend(t)
  PROVE  /\ pc[t] = "send" /\ msg'[t] = msg[t] /\ clnt_socks' = clnt_socks
         /\ mpc = "register" => mpc' = "register" /\ msock' = msock
         /\ \/ idx'[t] = idx[t]
            \/ /\ idx'[t] = idx[t] + 1
               /\ WriteChunk(t) \/ WriteLost(t) \/ WriteNothing(t) \/ WriteReset(t)
<1> USE DEF IInv
<1>1. CASE UNCHANGED vars
  BY <1>1 DEF vars
<1>2. ASSUME NEW c \in Conn, ClientStep(c)
      PROVE  UNCHANGED <<globals, mainVars, locals>>
  BY <1>2 DEF ClientStep, Connect, ClientSend, ClientLeave, RstArrives, Resume
<1>3. CASE MainStep
  <2>1. pc[t] = "send" /\ UNCHANGED <<idx, msg>>
    BY <1>3 DEF MainStep, Accept, AcceptFails, Register, CreateThread, CreateFails, TypeOK
  <2>2. mutx # NoThread
    BY <2>1, ThreadsAreNat DEF HolderSends
  <2>3. QED
    BY <1>3, <2>1, <2>2 DEF MainStep, Accept, AcceptFails, Register, CreateThread, CreateFails
<1>4. ASSUME NEW u \in Thread, ThreadStep(u), u # t
      PROVE  pc[t] = "send" /\ UNCHANGED <<clnt_socks, mainVars>>
             /\ msg'[t] = msg[t] /\ idx'[t] = idx[t]
  <2>1. pc[t] = "send" /\ msg'[t] = msg[t] /\ idx'[t] = idx[t] /\ UNCHANGED mainVars
    <3>1. CASE Start(u) \/ ReadChunk(u) \/ ReadEof(u) \/ ReadError(u)
      BY <1>4, <3>1 DEF Start, ReadChunk, ReadEof, ReadError, TypeOK
    <3>2. CASE LockSend(u) \/ UnlockSend(u) \/ Remove(u) \/ Close(u)
      BY <1>4, <3>2 DEF LockSend, UnlockSend, Remove, Close, TypeOK
    <3>3. CASE Writing(u)
      BY <1>4, <3>3 DEF Writing, TypeOK
    <3>4. QED
      BY <1>4, <3>1, <3>2, <3>3
         DEF ThreadStep, WriteChunk, WriteLost, WriteNothing, WriteReset
  <2>2. mutx # NoThread
    BY <2>1, ThreadsAreNat DEF HolderSends
  <2>3. QED
    BY <1>4, <2>1, <2>2 DEF ThreadStep, Start, ReadChunk, ReadEof, ReadError, LockSend, Writing,
           WriteChunk, WriteLost, WriteNothing, WriteReset, UnlockSend, Remove, Close
<1>5. CASE ThreadStep(t)
  <2>1. CASE Start(t) \/ ReadChunk(t) \/ ReadEof(t) \/ ReadError(t) \/ UnlockSend(t)
             \/ Remove(t) \/ Close(t)
    BY <2>1 DEF Start, ReadChunk, ReadEof, ReadError, UnlockSend, Remove, Close, TypeOK
  <2>2. CASE WriteChunk(t) \/ WriteLost(t) \/ WriteNothing(t) \/ WriteReset(t)
    BY <2>2 DEF Writing, WriteChunk, WriteLost, WriteNothing, WriteReset, TypeOK
  <2>3. QED
    BY <1>5, <2>1, <2>2 DEF ThreadStep
<1>6. QED
  BY <1>1, <1>2, <1>3, <1>4, <1>5 DEF Next

LEMMA DeliveredGrows ==
  ASSUME IInv, [Next]_vars, NEW c \in Conn, NEW j \in 1 .. Len(delivered[c])
  PROVE  j \in 1 .. Len(delivered'[c]) /\ delivered'[c][j] = delivered[c][j]
<1> USE DEF IInv
<1>1. ASSUME NEW t \in Thread, WriteChunk(t)
      PROVE  j \in 1 .. Len(delivered'[c]) /\ delivered'[c][j] = delivered[c][j]
  <2>1. /\ Target(t) \in Conn /\ msg[t] \in Chunk
        /\ delivered' = [delivered EXCEPT ![Target(t)] = Append(@, msg[t])]
    BY <1>1, TargetTyped DEF WriteChunk, Target, TypeOK
  <2>2. delivered[c] \in Seq(Chunk) /\ delivered \in [Conn -> Seq(Chunk)]
    BY DEF TypeOK
  <2>3. delivered'[c] \in {delivered[c], Append(delivered[c], msg[t])}
    BY <2>1, <2>2
  <2>4. QED
    BY <2>1, <2>2, <2>3
<1>2. CASE \A t \in Thread : ~ WriteChunk(t)
  <2>1. delivered' = delivered
    BY <1>2 DEF Next, vars, ClientStep, Connect, ClientSend, ClientLeave, RstArrives, Resume,
                MainStep, Accept, AcceptFails, Register, CreateThread, CreateFails, ThreadStep, Start,
                ReadChunk, ReadEof, ReadError, LockSend, WriteLost, WriteNothing,
                WriteReset, UnlockSend, Remove, Close
  <2>2. QED
    BY <2>1
<1>3. QED
  BY <1>1, <1>2

(* What is behind a descriptor main has not just accepted was behind it    *)
(* before the step, and a client that is there was there.                  *)
LEMMA TargetStays ==
  ASSUME IInv, OnePlace, [Next]_vars, NEW f \in Fd, fdtab'[f] # NoConn,
         tcp'[fdtab'[f]] = "open", ~ Pending(f)'
  PROVE  fdtab[f] = fdtab'[f] /\ fdtab[f] \in Conn /\ tcp[fdtab[f]] = "open"
<1> USE DEF IInv
<1>1. fdtab[f] \in Conn \cup {NoConn}
  BY DEF TypeOK
<1>2. ASSUME NEW c \in Conn, Connect(c)
      PROVE  fdtab[f] = fdtab'[f] /\ fdtab[f] \in Conn /\ tcp[fdtab[f]] = "open"
  BY <1>1, <1>2 DEF Connect, OnePlace, TypeOK
<1>3. CASE Accept
  BY SMTT(30), <1>1, <1>3, AcceptOpens DEF Pending, TypeOK
<1>4. ASSUME NEW t \in Thread, Close(t)
      PROVE  fdtab[f] = fdtab'[f] /\ fdtab[f] \in Conn /\ tcp[fdtab[f]] = "open"
  <2>1. CASE UNCHANGED <<tcp, fdtab>>
    BY <1>1, <2>1
  <2>2. ASSUME NEW g \in Fd, fdtab[g] \in Conn, fdtab' = [fdtab EXCEPT ![g] = NoConn],
               tcp' = [tcp EXCEPT ![fdtab[g]] = "closed"]
        PROVE  fdtab[f] = fdtab'[f] /\ fdtab[f] \in Conn /\ tcp[fdtab[f]] = "open"
    <3>1. fdtab'[f] = fdtab[f]
      BY <2>2 DEF TypeOK
    <3>2. tcp'[fdtab[f]] = tcp[fdtab[f]]
      BY <1>1, <2>2, <3>1 DEF TypeOK
    <3>3. QED
      BY <1>1, <3>1, <3>2
  <2>3. QED
    BY <1>4, <2>1, <2>2, CloseCloses
<1>5. QED
  BY <1>1, <1>2, <1>3, <1>4, DescriptorsChange

LEMMA NextKeepsCovers ==
  ASSUME IInv, OnePlace, BroadcastCovers, [Next]_vars
  PROVE  BroadcastCovers'
<1> USE DEF IInv
<1> SUFFICES ASSUME NEW t \in Thread, pc'[t] = "send", msg'[t] # Empty,
                    NEW k \in 0 .. idx'[t] - 1,
                    ConnOf(clnt_socks[k])' # NoConn,
                    tcp'[ConnOf(clnt_socks[k])'] = "open",
                    ~ Pending(clnt_socks[k])'
             PROVE  \E j \in 1 .. Len(delivered'[ConnOf(clnt_socks[k])']) :
                      delivered'[ConnOf(clnt_socks[k])'][j] = msg'[t]
  BY DEF BroadcastCovers
<1>1. CASE LockSend(t)
  BY <1>1 DEF LockSend, TypeOK
<1>2. CASE ~ LockSend(t)
  <2> DEFINE f == clnt_socks[k]
  <2>1. /\ pc[t] = "send" /\ msg'[t] = msg[t] /\ clnt_socks' = clnt_socks
        /\ mpc = "register" => mpc' = "register" /\ msock' = msock
    BY <1>2, Broadcasting
  <2>2. PICK c \in Conn : f \in Fd /\ c = fdtab[f] /\ c = fdtab'[f] /\ tcp[c] = "open"
    BY <2>1, TargetStays DEF ConnOf, Pending
  <2>3. ConnOf(f) = c /\ ConnOf(clnt_socks[k])' = c /\ c # NoConn /\ ~ Pending(f)
    BY <2>1, <2>2, ChatAssumption DEF ConnOf, Pending
  <2>4. CASE k \in 0 .. idx[t] - 1
    <3>1. PICK j \in 1 .. Len(delivered[c]) : delivered[c][j] = msg[t]
      BY <2>1, <2>2, <2>3, <2>4 DEF BroadcastCovers
    <3>2. j \in 1 .. Len(delivered'[c]) /\ delivered'[c][j] = msg[t]
      BY <3>1, DeliveredGrows
    <3>3. QED
      BY <2>1, <2>3, <3>2
  <2>5. CASE k \notin 0 .. idx[t] - 1
    <3>1. idx[t] \in Nat /\ idx'[t] # idx[t]
      BY <2>5 DEF TypeOK
    <3>2. /\ idx'[t] = idx[t] + 1 /\ k = idx[t]
          /\ WriteChunk(t) \/ WriteLost(t) \/ WriteNothing(t) \/ WriteReset(t)
      BY <1>2, <2>5, <3>1, Broadcasting
    <3>3. Target(t) = c
      BY <2>3, <3>2 DEF Target
    <3>4. tcp'[c] = "open"
      BY <2>3
    <3>5. WriteChunk(t)
      BY <2>1, <2>2, <2>3, <3>2, <3>3, <3>4 DEF WriteLost, WriteNothing, WriteReset, TypeOK
    <3>6. delivered'[c] = Append(delivered[c], msg[t]) /\ delivered[c] \in Seq(Chunk)
          /\ msg[t] \in Chunk
      BY <3>3, <3>5 DEF WriteChunk, TypeOK
    <3>7. QED
      BY <2>1, <2>3, <3>6
  <2>6. QED
    BY <2>4, <2>5
<1>3. QED
  BY <1>1, <1>2
-----------------------------------------------------------------------------

(* Until somebody departs, main alone changes the table and the open       *)
(* descriptors.                                                            *)
LEMMA BeforeDeparture ==
  ASSUME IInv, [Next]_vars, NobodyDeparted'
  PROVE  /\ NobodyDeparted
         /\ \/ Accept \/ AcceptFails \/ Register
            \/ /\ UNCHANGED <<fdtab, clnt_socks, clnt_cnt>>
               /\ UNCHANGED <<mpc, msock>> \/ (mpc = "create" /\ mpc' = "accept")
<1> USE DEF IInv
<1>1. CASE UNCHANGED vars
  BY <1>1 DEF vars, NobodyDeparted
<1>2. ASSUME Next
      PROVE  NobodyDeparted
  <2> SUFFICES ASSUME NEW u \in Thread, pc[u] \in {"close", "done"}
               PROVE  pc'[u] \in {"close", "done"}
    BY <1>2 DEF NobodyDeparted, Next
  <2>1. CASE \E c \in Conn : ClientStep(c)
    BY <2>1 DEF ClientStep, Connect, ClientSend, ClientLeave, RstArrives, Resume
  <2>2. CASE MainStep
    BY <2>2, ThreadsAreNat
       DEF MainStep, Accept, AcceptFails, Register, CreateThread, CreateFails, CreatedInOrder, TypeOK
  <2>3. ASSUME NEW t \in Thread, ThreadStep(t)
        PROVE  pc'[u] \in {"close", "done"}
    <3>1. CASE Close(t)
      BY <3>1 DEF Close, TypeOK
    <3>2. CASE Start(t) \/ ReadChunk(t) \/ ReadEof(t) \/ ReadError(t) \/ LockSend(t)
               \/ UnlockSend(t) \/ Remove(t)
      BY <3>2 DEF Start, ReadChunk, ReadEof, ReadError, LockSend, UnlockSend, Remove, TypeOK
    <3>3. CASE Writing(t)
      BY <3>3 DEF Writing
    <3>4. QED
      BY <2>3, <3>1, <3>2, <3>3 DEF ThreadStep, WriteChunk, WriteLost, WriteNothing, WriteReset
  <2>4. QED
    BY <1>2, <2>1, <2>2, <2>3 DEF Next
<1>3. ASSUME NEW c \in Conn, ClientStep(c)
      PROVE  UNCHANGED <<fdtab, clnt_socks, clnt_cnt, mpc, msock>>
  BY <1>3 DEF ClientStep, Connect, ClientSend, ClientLeave, RstArrives, Resume
<1>4. CreateThread \/ CreateFails => /\ UNCHANGED <<fdtab, clnt_socks, clnt_cnt>>
                                     /\ mpc = "create" /\ mpc' = "accept"
  BY DEF CreateThread, CreateFails
<1>5. ASSUME NEW t \in Thread, ThreadStep(t)
      PROVE  UNCHANGED <<fdtab, clnt_socks, clnt_cnt, mpc, msock>>
  <2>1. ~ Remove(t) /\ ~ Close(t)
    BY DEF NobodyDeparted, Remove, Close, TypeOK
  <2>2. QED
    BY <1>5, <2>1 DEF ThreadStep, Start, ReadChunk, ReadEof, ReadError, LockSend, Writing,
           WriteChunk, WriteLost, WriteNothing, WriteReset, UnlockSend
<1>6. QED
  BY <1>1, <1>2, <1>3, <1>4, <1>5 DEF Next, MainStep, vars

LEMMA MinusOneIsNoDescriptor == -1 \notin Fd
BY ChatAssumption DEF Fd

LEMMA NextKeepsTable ==
  ASSUME IInv, ListedOpen, TableExactUntilDeparture, [Next]_vars
  PROVE  ListedOpen' /\ TableExactUntilDeparture'
<1> USE DEF IInv
<1> SUFFICES ASSUME NobodyDeparted'
             PROVE  ListedOpen' /\ TableExactUntilDeparture'
  BY DEF NobodyDeparted, ListedOpen, TableExactUntilDeparture
<1>1. NobodyDeparted
  BY BeforeDeparture
<1>2. /\ \A k \in 0 .. clnt_cnt - 1 : clnt_socks[k] \in Fd => fdtab[clnt_socks[k]] # NoConn
      /\ mpc = "register" /\ msock # -1 => fdtab[msock] # NoConn /\ msock \notin Listed
      /\ \A j, k \in 0 .. clnt_cnt - 1 :
           j # k => clnt_socks[j] # clnt_socks[k] \/ clnt_socks[j] = -1
      /\ \A f \in Fd : fdtab[f] # NoConn => f \in Listed \/ Pending(f)
  BY <1>1 DEF NobodyDeparted, ListedOpen, TableExactUntilDeparture
<1>3. CASE Accept
  <2>1. PICK f \in Fd, c \in Conn :
          /\ mpc = "accept" /\ mpc' = "register" /\ msock' = f
          /\ fdtab[f] = NoConn /\ fdtab' = [fdtab EXCEPT ![f] = c]
          /\ UNCHANGED globals
    BY <1>3, AcceptOpens
  <2>2. \A g \in Fd : fdtab'[g] = IF g = f THEN c ELSE fdtab[g]
    BY <2>1 DEF TypeOK
  <2>3. c # NoConn /\ f \notin Listed /\ Listed' = Listed
    BY <1>2, <2>1, ChatAssumption DEF Listed
  <2>4. ListedOpen'
    BY <1>2, <2>1, <2>2, <2>3 DEF ListedOpen
  <2>5. \A g \in Fd : fdtab'[g] # NoConn => g \in Listed' \/ Pending(g)'
    BY <1>2, <2>1, <2>2, <2>3 DEF Pending
  <2>6. QED
    BY <1>2, <2>1, <2>4, <2>5 DEF TableExactUntilDeparture
<1>4. CASE AcceptFails
  <2>1. UNCHANGED <<fdtab, clnt_socks, clnt_cnt>> /\ mpc = "accept" /\ msock' = -1
    BY <1>4 DEF AcceptFails
  <2>2. QED
    BY <1>2, <2>1 DEF ListedOpen, TableExactUntilDeparture, Listed, Pending
<1>5. CASE Register
  <2>1. /\ clnt_cnt < MAX_CLNT /\ clnt_cnt \in Nat /\ MAX_CLNT \in Nat
        /\ clnt_socks' = [clnt_socks EXCEPT ![clnt_cnt] = msock] /\ clnt_cnt' = clnt_cnt + 1
        /\ mpc = "register" /\ mpc' = "create" /\ fdtab' = fdtab /\ msock' = msock
    BY <1>5, ChatAssumption DEF Register, NobodyDeparted, TypeOK
  <2>2. /\ clnt_socks'[clnt_cnt] = msock
        /\ \A k \in 0 .. clnt_cnt - 1 : clnt_socks'[k] = clnt_socks[k]
    BY <2>1 DEF TypeOK
  <2>3. \A k \in 0 .. clnt_cnt' - 1 : k \in 0 .. clnt_cnt - 1 \/ k = clnt_cnt
    BY <2>1
  <2>4. Listed' = Listed \cup {msock}
    BY <2>1, <2>2, <2>3 DEF Listed
  <2>5. msock \in Fd \/ msock = -1
    BY DEF TypeOK
  <2>6. ListedOpen'
    <3>1. \A k \in 0 .. clnt_cnt' - 1 :
            clnt_socks'[k] \in Fd => fdtab[clnt_socks'[k]] # NoConn
      BY <1>2, <2>1, <2>2, <2>3, MinusOneIsNoDescriptor
    <3>2. QED
      BY <2>1, <3>1 DEF ListedOpen
  <2>7. \A j, k \in 0 .. clnt_cnt' - 1 :
          j # k => clnt_socks'[j] # clnt_socks'[k] \/ clnt_socks'[j] = -1
    <3>1. msock # -1 => \A k \in 0 .. clnt_cnt - 1 : clnt_socks[k] # msock
      BY <1>2, <2>1 DEF Listed
    <3>2. QED
      BY <1>2, <2>2, <2>3, <3>1
  <2>8. \A f \in Fd : fdtab'[f] # NoConn => f \in Listed'
    BY <1>2, <2>1, <2>4 DEF Pending
  <2>9. QED
    BY <2>6, <2>7, <2>8 DEF TableExactUntilDeparture
<1>6. CASE /\ UNCHANGED <<fdtab, clnt_socks, clnt_cnt>>
           /\ UNCHANGED <<mpc, msock>> \/ (mpc = "create" /\ mpc' = "accept")
  BY <1>2, <1>6 DEF ListedOpen, TableExactUntilDeparture, Listed, Pending
<1>7. QED
  BY <1>3, <1>4, <1>5, <1>6, BeforeDeparture

LEMMA InitTableInv == Init => TableInv
<1> SUFFICES ASSUME Init PROVE TableInv
  OBVIOUS
<1>1. OnePlace
  BY DEF Init, OnePlace, Waiting
<1>2. ListedOpen /\ BroadcastCovers /\ TableExactUntilDeparture
  BY DEF Init, ListedOpen, BroadcastCovers, TableExactUntilDeparture
<1>3. QED
  BY <1>1, <1>2 DEF TableInv

(* The table and the broadcasts, in every behaviour. *)
THEOREM TableInvariance == Spec => []TableInv
<1>1. IInv /\ TableInv /\ [Next]_vars => TableInv'
  BY NextKeepsOnePlace, NextKeepsCovers, NextKeepsTable DEF TableInv
<1>2. QED
  BY <1>1, InitTableInv, Invariance, PTL DEF Spec

(* A broadcast has reached every client of the entries it has passed that  *)
(* is still there, whatever connected, left or was closed meanwhile.       *)
THEOREM BroadcastReaches == Spec => []BroadcastCovers
<1>1. TableInv => BroadcastCovers
  BY DEF TableInv
<1>2. QED
  BY <1>1, TableInvariance, PTL

(* Until a first thread departs, the table holds every open connection     *)
(* exactly once, though the threads share main's clnt_sock.                *)
THEOREM TableExact == Spec => []TableExactUntilDeparture
<1>1. TableInv => TableExactUntilDeparture
  BY DEF TableInv
<1>2. QED
  BY <1>1, TableInvariance, PTL
=============================================================================
