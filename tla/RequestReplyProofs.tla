-------------------------- MODULE RequestReplyProofs --------------------------
(***************************************************************************)
(* Every connection of the servers of RequestReply is a Dialogue, for any  *)
(* number of clients, messages and descriptors.  The argument is that of   *)
(* one client's row - its control, its message, its answers, its server -  *)
(* of which only seven kinds of steps are possible as long as the          *)
(* conversation is not over; what ends it may end those of others.         *)
(***************************************************************************)
EXTENDS RequestReply, SequenceTheorems, TLAPS

USE DEF client, wire, server

\* What c sent is being answered; c is owed an answer.
Working(c) == serving[c] \in {"send", "long"}
Asking(c) == req[c] # "none" \/ Working(c)

\* Who waits is owed one answer or has it coming; who does not is owed none.
InStep == \A c \in Clnt : ~ Over(c) =>
  \/ /\ cl[c] = "recv"
     /\ \/ req[c] # "none" /\ ~ Working(c) /\ rep[c] = 0
        \/ req[c] = "none" /\ Working(c) /\ rep[c] = 0
        \/ req[c] = "none" /\ ~ Working(c) /\ rep[c] = 1
  \/ cl[c] # "recv" /\ ~ Asking(c) /\ rep[c] = 0

\* Where the listening process is, and whom it holds.
Listening ==
  /\ spc = "accept" => served < MaxServed
  /\ prog \in Forked \cup {"compute"} => served = 0
  /\ prog \in Forked /\ spc = "accept" => held = {}
  /\ spc = "fork" => cur \in held
  /\ spc \in {"fork", "close"} => prog \in Forked /\ cur \in Clnt

IInv == TypeOK /\ InStep /\ Listening

-----------------------------------------------------------------------------
(* The steps of one row. *)

RowStays(c) == cl'[c] = cl[c] /\ req'[c] = req[c] /\ rep'[c] = rep[c] /\ serving'[c] = serving[c]

\* connect(), and a process that begins to serve: nothing is owed.
RowTurns(c) ==
  /\ req'[c] = req[c] /\ rep'[c] = rep[c]
  /\ \/ cl[c] = "start" /\ cl'[c] = "send" /\ serving'[c] = serving[c]
     \/ cl'[c] = cl[c] /\ serving[c] = "none" /\ serving'[c] = "recv"

\* Nothing is sent, and waited for all the same.
RowMutes(c) ==
  /\ cl[c] = "send" /\ cl'[c] = "stuck"
  /\ req'[c] = req[c] /\ rep'[c] = rep[c] /\ serving'[c] = serving[c]

RowAsks(c) ==
  /\ cl[c] = "send" /\ cl'[c] = "recv" /\ req'[c] # "none"
  /\ rep'[c] = rep[c] /\ serving'[c] = serving[c]

RowReads(c) ==
  /\ req[c] # "none" /\ req'[c] = "none" /\ serving[c] = "recv" /\ Working(c)'
  /\ cl'[c] = cl[c] /\ rep'[c] = rep[c]

RowWrites(c) ==
  /\ Working(c) /\ serving'[c] = "recv" /\ rep'[c] = rep[c] + 1
  /\ cl'[c] = cl[c] /\ req'[c] = req[c]

RowHears(c) ==
  /\ cl[c] \in {"recv", "stuck"} /\ cl'[c] = "send" /\ rep[c] > 0 /\ rep'[c] = rep[c] - 1
  /\ req'[c] = req[c] /\ serving'[c] = serving[c]

RowStep(c) ==
  \/ RowStays(c) \/ RowTurns(c) \/ RowMutes(c) \/ RowAsks(c) \/ RowReads(c) \/ RowWrites(c)
  \/ RowHears(c)

(* A step of the row keeps what the row owes. *)
LEMMA RowKeepsInStep ==
  ASSUME TypeOK, InStep, NEW c \in Clnt, ~ Over(c), ~ Over(c)', RowStep(c)
  PROVE  \/ /\ cl'[c] = "recv"
            /\ \/ req'[c] # "none" /\ ~ Working(c)' /\ rep'[c] = 0
               \/ req'[c] = "none" /\ Working(c)' /\ rep'[c] = 0
               \/ req'[c] = "none" /\ ~ Working(c)' /\ rep'[c] = 1
         \/ cl'[c] # "recv" /\ ~ Asking(c)' /\ rep'[c] = 0
BY DEF TypeOK, InStep, Asking, Working, RowStep, RowStays, RowTurns, RowMutes, RowAsks, RowReads,
   RowWrites, RowHears

-----------------------------------------------------------------------------
(* The queue and the sockets. *)

Queued(c) == \E k \in DOMAIN queue : queue[k] = c

LEMMA HeadOfQueue ==
  ASSUME TypeOK, queue # << >>
  PROVE  /\ Head(queue) \in Clnt /\ Queued(Head(queue)) /\ Tail(queue) \in Seq(Clnt)
         /\ \A c : (\E k \in DOMAIN Tail(queue) : Tail(queue)[k] = c) => Queued(c)
<1>1. /\ queue \in Seq(Clnt) /\ Len(queue) \in Nat /\ Len(queue) >= 1
      /\ DOMAIN queue = 1 .. Len(queue) /\ Head(queue) = queue[1]
  BY DEF TypeOK
<1>2. /\ Tail(queue) \in Seq(Clnt) /\ DOMAIN Tail(queue) = 1 .. Len(queue) - 1
      /\ \A k \in 1 .. Len(queue) - 1 : Tail(queue)[k] = queue[k + 1]
  BY <1>1
<1>3. Head(queue) \in Clnt /\ Queued(Head(queue))
  BY <1>1 DEF Queued
<1>4. \A k \in DOMAIN Tail(queue) : k + 1 \in DOMAIN queue /\ Tail(queue)[k] = queue[k + 1]
  BY <1>1, <1>2
<1>5. QED
  BY <1>2, <1>3, <1>4 DEF Queued

LEMMA UpIs == \A c : Up(c) <=> Queued(c) \/ c \in held \/ serving[c] \in {"recv", "send", "long"}
BY DEF Up, Queued

LEMMA AcceptTakes ==
  ASSUME TypeOK, Accept
  PROVE  /\ cur' = Head(queue) /\ cur' \in Clnt /\ queue' \in Seq(Clnt) /\ Up(cur')
         /\ held' = held \cup {cur'}
         /\ \A c : Queued(c)' \/ c \in held' => Up(c)
BY HeadOfQueue, UpIs DEF Accept, Queued

-----------------------------------------------------------------------------
(* What a step does to every row.                                          *)

\* c's conversation is over after the step, or was not and moved.
Moves(c) == Over(c)' \/ (~ Over(c) /\ RowStep(c))

(* A row whose socket is not opened stays over. *)
LEMMA StillOver ==
  ASSUME NEW c \in Clnt, Over(c), Up(c)' => Up(c),
         cl'[c] = cl[c] \/ (cl[c] \notin {"start", "gone", "reset"} /\ cl'[c] # "start"),
         serving'[c] = serving[c] \/ serving[c] \notin {"spin", "over"},
         fit'[c] = "all" => fit[c] = "all"
  PROVE  Over(c)'
BY DEF Over

LEMMA OthersMove ==
  ASSUME NEW c \in Clnt, RowStays(c), Up(c)' => Up(c), fit'[c] = fit[c]
  PROVE  Moves(c)
BY StillOver DEF Moves, RowStays, RowStep

LEMMA ServedMoves ==
  ASSUME NEW c \in Clnt, cl'[c] = cl[c], serving[c] \notin {"spin", "over"}, Up(c)' => Up(c),
         fit'[c] = "all" => fit[c] = "all",
         Over(c)' \/ RowTurns(c) \/ RowReads(c) \/ RowWrites(c)
  PROVE  Moves(c)
BY StillOver DEF Moves, RowStep

-----------------------------------------------------------------------------
(* The clients. *)

LEMMA ConnectMoves ==
  ASSUME IInv, NEW c \in Clnt, Connect(c)
  PROVE  (\A d \in Clnt : Moves(d)) /\ TypeOK' /\ Listening'
<1> USE DEF IInv
<1>1. /\ cl[c] = "start" /\ cl' = [cl EXCEPT ![c] = "send"] /\ queue' = Append(queue, c)
      /\ UNCHANGED <<prog, broken, serving, limit, sent, req, rep, fit, spc, cur, served, held>>
  BY DEF Connect, ClientGoes
<1>2. \A d \in Clnt : cl'[d] = IF d = c THEN "send" ELSE cl[d]
  BY <1>1 DEF TypeOK
<1>3. /\ queue \in Seq(Clnt) /\ queue' \in Seq(Clnt) /\ DOMAIN queue = 1 .. Len(queue)
      /\ Len(queue) \in Nat /\ DOMAIN queue' = 1 .. Len(queue) + 1
      /\ queue'[Len(queue) + 1] = c /\ \A k \in 1 .. Len(queue) : queue'[k] = queue[k]
  BY <1>1 DEF TypeOK
<1>4. \A d \in Clnt : d # c => (Queued(d)' => Queued(d))
  BY <1>3 DEF Queued
<1>5. Up(c)'
  BY <1>3, UpIs DEF Up
<1>6. \A d \in Clnt : d # c => Moves(d)
  <2> SUFFICES ASSUME NEW d \in Clnt, d # c PROVE Moves(d)
    OBVIOUS
  <2>1. Up(d)' => Up(d)
    BY <1>1, <1>4 DEF Up, Queued
  <2>2. RowStays(d)
    BY <1>1, <1>2 DEF RowStays
  <2>3. QED
    BY <1>1, <2>1, <2>2, OthersMove
<1>7. Moves(c)
  <2>1. RowTurns(c)
    BY <1>1, <1>2 DEF RowTurns
  <2>2. Over(c) => Over(c)'
    BY <1>1, <1>2 DEF Over
  <2>3. QED
    BY <2>1, <2>2 DEF Moves, RowStep
<1>8. TypeOK'
  BY <1>1, <1>3 DEF TypeOK
<1>9. Listening'
  BY <1>1 DEF Listening
<1>10. QED
  BY <1>6, <1>7, <1>8, <1>9

(* What the other steps of a client have in common. *)
LEMMA ClientRow ==
  ASSUME RequestReplyAssumption, IInv,
         NEW c \in Clnt, UserStep(c) \/ ClientStep(c), ~ Connect(c)
  PROVE  /\ UNCHANGED <<prog, broken, serving, queue, spc, cur, served, held, limit>>
         /\ cl[c] \in {"send", "recv", "stuck"}
         /\ \E to \in {"send", "recv", "stuck", "gone", "reset"} : cl' = [cl EXCEPT ![c] = to]
         /\ sent' \in [Clnt -> 0 .. MaxReq]
         /\ req' = req \/ \E message \in {"ok", "div0", "long"} : req' = [req EXCEPT ![c] = message]
         /\ \E k \in 0 .. rep[c] : rep' = [rep EXCEPT ![c] = k]
         /\ fit' = fit \/ (fit' = [fit EXCEPT ![c] = "out"] /\ fit[c] # "all")
         /\ ~ Up(c) \/ cl'[c] \in {"gone", "reset"} \/ fit[c] # "all"
              \/ RowMutes(c) \/ RowAsks(c) \/ RowHears(c)
<1> USE DEF IInv
<1>1. /\ rep \in [Clnt -> Nat] /\ rep[c] \in Nat /\ req \in [Clnt -> {"none", "ok", "div0", "long"}]
      /\ cl \in [Clnt -> {"start", "send", "recv", "stuck", "gone", "reset"}]
      /\ rep' = rep => rep' = [rep EXCEPT ![c] = rep[c]]
  BY DEF TypeOK
<1>2. CountSent(c) => sent' \in [Clnt -> 0 .. MaxReq]
                      /\ UNCHANGED <<rep, fit, queue, spc, cur, served, held, limit>>
  <2> SUFFICES ASSUME CountSent(c)
               PROVE  sent' \in [Clnt -> 0 .. MaxReq]
                      /\ UNCHANGED <<rep, fit, queue, spc, cur, served, held, limit>>
    OBVIOUS
  <2>1. /\ sent[c] < MaxReq /\ sent' = [sent EXCEPT ![c] = sent[c] + 1]
        /\ UNCHANGED <<rep, fit, queue, spc, cur, served, held, limit>>
    BY DEF CountSent
  <2>2. sent \in [Clnt -> 0 .. MaxReq] /\ sent[c] \in 0 .. MaxReq /\ MaxReq \in Nat
    BY DEF TypeOK, RequestReplyAssumption
  <2>3. sent[c] + 1 \in 0 .. MaxReq
    BY <2>1, <2>2
  <2>4. QED
    BY <2>1, <2>2, <2>3
<1>3. ASSUME NEW message \in {"ok", "div0", "long"}, Send(c, message)
      PROVE  /\ UNCHANGED <<prog, broken, serving, rep, fit, queue, spc, cur, served, held, limit>>
             /\ cl[c] = "send" /\ sent' \in [Clnt -> 0 .. MaxReq]
             /\ \/ /\ Up(c) /\ cl' = [cl EXCEPT ![c] = "recv"]
                   /\ req' = [req EXCEPT ![c] = message]
                \/ /\ ~ Up(c) /\ req' = req
                   /\ \E to \in {"recv", "gone"} : cl' = [cl EXCEPT ![c] = to]
  BY <1>2, <1>3 DEF Send, ClientGoes
<1>4. CASE ForkSend(c) \/ CalcSend(c) \/ EchoSend(c) \/ ChatSend(c) \/ ComputeSend(c)
  <2>1. PICK message \in {"ok", "div0", "long"} : Send(c, message)
    BY <1>4 DEF ForkSend, CalcSend, EchoSend, ChatSend, ComputeSend
  <2>2. CASE Up(c)
    <3>1. cl' = [cl EXCEPT ![c] = "recv"] /\ req' = [req EXCEPT ![c] = message]
          /\ UNCHANGED <<rep, serving>> /\ cl[c] = "send"
      BY <1>3, <2>1, <2>2
    <3>2. RowAsks(c) /\ cl'[c] = "recv"
      BY <1>1, <3>1 DEF RowAsks
    <3>3. QED
      BY <1>1, <1>3, <2>1, <3>1, <3>2
  <2>3. CASE ~ Up(c)
    BY <1>1, <1>3, <2>1, <2>3
  <2>4. QED
    BY <2>2, <2>3
<1>5. CASE SendNothing(c)
  <2>1. cl[c] = "send" /\ cl' = [cl EXCEPT ![c] = "stuck"] /\ req' = req
        /\ UNCHANGED <<prog, broken, serving>> /\ CountSent(c)
    BY <1>5 DEF SendNothing, ClientGoes
  <2>2. RowMutes(c) /\ cl'[c] = "stuck"
    BY <1>1, <1>2, <2>1 DEF RowMutes
  <2>3. QED
    BY <1>1, <1>2, <2>1, <2>2
<1>6. CASE RecvReply(c)
  <2>1. /\ cl[c] \in {"recv", "stuck"} /\ cl' = [cl EXCEPT ![c] = "send"]
        /\ fit' = [fit EXCEPT ![c] = IF fit[c] = "long" THEN "out" ELSE fit[c]]
        /\ UNCHANGED <<prog, broken, serving, sent, req>>
        /\ UNCHANGED <<queue, spc, cur, served, held, limit>>
    BY <1>6 DEF RecvReply, ClientGoes
  <2>2. PICK k \in 1 .. rep[c] : (k > 1 => fit[c] = "out") /\ rep' = [rep EXCEPT ![c] = rep[c] - k]
    BY <1>6 DEF RecvReply
  <2>3. rep[c] - k \in 0 .. rep[c] /\ cl'[c] = "send"
    BY <1>1, <2>1
  <2>4. fit[c] # "all" \/ RowHears(c)
    <3>1. fit[c] = "all" => k = 1
      BY <1>1, <2>2
    <3>2. QED
      BY <1>1, <2>1, <2>2, <3>1 DEF RowHears
  <2>5. fit' = fit \/ (fit' = [fit EXCEPT ![c] = "out"] /\ fit[c] # "all")
    BY <2>1 DEF TypeOK
  <2>6. sent' \in [Clnt -> 0 .. MaxReq]
    BY <2>1 DEF TypeOK
  <2>7. QED
    BY <2>1, <2>2, <2>3, <2>4, <2>5, <2>6
<1>7. CASE RecvEnd(c)
  <2>1. /\ cl[c] \in {"recv", "stuck"} /\ ~ Up(c) /\ rep[c] = 0
        /\ UNCHANGED <<prog, broken, serving, sent, req, rep, fit, queue, spc, cur, served, held, limit>>
    BY <1>7 DEF RecvEnd, ClientGoes
  <2>2. \E to \in {"send", "gone"} : cl' = [cl EXCEPT ![c] = to]
    BY <1>7 DEF RecvEnd, ClientGoes
  <2>3. rep' = [rep EXCEPT ![c] = 0] /\ 0 \in 0 .. rep[c]
    BY <1>1, <2>1
  <2>4. sent' \in [Clnt -> 0 .. MaxReq]
    BY <2>1 DEF TypeOK
  <2>5. QED
    BY <2>1, <2>2, <2>3, <2>4
<1>8. CASE ComputeRecv(c) \/ Kill(c)
  <2>1. /\ cl[c] \in {"send", "recv", "stuck"} /\ rep' = [rep EXCEPT ![c] = 0]
        /\ UNCHANGED <<prog, broken, serving, sent, req, fit, queue, spc, cur, served, held, limit>>
        /\ \E to \in {"gone", "reset"} : cl' = [cl EXCEPT ![c] = to]
    BY <1>8 DEF ComputeRecv, Kill, ClientGoes
  <2>2. cl'[c] \in {"gone", "reset"} /\ rep'[c] = 0 /\ 0 \in 0 .. rep[c]
    BY <1>1, <2>1
  <2>3. sent' \in [Clnt -> 0 .. MaxReq]
    BY <2>1 DEF TypeOK
  <2>4. QED
    BY <2>1, <2>2, <2>3
<1>9. QED
  BY <1>4, <1>5, <1>6, <1>7, <1>8 DEF UserStep, ClientStep

LEMMA ClientMoves ==
  ASSUME RequestReplyAssumption, IInv,
         NEW c \in Clnt, UserStep(c) \/ ClientStep(c), ~ Connect(c)
  PROVE  (\A d \in Clnt : Moves(d)) /\ TypeOK' /\ Listening'
<1> USE DEF IInv
<1>1. /\ UNCHANGED <<prog, broken, serving, queue, spc, cur, served, held, limit>>
      /\ cl[c] \in {"send", "recv", "stuck"} /\ sent' \in [Clnt -> 0 .. MaxReq]
      /\ fit' = fit \/ (fit' = [fit EXCEPT ![c] = "out"] /\ fit[c] # "all")
      /\ ~ Up(c) \/ cl'[c] \in {"gone", "reset"} \/ fit[c] # "all"
           \/ RowMutes(c) \/ RowAsks(c) \/ RowHears(c)
  BY ClientRow
<1>2. PICK to \in {"send", "recv", "stuck", "gone", "reset"} : cl' = [cl EXCEPT ![c] = to]
  BY ClientRow
<1>3. PICK k \in 0 .. rep[c] : rep' = [rep EXCEPT ![c] = k]
  BY ClientRow
<1>4. /\ req' \in [Clnt -> {"none", "ok", "div0", "long"}]
      /\ \A d \in Clnt : d # c => req'[d] = req[d]
  <2>1. req' = req \/ \E message \in {"ok", "div0", "long"} : req' = [req EXCEPT ![c] = message]
    BY ClientRow
  <2>2. req \in [Clnt -> {"none", "ok", "div0", "long"}]
    BY DEF TypeOK
  <2>3. ASSUME NEW message \in {"ok", "div0", "long"}, req' = [req EXCEPT ![c] = message]
        PROVE  /\ req' \in [Clnt -> {"none", "ok", "div0", "long"}]
               /\ \A d \in Clnt : d # c => req'[d] = req[d]
    BY <2>2, <2>3
  <2>4. QED
    BY <2>1, <2>2, <2>3
<1>5. /\ \A d \in Clnt : cl'[d] = IF d = c THEN to ELSE cl[d]
      /\ \A d \in Clnt : rep'[d] = IF d = c THEN k ELSE rep[d]
      /\ rep[c] \in Nat /\ k \in Nat
      /\ \A d \in Clnt : d # c => fit'[d] = fit[d]
      /\ fit'[c] = "all" <=> fit[c] = "all"
  BY <1>1, <1>2, <1>3 DEF TypeOK
<1>6. TypeOK'
  BY <1>1, <1>2, <1>3, <1>4, <1>5 DEF TypeOK
<1>7. \A d \in Clnt : Up(d)' <=> Up(d)
  BY <1>1 DEF Up
<1>8. \A d \in Clnt : d # c => Moves(d)
  BY <1>1, <1>4, <1>5, <1>7, OthersMove DEF RowStays
<1>9. Moves(c)
  <2>1. cl'[c] # "start" /\ cl[c] \notin {"start", "gone", "reset"} /\ serving'[c] = serving[c]
    BY <1>1, <1>5
  <2>2. Over(c) => Over(c)'
    BY <1>5, <1>7, <2>1, StillOver
  <2>3. ~ Up(c) \/ cl'[c] \in {"gone", "reset"} \/ fit[c] # "all" => Over(c)'
    BY <1>5, <1>7, <2>1 DEF Over
  <2>4. QED
    BY <1>1, <2>2, <2>3 DEF Moves, RowStep
<1>11. Listening'
  BY <1>1 DEF Listening
<1>12. QED
  BY <1>6, <1>8, <1>9, <1>11

-----------------------------------------------------------------------------
(* The listening process. *)

(* A step that changes no row, and opens no socket. *)
LEMMA QuietMoves ==
  ASSUME UNCHANGED <<client, wire, serving>>, \A d \in Clnt : Up(d)' => Up(d)
  PROVE  \A d \in Clnt : Moves(d)
<1>1. \A d \in Clnt : RowStays(d)
  BY DEF RowStays
<1>2. QED
  BY <1>1, OthersMove

(* A step of the process that serves c, or of its beginning. *)
LEMMA ServingMoves ==
  ASSUME IInv, NEW c \in Clnt, NEW to, serving' = [serving EXCEPT ![c] = to],
         serving[c] \notin {"spin", "over"}, cl' = cl,
         \A d \in Clnt : d # c => req'[d] = req[d] /\ rep'[d] = rep[d] /\ fit'[d] = fit[d],
         fit'[c] = "all" => fit[c] = "all",
         \A d \in Clnt : Up(d)' => Up(d),
         Over(c)' \/ RowTurns(c) \/ RowReads(c) \/ RowWrites(c)
  PROVE  \A d \in Clnt : Moves(d)
<1> SUFFICES ASSUME NEW d \in Clnt PROVE Moves(d)
  OBVIOUS
<1>1. CASE d = c
  BY <1>1, ServedMoves
<1>2. CASE d # c
  <2>1. RowStays(d)
    BY <1>2 DEF RowStays, IInv, TypeOK
  <2>2. QED
    BY <1>2, <2>1, OthersMove
<1>3. QED
  BY <1>1, <1>2

LEMMA AcceptAndForkMoves ==
  ASSUME IInv, AcceptAndFork
  PROVE  (\A d \in Clnt : Moves(d)) /\ TypeOK' /\ Listening'
<1>1. /\ prog \in Forked /\ spc = "accept" /\ spc' = "fork" /\ Accept
      /\ UNCHANGED <<prog, client, wire, limit, served, serving>>
  BY DEF AcceptAndFork, ServerGoes
<1>2. /\ cur' \in Clnt /\ queue' \in Seq(Clnt) /\ held' = held \cup {cur'}
      /\ \A d : Queued(d)' \/ d \in held' => Up(d)
  BY <1>1, AcceptTakes DEF IInv
<1>3. held' = {cur'}
  BY <1>1, <1>2 DEF IInv, Listening
<1>4. \A d \in Clnt : Up(d)' => Up(d)
  BY <1>1, <1>2 DEF Up, Queued
<1>5. \A d \in Clnt : Moves(d)
  BY <1>1, <1>4, QuietMoves
<1>6. TypeOK'
  BY <1>1, <1>2, <1>3 DEF IInv, TypeOK
<1>7. Listening'
  BY <1>1, <1>2, <1>3 DEF IInv, Listening
<1>8. QED
  BY <1>5, <1>6, <1>7

(* accept() by a process that serves the client itself. *)
LEMMA ServeMoves ==
  ASSUME RequestReplyAssumption, IInv, AcceptAndServe \/ ComputeAccept
  PROVE  (\A d \in Clnt : Moves(d)) /\ TypeOK' /\ Listening'
<1>1. /\ prog \in {"echo", "chat", "compute"} /\ spc = "accept" /\ spc' = "busy" /\ Accept
      /\ UNCHANGED <<prog, client, wire, limit>>
      /\ served' = served \/ (served' = served + 1 /\ prog # "compute")
  BY DEF AcceptAndServe, ComputeAccept, ServerGoes
<1>2. /\ cur' \in Clnt /\ queue' \in Seq(Clnt) /\ held' = held \cup {cur'} /\ Up(cur')
      /\ \A d : Queued(d)' \/ d \in held' => Up(d)
  BY <1>1, AcceptTakes DEF IInv
<1>3. serving[cur'] = "none" /\ serving' = [serving EXCEPT ![cur'] = "recv"]
  BY <1>1, AcceptTakes DEF IInv, AcceptAndServe, ComputeAccept, Serve
<1>4. /\ serving \in [Clnt -> {"none", "recv", "send", "long", "spin", "over"}]
      /\ serving' \in [Clnt -> {"none", "recv", "send", "long", "spin", "over"}]
      /\ serving'[cur'] = "recv" /\ \A d \in Clnt : d # cur' => serving'[d] = serving[d]
  BY <1>2, <1>3 DEF IInv, TypeOK
<1>5. \A d \in Clnt : Up(d)' => Up(d)
  <2> SUFFICES ASSUME NEW d \in Clnt, Up(d)', d # cur' PROVE Up(d)
    BY <1>2
  <2>1. Queued(d)' \/ d \in held' \/ serving'[d] \in {"recv", "send", "long"}
    BY DEF Up, Queued
  <2>2. QED
    BY <1>2, <1>4, <2>1 DEF Up
<1>6. RowTurns(cur')
  BY <1>1, <1>3, <1>4 DEF RowTurns
<1>7. \A d \in Clnt : Moves(d)
  <2>1. cl' = cl /\ req' = req /\ rep' = rep /\ fit' = fit /\ serving[cur'] \notin {"spin", "over"}
    BY <1>1, <1>3
  <2>2. PICK c \in Clnt : c = cur'
    BY <1>2
  <2>3. QED
    BY <1>3, <1>5, <1>6, <2>1, <2>2, ServingMoves
<1>9. served < MaxServed /\ served \in 0 .. MaxServed /\ MaxServed \in Nat
  BY <1>1 DEF IInv, Listening, TypeOK, RequestReplyAssumption
<1>10. served' \in 0 .. MaxServed
  BY <1>1, <1>9
<1>11. TypeOK'
  BY <1>1, <1>2, <1>4, <1>10 DEF IInv, TypeOK, Forked
<1>12. Listening'
  BY <1>1 DEF IInv, Listening, Forked
<1>13. QED
  BY <1>7, <1>11, <1>12

LEMMA ServerMoves ==
  ASSUME RequestReplyAssumption, IInv, ServerStep
  PROVE  (\A d \in Clnt : Moves(d)) /\ TypeOK' /\ Listening'
<1> USE DEF IInv
<1>1. CASE AcceptAndFork
  BY <1>1, AcceptAndForkMoves
<1>2. CASE AcceptAndServe \/ ComputeAccept
  BY <1>2, ServeMoves
<1>3. CASE ComputeExhausted
  <2>1. /\ prog = "compute" /\ spc' = "over" /\ held' = {} /\ queue' = << >>
        /\ UNCHANGED <<prog, client, wire, serving, cur, served, limit>>
    BY <1>3 DEF ComputeExhausted, ServerEnds
  <2>2. \A d \in Clnt : Up(d)' => Up(d)
    BY <2>1 DEF Up
  <2>3. \A d \in Clnt : Moves(d)
    BY <2>1, <2>2, QuietMoves
  <2>4. TypeOK' /\ Listening'
    BY <2>1 DEF TypeOK, Listening, Forked
  <2>5. QED
    BY <2>3, <2>4
<1>4. CASE Fork
  <2>1. /\ spc = "fork" /\ prog \in Forked /\ cur \in Clnt /\ cur \in held /\ Up(cur)
        /\ held \subseteq {cur} /\ served = 0 /\ served < MaxServed
        /\ UNCHANGED <<prog, client, wire, limit, queue, cur, served>>
    BY <1>4 DEF Fork, ServerGoes, Listening, TypeOK, Up, RequestReplyAssumption
  <2>2. CASE ServerGoes("fork", "close") /\ Serve(cur, "none", "recv") /\ UNCHANGED held
    <3>1. /\ spc' = "close" /\ held' = held /\ serving[cur] = "none"
          /\ serving' = [serving EXCEPT ![cur] = "recv"]
      BY <2>2 DEF ServerGoes, Serve
    <3>2. /\ serving' \in [Clnt -> {"none", "recv", "send", "long", "spin", "over"}]
          /\ serving'[cur] = "recv" /\ \A d \in Clnt : d # cur => serving'[d] = serving[d]
      BY <2>1, <3>1 DEF TypeOK
    <3>3. \A d \in Clnt : Up(d)' => Up(d)
      BY <2>1, <3>1, <3>2 DEF Up
    <3>4. RowTurns(cur) /\ serving[cur] \notin {"spin", "over"}
      BY <2>1, <3>1, <3>2 DEF RowTurns
    <3>5. \A d \in Clnt : Moves(d)
      BY <2>1, <3>1, <3>3, <3>4, ServingMoves
    <3>6. TypeOK' /\ Listening'
      BY <2>1, <3>1, <3>2 DEF TypeOK, Listening
    <3>7. QED
      BY <3>5, <3>6
  <2>3. CASE ServerGoes("fork", "accept") /\ held' = held \ {cur} /\ UNCHANGED serving
    <3>1. spc' = "accept" /\ held' = {} /\ serving' = serving
      BY <2>1, <2>3 DEF ServerGoes
    <3>2. \A d \in Clnt : Up(d)' => Up(d)
      BY <2>1, <3>1 DEF Up
    <3>3. \A d \in Clnt : Moves(d)
      BY <2>1, <3>1, <3>2, QuietMoves
    <3>4. TypeOK' /\ Listening'
      BY <2>1, <3>1 DEF TypeOK, Listening
    <3>5. QED
      BY <3>3, <3>4
  <2>4. QED
    BY <1>4, <2>2, <2>3 DEF Fork
<1>5. CASE CloseCopy
  <2>1. /\ spc = "close" /\ spc' = "accept" /\ prog \in Forked /\ served = 0
        /\ served < MaxServed /\ held' = {}
        /\ UNCHANGED <<prog, client, wire, limit, queue, cur, served, serving>>
    BY <1>5 DEF CloseCopy, ServerGoes, Listening, TypeOK, RequestReplyAssumption
  <2>2. \A d \in Clnt : Up(d)' => Up(d)
    BY <2>1 DEF Up
  <2>3. \A d \in Clnt : Moves(d)
    BY <2>1, <2>2, QuietMoves
  <2>4. TypeOK' /\ Listening'
    BY <2>1 DEF TypeOK, Listening
  <2>5. QED
    BY <2>3, <2>4
<1>6. QED
  BY <1>1, <1>2, <1>3, <1>4, <1>5 DEF ServerStep

-----------------------------------------------------------------------------
(* The processes that serve a client. *)

\* The steps that recv() begins, and where they lead to.
Takes(c, next) ==
  /\ Take(c, next)
  /\ \/ next \in {"send", "long"} /\ (req[c] # "none" \/ cl[c] \in {"gone", "reset"})
     \/ next \in {"spin", "over"}

LEMMA TakeMoves ==
  ASSUME IInv, NEW c \in Clnt, NEW next \in {"send", "long", "spin", "over"}, Takes(c, next)
  PROVE  (\A d \in Clnt : Moves(d)) /\ TypeOK' /\ Listening'
<1> USE DEF IInv
<1>1. /\ serving[c] = "recv" /\ serving' = [serving EXCEPT ![c] = next]
      /\ req' = [req EXCEPT ![c] = "none"] /\ UNCHANGED <<prog, client, rep, fit, broken, server>>
  BY DEF Takes, Take, Serve
<1>2. /\ serving' \in [Clnt -> {"none", "recv", "send", "long", "spin", "over"}]
      /\ serving'[c] = next /\ \A d \in Clnt : d # c => serving'[d] = serving[d]
      /\ req' \in [Clnt -> {"none", "ok", "div0", "long"}]
      /\ req'[c] = "none" /\ \A d \in Clnt : d # c => req'[d] = req[d]
  BY <1>1 DEF TypeOK
<1>3. \A d \in Clnt : Up(d)' => Up(d)
  BY <1>1, <1>2 DEF Up
<1>4. Over(c)' \/ RowReads(c)
  <2>1. CASE next \in {"send", "long"} /\ req[c] # "none"
    BY <1>1, <1>2, <2>1 DEF RowReads, Working
  <2>2. CASE (next \in {"send", "long"} /\ cl[c] \in {"gone", "reset"}) \/ next \in {"spin", "over"}
    BY <1>1, <1>2, <2>2 DEF Over
  <2>3. QED
    BY <2>1, <2>2 DEF Takes
<1>5. \A d \in Clnt : Moves(d)
  BY <1>1, <1>2, <1>3, <1>4, ServingMoves
<1>6. TypeOK' /\ Listening'
  BY <1>1, <1>2 DEF TypeOK, Listening
<1>7. QED
  BY <1>5, <1>6

(* The process that serves c ends, and with it perhaps the server. *)
LEMMA EndMoves ==
  ASSUME RequestReplyAssumption, IInv, NEW c \in Clnt, EchoEnd(c) \/ Killed(c, "send") \/ Killed(c, "long")
  PROVE  (\A d \in Clnt : Moves(d)) /\ TypeOK' /\ Listening'
<1> USE DEF IInv
<1>1. /\ serving[c] \in {"recv", "send", "long"} /\ serving' = [serving EXCEPT ![c] = "over"]
      /\ UNCHANGED <<prog, client, wire>>
  BY DEF EchoEnd, Killed, Serve
<1>2. /\ served < MaxServed \/ spc # "accept"
      /\ served \in 0 .. MaxServed /\ MaxServed \in Nat
      /\ \/ UNCHANGED server
         \/ ServerEnds
         \/ /\ spc' = "accept" /\ held' = held \ {c} /\ served # MaxServed /\ prog = "echo"
            /\ UNCHANGED <<queue, cur, served, limit>>
  BY DEF EchoEnd, Killed, TypeOK, Listening, RequestReplyAssumption
<1>3. /\ serving' \in [Clnt -> {"none", "recv", "send", "long", "spin", "over"}]
      /\ serving'[c] = "over" /\ \A d \in Clnt : d # c => serving'[d] = serving[d]
  BY <1>1 DEF TypeOK
<1>4. \A d \in Clnt : Up(d)' => Up(d)
  BY <1>2, <1>3 DEF Up, ServerEnds
<1>5. Over(c)'
  BY <1>3 DEF Over
<1>6. \A d \in Clnt : Moves(d)
  BY <1>1, <1>4, <1>5, ServingMoves
<1>8. queue' \in Seq(Clnt) /\ held' \subseteq held
  <2>1. queue' \in {queue, << >>} /\ held' \subseteq held
    BY <1>2 DEF ServerEnds
  <2>2. queue \in Seq(Clnt) /\ << >> \in Seq(Clnt)
    BY DEF TypeOK
  <2>3. QED
    BY <2>1, <2>2
<1>9. TypeOK'
  BY <1>1, <1>2, <1>3, <1>8 DEF TypeOK, ServerEnds, Forked
<1>10. Listening'
  <2>1. served \in 0 .. MaxServed /\ MaxServed \in Nat /\ MaxServed > 0
    BY DEF TypeOK, RequestReplyAssumption
  <2>2. CASE UNCHANGED server
    BY <1>1, <2>2 DEF Listening
  <2>3. CASE ServerEnds
    BY <1>1, <2>3 DEF Listening, ServerEnds, Forked
  <2>4. CASE /\ spc' = "accept" /\ held' = held \ {c} /\ served # MaxServed /\ prog = "echo"
             /\ UNCHANGED <<queue, cur, served, limit>>
    BY <1>1, <2>1, <2>4 DEF Listening, Forked
  <2>5. QED
    BY <1>2, <2>2, <2>3, <2>4
<1>11. QED
  BY <1>6, <1>9, <1>10

LEMMA AnswerMoves ==
  ASSUME RequestReplyAssumption, IInv, NEW c \in Clnt, NEW from \in {"send", "long"},
         NEW k \in {1, 2}, NEW next \in {"recv", "over"}, Write(c, from, k, next),
         \/ k = 1 /\ fit' = fit
         \/ fit' = [fit EXCEPT ![c] = "long"]
         \/ fit' = [fit EXCEPT ![c] = "out"],
         \/ next = "recv" /\ UNCHANGED server
         \/ /\ next = "over" /\ prog = "compute" /\ spc' = "accept"
            /\ UNCHANGED <<queue, cur, served, held, limit>>
  PROVE  (\A d \in Clnt : Moves(d)) /\ TypeOK' /\ Listening'
<1> USE DEF IInv
<1>1. /\ serving[c] = from /\ serving' = [serving EXCEPT ![c] = next]
      /\ UNCHANGED <<prog, client, req, queue, cur, served, held, limit>>
      /\ \/ cl[c] = "gone" /\ broken' = [broken EXCEPT ![c] = TRUE] /\ rep' = rep
         \/ cl[c] # "gone" /\ broken' = broken /\ rep' = [rep EXCEPT ![c] = rep[c] + k]
  BY DEF Write, Serve
<1>2. /\ serving' \in [Clnt -> {"none", "recv", "send", "long", "spin", "over"}]
      /\ serving'[c] = next /\ \A d \in Clnt : d # c => serving'[d] = serving[d]
  BY <1>1 DEF TypeOK
<1>3. /\ fit' \in [Clnt -> {"all", "long", "out"}] /\ \A d \in Clnt : d # c => fit'[d] = fit[d]
      /\ fit'[c] = "all" => fit[c] = "all" /\ k = 1
  BY DEF TypeOK
<1>4. broken' \in [Clnt -> BOOLEAN]
  BY <1>1 DEF TypeOK
<1>5. /\ rep' \in [Clnt -> Nat] /\ \A d \in Clnt : d # c => rep'[d] = rep[d]
      /\ cl[c] # "gone" => rep'[c] = rep[c] + k
  <2>1. rep \in [Clnt -> Nat] /\ rep[c] + k \in Nat
    BY DEF TypeOK
  <2>2. QED
    BY <1>1, <2>1
<1>6. \A d \in Clnt : Up(d)' => Up(d)
  BY <1>1, <1>2 DEF Up
<1>7. Over(c)' \/ RowWrites(c)
  <2>1. CASE cl[c] = "gone" \/ next = "over" \/ fit'[c] # "all"
    BY <1>1, <1>2, <2>1 DEF Over
  <2>2. CASE cl[c] # "gone" /\ next = "recv" /\ fit'[c] = "all"
    BY <1>1, <1>2, <1>3, <1>5, <2>2 DEF RowWrites, Working
  <2>3. QED
    BY <2>1, <2>2
<1>8. \A d \in Clnt : Moves(d)
  <2>1. /\ serving' = [serving EXCEPT ![c] = next]
        /\ serving[c] \notin {"spin", "over"} /\ cl' = cl
    BY <1>1 DEF client
  <2>2. /\ \A d \in Clnt : d # c => req'[d] = req[d] /\ rep'[d] = rep[d] /\ fit'[d] = fit[d]
        /\ fit'[c] = "all" => fit[c] = "all"
    BY <1>1, <1>3, <1>5
  <2>3. QED
    BY <1>6, <1>7, <2>1, <2>2, ServingMoves
<1>9. TypeOK'
  BY <1>1, <1>2, <1>3, <1>4, <1>5 DEF TypeOK
<1>10. Listening'
  <2>1. prog = "compute" => served = 0 /\ served < MaxServed
    BY DEF Listening, RequestReplyAssumption
  <2>2. QED
    BY <1>1, <2>1 DEF Listening, Forked
<1>11. QED
  BY <1>8, <1>9, <1>10

(* The server's fgets() fails: nothing is sent to a client that has gone. *)
LEMMA NothingMoves ==
  ASSUME IInv, NEW c \in Clnt, ChatAnswerNothing(c)
  PROVE  (\A d \in Clnt : Moves(d)) /\ TypeOK' /\ Listening'
<1> USE DEF IInv
<1>1. /\ cl[c] = "gone" /\ serving[c] = "send" /\ serving' = [serving EXCEPT ![c] = "recv"]
      /\ UNCHANGED <<prog, client, wire, server>>
  BY DEF ChatAnswerNothing, Serve
<1>2. /\ serving' \in [Clnt -> {"none", "recv", "send", "long", "spin", "over"}]
      /\ serving'[c] = "recv" /\ \A d \in Clnt : d # c => serving'[d] = serving[d]
  BY <1>1 DEF TypeOK
<1>3. \A d \in Clnt : Up(d)' => Up(d)
  BY <1>1, <1>2 DEF Up
<1>4. Over(c)'
  BY <1>1 DEF Over
<1>5. \A d \in Clnt : Moves(d)
  BY <1>1, <1>3, <1>4, ServingMoves
<1>6. TypeOK' /\ Listening'
  BY <1>1, <1>2 DEF TypeOK, Listening
<1>7. QED
  BY <1>5, <1>6

LEMMA ServingStepMoves ==
  ASSUME RequestReplyAssumption, IInv, NEW c \in Clnt, ServingStep(c)
  PROVE  (\A d \in Clnt : Moves(d)) /\ TypeOK' /\ Listening'
<1>1. CASE EchoEnd(c) \/ SigPipe(c) \/ Overflow(c)
  BY <1>1, EndMoves DEF SigPipe, Overflow
<1>2. CASE Answer(c)
  BY <1>2, AnswerMoves DEF Answer
<1>3. CASE AnswerTooLong(c)
  <2>1. fit' = [fit EXCEPT ![c] = "long"] \/ fit' = [fit EXCEPT ![c] = "out"]
    BY <1>3 DEF AnswerTooLong
  <2>2. QED
    BY <1>3, <2>1, AnswerMoves DEF AnswerTooLong
<1>4. CASE AnswerJustFits(c)
  BY <1>4, AnswerMoves DEF AnswerJustFits
<1>5. CASE ComputeAnswer(c)
  BY <1>5, AnswerMoves DEF ComputeAnswer
<1>6. CASE ChatAnswerNothing(c)
  BY <1>6, NothingMoves
<1>7. CASE \/ ForkServe(c) \/ ForkEnd(c) \/ CalcServe(c) \/ CalcDivides(c) \/ CalcEnd(c)
           \/ EchoServe(c) \/ ChatServe(c) \/ ComputeServe(c)
  <2>1. \E next \in {"send", "long", "spin", "over"} : Takes(c, next)
    BY <1>7 DEF Takes, ForkServe, ForkEnd, CalcServe, CalcDivides, CalcEnd, EchoServe, ChatServe,
                ComputeServe, Reply, Got, AtEnd
  <2>2. QED
    BY <2>1, TakeMoves
<1>8. QED
  BY <1>1, <1>2, <1>3, <1>4, <1>5, <1>6, <1>7 DEF ServingStep

-----------------------------------------------------------------------------
(* Invariance. *)

LEMMA StepMoves ==
  ASSUME RequestReplyAssumption, IInv, [Next]_vars
  PROVE  (\A d \in Clnt : Moves(d)) /\ TypeOK' /\ Listening'
<1>1. ASSUME NEW c \in Clnt, UserStep(c) \/ ClientStep(c)
      PROVE  (\A d \in Clnt : Moves(d)) /\ TypeOK' /\ Listening'
  BY <1>1, ConnectMoves, ClientMoves
<1>2. ASSUME NEW c \in Clnt, ServingStep(c)
      PROVE  (\A d \in Clnt : Moves(d)) /\ TypeOK' /\ Listening'
  BY <1>2, ServingStepMoves
<1>3. CASE ServerStep
  BY <1>3, ServerMoves
<1>4. CASE UNCHANGED vars
  <2>1. \A d \in Clnt : Up(d)' => Up(d)
    BY <1>4 DEF vars, Up
  <2>2. \A d \in Clnt : Moves(d)
    BY <1>4, <2>1, QuietMoves DEF vars
  <2>3. TypeOK' /\ Listening'
    BY <1>4 DEF vars, IInv, TypeOK, Listening
  <2>4. QED
    BY <2>2, <2>3
<1>5. QED
  BY <1>1, <1>2, <1>3, <1>4 DEF Next

LEMMA StepKeepsIInv ==
  ASSUME RequestReplyAssumption, IInv, [Next]_vars
  PROVE  IInv'
<1>1. (\A d \in Clnt : Moves(d)) /\ TypeOK' /\ Listening'
  BY StepMoves
<1>2. InStep'
  <2> SUFFICES ASSUME NEW c \in Clnt, ~ Over(c)'
               PROVE  \/ /\ cl'[c] = "recv"
                         /\ \/ req'[c] # "none" /\ ~ Working(c)' /\ rep'[c] = 0
                            \/ req'[c] = "none" /\ Working(c)' /\ rep'[c] = 0
                            \/ req'[c] = "none" /\ ~ Working(c)' /\ rep'[c] = 1
                      \/ cl'[c] # "recv" /\ ~ Asking(c)' /\ rep'[c] = 0
    BY DEF InStep
  <2>1. ~ Over(c) /\ RowStep(c)
    BY <1>1 DEF Moves
  <2>2. QED
    BY <2>1, RowKeepsInStep DEF IInv
<1>3. QED
  BY <1>1, <1>2 DEF IInv

LEMMA InitIInv ==
  ASSUME RequestReplyAssumption, Init
  PROVE  IInv
<1>1. TypeOK
  BY DEF Init, TypeOK, RequestReplyAssumption, Forked
<1>2. InStep
  BY DEF Init, InStep, Asking, Working
<1>3. Listening
  BY DEF Init, Listening, RequestReplyAssumption
<1>4. QED
  BY <1>1, <1>2, <1>3 DEF IInv

\* Spec without its fairness, which what follows does not need.
Steps == Init /\ [][Next]_vars

(* All of it holds of every behaviour. *)
THEOREM Invariance == RequestReplyAssumption /\ Steps => []IInv
<1> SUFFICES ASSUME RequestReplyAssumption
             PROVE  Steps => []IInv
  OBVIOUS
<1>1. Init => IInv
  BY InitIInv
<1>2. IInv /\ [Next]_vars => IInv'
  BY StepKeepsIInv
<1>3. QED
  BY <1>1, <1>2, PTL DEF Steps

-----------------------------------------------------------------------------
(* The refinement: a row, seen as a conversation. *)

LEMMA RowIs ==
  ASSUME NEW c \in Clnt
  PROVE  /\ Over(c) => Conversation!State(c) = <<"no", 0, 0, TRUE>>
         /\ ~ Over(c) /\ Asking(c) => Conversation!State(c) = <<Waits(c), 1, rep[c], FALSE>>
         /\ ~ Over(c) /\ ~ Asking(c) => Conversation!State(c) = <<Waits(c), 0, rep[c], FALSE>>
<1>1. Conversation!State(c) =
        << IF Over(c) THEN "no" ELSE Waits(c), IF ~ Over(c) /\ Asking(c) THEN 1 ELSE 0,
           IF Over(c) THEN 0 ELSE rep[c], Over(c) >>
  BY DEF Conversation!State, Asking, Working
<1>2. /\ Over(c) => Over(c) = TRUE
      /\ ~ Over(c) => Over(c) = FALSE
  OBVIOUS
<1>3. /\ Over(c) => /\ (IF Over(c) THEN "no" ELSE Waits(c)) = "no"
                     /\ (IF ~ Over(c) /\ Asking(c) THEN 1 ELSE 0) = 0
                     /\ (IF Over(c) THEN 0 ELSE rep[c]) = 0
      /\ ~ Over(c) => /\ (IF Over(c) THEN "no" ELSE Waits(c)) = Waits(c)
                       /\ (IF Over(c) THEN 0 ELSE rep[c]) = rep[c]
      /\ ~ Over(c) /\ Asking(c) => (IF ~ Over(c) /\ Asking(c) THEN 1 ELSE 0) = 1
      /\ ~ Over(c) /\ ~ Asking(c) => (IF ~ Over(c) /\ Asking(c) THEN 1 ELSE 0) = 0
  OBVIOUS
<1>4. QED
  BY <1>1, <1>2, <1>3, Zenon

LEMMA RowWillBe ==
  ASSUME NEW c \in Clnt
  PROVE  /\ Over(c)' => Conversation!State(c)' = <<"no", 0, 0, TRUE>>
         /\ ~ Over(c)' /\ Asking(c)' => Conversation!State(c)' = <<Waits(c)', 1, rep'[c], FALSE>>
         /\ ~ Over(c)' /\ ~ Asking(c)' => Conversation!State(c)' = <<Waits(c)', 0, rep'[c], FALSE>>
<1>1. Conversation!State(c)' =
        << IF Over(c)' THEN "no" ELSE Waits(c)', IF ~ Over(c)' /\ Asking(c)' THEN 1 ELSE 0,
           IF Over(c)' THEN 0 ELSE rep'[c], Over(c)' >>
  BY DEF Conversation!State, Asking, Working
<1>2. /\ Over(c)' => Over(c)' = TRUE
      /\ ~ Over(c)' => Over(c)' = FALSE
  OBVIOUS
<1>3. /\ Over(c)' => /\ (IF Over(c)' THEN "no" ELSE Waits(c)') = "no"
                     /\ (IF ~ Over(c)' /\ Asking(c)' THEN 1 ELSE 0) = 0
                     /\ (IF Over(c)' THEN 0 ELSE rep'[c]) = 0
      /\ ~ Over(c)' => /\ (IF Over(c)' THEN "no" ELSE Waits(c)') = Waits(c)'
                       /\ (IF Over(c)' THEN 0 ELSE rep'[c]) = rep'[c]
      /\ ~ Over(c)' /\ Asking(c)' => (IF ~ Over(c)' /\ Asking(c)' THEN 1 ELSE 0) = 1
      /\ ~ Over(c)' /\ ~ Asking(c)' => (IF ~ Over(c)' /\ Asking(c)' THEN 1 ELSE 0) = 0
  OBVIOUS
<1>4. QED
  BY <1>1, <1>2, <1>3, Zenon

LEMMA GoesIs ==
  ASSUME NEW c \in Clnt, NEW from, NEW to
  PROVE  Conversation!Goes(c, from, to) <=>
           Conversation!State(c) = from /\ Conversation!State(c)' = to
BY DEF Conversation!State, Conversation!Goes

LEMMA GoesNowhere ==
  ASSUME NEW c \in Clnt, Conversation!State(c)' = Conversation!State(c)
  PROVE  Conversation!Goes(c, Conversation!State(c), Conversation!State(c))
BY DEF Conversation!State, Conversation!Goes

LEMMA RowConverses ==
  ASSUME IInv, IInv', NEW c \in Clnt, Moves(c)
  PROVE  \/ Conversation!Ask(c) \/ Conversation!AskNothing(c) \/ Conversation!Answer(c)
         \/ Conversation!Hear(c) \/ Conversation!End(c)
         \/ Conversation!Goes(c, Conversation!State(c), Conversation!State(c))
<1>1. CASE Over(c) /\ Over(c)'
  <2>1. Conversation!State(c)' = Conversation!State(c)
    BY <1>1, RowIs, RowWillBe
  <2>2. QED
    BY <2>1, GoesNowhere
<1>2. CASE ~ Over(c) /\ Over(c)'
  <2>1. Conversation!State(c)' = <<"no", 0, 0, TRUE>>
    BY <1>2, RowWillBe
  <2>2. QED
    BY <1>2, <2>1, GoesIs DEF Conversation!End
<1>3. CASE ~ Over(c) /\ ~ Over(c)'
  <2>1. CASE RowStays(c) \/ RowTurns(c) \/ RowReads(c)
    <3>1. rep'[c] = rep[c] /\ Waits(c)' = Waits(c) /\ (Asking(c)' <=> Asking(c))
      BY <1>3, <2>1 DEF RowStays, RowTurns, RowReads, Waits, Asking, Working
    <3>2. Conversation!State(c)' = Conversation!State(c)
      BY <1>3, <3>1, RowIs, RowWillBe
    <3>3. QED
      BY <3>2, GoesNowhere
  <2>2. CASE RowMutes(c)
    <3>1. /\ Waits(c) = "no" /\ ~ Asking(c) /\ rep[c] = 0
          /\ Waits(c)' = "nothing" /\ ~ Asking(c)' /\ rep'[c] = 0
      BY <1>3, <2>2 DEF RowMutes, Waits, Asking, Working, IInv, InStep
    <3>2. QED
      BY <1>3, <3>1, RowIs, RowWillBe, GoesIs DEF Conversation!AskNothing
  <2>3. CASE RowAsks(c)
    <3>1. /\ Waits(c) = "no" /\ ~ Asking(c) /\ rep[c] = 0
          /\ Waits(c)' = "answer" /\ Asking(c)' /\ rep'[c] = 0
      BY <1>3, <2>3 DEF RowAsks, Waits, Asking, Working, IInv, InStep
    <3>2. QED
      BY <1>3, <3>1, RowIs, RowWillBe, GoesIs DEF Conversation!Ask
  <2>4. CASE RowWrites(c)
    <3>1. /\ Waits(c) = "answer" /\ Asking(c) /\ rep[c] = 0
          /\ Waits(c)' = "answer" /\ ~ Asking(c)' /\ rep'[c] = 1
      BY <1>3, <2>4 DEF RowWrites, Waits, Asking, Working, IInv, InStep
    <3>2. QED
      BY <1>3, <3>1, RowIs, RowWillBe, GoesIs DEF Conversation!Answer
  <2>5. CASE RowHears(c)
    <3>1. /\ Waits(c) = "answer" /\ ~ Asking(c) /\ rep[c] = 1
          /\ Waits(c)' = "no" /\ ~ Asking(c)' /\ rep'[c] = 0
      BY <1>3, <2>5 DEF RowHears, Waits, Asking, Working, IInv, InStep
    <3>2. QED
      BY <1>3, <3>1, RowIs, RowWillBe, GoesIs DEF Conversation!Hear
  <2>6. QED
    BY <1>3, <2>1, <2>2, <2>3, <2>4, <2>5 DEF Moves, RowStep
<1>4. QED
  BY <1>1, <1>2, <1>3 DEF Moves

(* Every connection of every server is a conversation of Dialogue, which   *)
(* an answer longer than the client's recv() ends.                         *)
THEOREM Implementation == RequestReplyAssumption /\ Steps => ImplementsDialogue
<1> SUFFICES ASSUME RequestReplyAssumption
             PROVE  Steps => ImplementsDialogue
  OBVIOUS
<1>1. Init => Conversation!Init
  <2> SUFFICES ASSUME Init PROVE Conversation!Init
    OBVIOUS
  <2>1. \A c \in Clnt : ~ Over(c) /\ Waits(c) = "no" /\ rep[c] = 0 /\ ~ Asking(c)
    BY DEF Init, Over, Waits, Asking, Working
  <2>2. /\ \A c \in Clnt : (IF Over(c) THEN "no" ELSE Waits(c)) = "no" /\ Over(c) = FALSE
        /\ \A c \in Clnt : (IF Over(c) THEN 0 ELSE rep[c]) = 0
        /\ \A c \in Clnt :
             (IF ~ Over(c) /\ (req[c] # "none" \/ serving[c] \in {"send", "long"}) THEN 1 ELSE 0) = 0
    BY <2>1 DEF Asking, Working
  <2>3. QED
    BY <2>2, Zenon DEF Conversation!Init
<1>2. IInv /\ IInv' /\ [Next]_vars => [Conversation!Next]_(Conversation!vars)
  <2> SUFFICES ASSUME IInv, IInv', [Next]_vars PROVE Conversation!Next
    OBVIOUS
  <2>1. \A c \in Clnt : Moves(c)
    BY StepMoves
  <2>2. QED
    BY <2>1, RowConverses DEF Conversation!Next
<1>3. Steps => []IInv
  BY Invariance
<1>4. QED
  BY <1>1, <1>2, <1>3, PTL DEF Steps, ImplementsDialogue, Conversation!Spec
=============================================================================
