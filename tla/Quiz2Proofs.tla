----------------------------- MODULE Quiz2Proofs -----------------------------
(***************************************************************************)
(* What Quiz2 keeps for any number of clients, whatever they choose and    *)
(* whatever is lost.  That, until an accept() fails, the client that is    *)
(* served is the one answered last needs that nobody else has an answer    *)
(* with which it could connect later; and that no answer of the chat is    *)
(* left over, that a line is in the queue, in the server's hands or        *)
(* answered, but never two of these.                                       *)
(***************************************************************************)
EXTENDS Quiz2, SequenceTheorems, FiniteSetTheorems, TLAPS

USE DEF dgrams, tcp

\* The chat's socket is opened once the multicast socket is closed.
OneSocket ==
  /\ mcOpen => ~ chatOpen
  /\ spc = "bind" => ~ mcOpen

-----------------------------------------------------------------------------
(* Service 1. *)

\* The datagrams of c that wait: its selection and its request.
Selects(c) == \E k \in DOMAIN mcast : mcast[k][1] = c /\ mcast[k][2] # "request"
Requests(c) == \E k \in DOMAIN mcast : mcast[k] = <<c, "request">>

\* c's datagrams that are, or became, a reply: no more than c has sent.
Spent(c) ==
  replies[c] + (IF Selects(c) THEN 1 ELSE 0) + (IF Requests(c) THEN 1 ELSE 0)
             + (IF spc = "reply" /\ peer = c THEN 1 ELSE 0)

Datagrams ==
  /\ \A j, k \in DOMAIN mcast :
       mcast[j][1] = mcast[k][1] /\ (mcast[j][2] = "request" <=> mcast[k][2] = "request") => j = k
  /\ \A c \in Clnt :
       /\ Selects(c) => cl[c] # "start"
       /\ Requests(c) => cl[c] \notin {"start", "request"}
       /\ Spent(c) <= IF cl[c] = "start" THEN 0 ELSE IF cl[c] = "request" THEN 1 ELSE 2

\* c has what it needs to connect, now or later.
Able(c) == cl[c] = "connect" \/ (replies[c] > 0 /\ cl[c] \in {"start", "request", "reply"})

OneAble ==
  \A c \in Clnt : Able(c) => peer = c /\ spc \in {"listen", "accept"} /\ backlog = << >>

Orderly == ~ aborted => OneAble /\ OneServed

-----------------------------------------------------------------------------
(* Service 2. *)

\* Where a line of c may be.
Asks(c) == \E k \in DOMAIN chatq : chatq[k] = <<c, "line">>
InHands(c) == spc = "answer" /\ peer = c

OneLine ==
  /\ \A j, k \in DOMAIN chatq : chatq[j] = chatq[k] /\ chatq[j][2] = "line" => j = k
  /\ \A c \in Clnt :
       /\ Asks(c) \/ InHands(c) \/ answers[c] > 0 => cl[c] \in {"answer", "killed"}
       /\ Asks(c) => ~ InHands(c) /\ answers[c] = 0
       /\ InHands(c) => answers[c] = 0

IInv == TypeOK /\ OneSocket /\ Datagrams /\ Orderly /\ OneLine

-----------------------------------------------------------------------------
(* Queues. *)

LEMMA TailOfQueue ==
  ASSUME NEW S, NEW q \in Seq(S), q # << >>
  PROVE  /\ 1 \in DOMAIN q /\ Head(q) = q[1] /\ Head(q) \in S /\ Tail(q) \in Seq(S)
         /\ Len(Tail(q)) = Len(q) - 1
         /\ \A k \in DOMAIN Tail(q) :
              k \in Int /\ k + 1 \in DOMAIN q /\ k + 1 # 1 /\ Tail(q)[k] = q[k + 1]
<1>1. /\ Len(q) \in Nat /\ Len(q) >= 1 /\ DOMAIN q = 1 .. Len(q) /\ Head(q) = q[1]
  OBVIOUS
<1>2. /\ Tail(q) \in Seq(S) /\ Len(Tail(q)) = Len(q) - 1
      /\ \A k \in 1 .. Len(q) - 1 : Tail(q)[k] = q[k + 1]
  BY <1>1
<1>3. DOMAIN Tail(q) = 1 .. Len(q) - 1
  BY <1>1, <1>2
<1>4. QED
  BY <1>1, <1>2, <1>3

LEMMA AppendToQueue ==
  ASSUME NEW S, NEW q \in Seq(S), NEW d \in S
  PROVE  /\ Append(q, d) \in Seq(S) /\ Len(q) + 1 \notin DOMAIN q
         /\ DOMAIN Append(q, d) = DOMAIN q \cup {Len(q) + 1}
         /\ Append(q, d)[Len(q) + 1] = d
         /\ \A k \in DOMAIN q : Append(q, d)[k] = q[k]
<1>1. /\ Append(q, d) \in Seq(S) /\ Len(q) \in Nat /\ DOMAIN q = 1 .. Len(q)
      /\ DOMAIN Append(q, d) = 1 .. Len(q) + 1
      /\ Append(q, d)[Len(q) + 1] = d
      /\ \A k \in 1 .. Len(q) : Append(q, d)[k] = q[k]
  OBVIOUS
<1>2. 1 .. Len(q) + 1 = 1 .. Len(q) \cup {Len(q) + 1} /\ Len(q) + 1 \notin 1 .. Len(q)
  BY <1>1
<1>3. QED
  BY <1>1, <1>2

(* What the multicast socket holds after its first datagram was read.      *)
LEMMA McastRead ==
  ASSUME TypeOK, Datagrams, mcast # << >>, mcast' = Tail(mcast)
  PROVE  /\ mcast' \in Seq(Clnt \X Text)
         /\ Head(mcast) \in Clnt \X Text
         /\ \A j, k \in DOMAIN mcast' :
              mcast'[j][1] = mcast'[k][1] /\ (mcast'[j][2] = "request" <=> mcast'[k][2] = "request")
              => j = k
         /\ \A c \in Clnt : (Selects(c)' => Selects(c)) /\ (Requests(c)' => Requests(c))
         /\ \E h \in Clnt : /\ h = Head(mcast)[1]
                            /\ (Selects(h) /\ ~ Selects(h)') \/ (Requests(h) /\ ~ Requests(h)')
<1>1. mcast \in Seq(Clnt \X Text)
  BY DEF TypeOK
<1>2. PICK S : S = Clnt \X Text
  OBVIOUS
<1>3. /\ 1 \in DOMAIN mcast /\ Head(mcast) = mcast[1] /\ Head(mcast) \in S /\ mcast' \in Seq(S)
      /\ \A k \in DOMAIN mcast' :
           k \in Int /\ k + 1 \in DOMAIN mcast /\ k + 1 # 1 /\ mcast'[k] = mcast[k + 1]
  BY <1>1, <1>2, TailOfQueue
<1>4. mcast' \in Seq(Clnt \X Text) /\ Head(mcast) \in Clnt \X Text
  BY <1>2, <1>3
<1>5. \A j, k \in DOMAIN mcast' :
        mcast'[j][1] = mcast'[k][1] /\ (mcast'[j][2] = "request" <=> mcast'[k][2] = "request")
        => j = k
  BY <1>3 DEF Datagrams
<1>6. \A c \in Clnt : (Selects(c)' => Selects(c)) /\ (Requests(c)' => Requests(c))
  BY <1>3 DEF Selects, Requests
<1>7. PICK h \in Clnt, t \in Text : mcast[1] = <<h, t>>
  BY <1>3, <1>4
<1>h. Head(mcast)[1] = h
  BY <1>3, <1>7
<1>8. CASE t = "request"
  <2>1. Requests(h)
    BY <1>3, <1>7, <1>8 DEF Requests
  <2>2. ~ Requests(h)'
    BY <1>3, <1>7, <1>8 DEF Requests, Datagrams
  <2>3. QED
    BY <1>3, <1>4, <1>5, <1>6, <1>h, <2>1, <2>2
<1>9. CASE t # "request"
  <2>1. Selects(h)
    BY <1>3, <1>7, <1>9 DEF Selects
  <2>2. ~ Selects(h)'
    BY <1>3, <1>7, <1>9 DEF Selects, Datagrams
  <2>3. QED
    BY <1>3, <1>4, <1>5, <1>6, <1>h, <2>1, <2>2
<1>10. QED
  BY <1>8, <1>9

(* What it holds after a client sent it something it had not sent before.  *)
LEMMA McastSent ==
  ASSUME TypeOK, Datagrams, NEW c \in Clnt, NEW t \in Text, mcast' \in Sent(mcast, mcOpen, <<c, t>>),
         IF t = "request" THEN ~ Requests(c) ELSE ~ Selects(c)
  PROVE  /\ mcast' \in Seq(Clnt \X Text)
         /\ \A j, k \in DOMAIN mcast' :
              mcast'[j][1] = mcast'[k][1] /\ (mcast'[j][2] = "request" <=> mcast'[k][2] = "request")
              => j = k
         /\ \A d \in Clnt : /\ Selects(d)' => Selects(d) \/ (d = c /\ t # "request")
                            /\ Requests(d)' => Requests(d) \/ (d = c /\ t = "request")
<1>1. mcast \in Seq(Clnt \X Text)
  BY DEF TypeOK
<1>2. CASE mcast' = mcast
  BY <1>1, <1>2 DEF Datagrams, Selects, Requests
<1>3. CASE mcast' = Append(mcast, <<c, t>>)
  <2>1. PICK S : S = Clnt \X Text
    OBVIOUS
  <2>2. PICK e : e = <<c, t>>
    OBVIOUS
  <2>3. e \in S /\ e[1] = c /\ e[2] = t
    BY <2>1, <2>2
  <2>4. PICK n : n = Len(mcast) + 1
    OBVIOUS
  <2>5. /\ mcast' \in Seq(S) /\ n \notin DOMAIN mcast
        /\ DOMAIN mcast' = DOMAIN mcast \cup {n} /\ mcast'[n] = e
        /\ \A k \in DOMAIN mcast : mcast'[k] = mcast[k]
    BY <1>1, <1>3, <2>1, <2>2, <2>3, <2>4, AppendToQueue
  <2>6. mcast' \in Seq(Clnt \X Text)
    BY <2>1, <2>5
  <2>7. \A k \in DOMAIN mcast : \E d \in Clnt, u \in Text : mcast[k] = <<d, u>>
    BY <1>1
  <2>8. \A k \in DOMAIN mcast : ~ (mcast[k][1] = c /\ (mcast[k][2] = "request" <=> t = "request"))
    BY <2>7 DEF Selects, Requests
  <2>9. \A j, k \in DOMAIN mcast' :
          mcast'[j][1] = mcast'[k][1] /\ (mcast'[j][2] = "request" <=> mcast'[k][2] = "request")
          => j = k
    BY <2>3, <2>5, <2>8 DEF Datagrams
  <2>10. \A d \in Clnt : /\ Selects(d)' => Selects(d) \/ (d = c /\ t # "request")
                         /\ Requests(d)' => Requests(d) \/ (d = c /\ t = "request")
    BY <2>2, <2>3, <2>5 DEF Selects, Requests
  <2>11. QED
    BY <2>6, <2>9, <2>10
<1>4. QED
  BY <1>2, <1>3 DEF Sent

(* The same of the chat's socket, when a line of nobody's is there twice.  *)
LEMMA ChatRead ==
  ASSUME TypeOK, OneLine, chatq # << >>, chatq' = Tail(chatq)
  PROVE  /\ chatq' \in Seq(Clnt \X {"line", "q"})
         /\ Head(chatq) \in Clnt \X {"line", "q"}
         /\ \A j, k \in DOMAIN chatq' : chatq'[j] = chatq'[k] /\ chatq'[j][2] = "line" => j = k
         /\ \A c \in Clnt : Asks(c)' => Asks(c)
         /\ \E h \in Clnt : /\ h = Head(chatq)[1]
                            /\ Head(chatq)[2] = "line" => Asks(h) /\ ~ Asks(h)'
<1>1. chatq \in Seq(Clnt \X {"line", "q"})
  BY DEF TypeOK
<1>2. PICK S : S = Clnt \X {"line", "q"}
  OBVIOUS
<1>3. /\ 1 \in DOMAIN chatq /\ Head(chatq) = chatq[1] /\ Head(chatq) \in S /\ chatq' \in Seq(S)
      /\ \A k \in DOMAIN chatq' :
           k \in Int /\ k + 1 \in DOMAIN chatq /\ k + 1 # 1 /\ chatq'[k] = chatq[k + 1]
  BY <1>1, <1>2, TailOfQueue
<1>4. chatq' \in Seq(Clnt \X {"line", "q"}) /\ Head(chatq) \in Clnt \X {"line", "q"}
  BY <1>2, <1>3
<1>5. \A j, k \in DOMAIN chatq' : chatq'[j] = chatq'[k] /\ chatq'[j][2] = "line" => j = k
  BY <1>3 DEF OneLine
<1>6. \A c \in Clnt : Asks(c)' => Asks(c)
  BY <1>3 DEF Asks
<1>7. PICK h \in Clnt, t \in {"line", "q"} : chatq[1] = <<h, t>>
  BY <1>3, <1>4
<1>8. Head(chatq)[1] = h /\ Head(chatq)[2] = t
  BY <1>3, <1>7
<1>9. ASSUME t = "line" PROVE Asks(h) /\ ~ Asks(h)'
  <2>1. Asks(h)
    BY <1>3, <1>7, <1>9 DEF Asks
  <2>2. chatq[1] = <<h, "line">> /\ chatq[1][2] = "line"
    BY <1>7, <1>9
  <2>3. \A k \in DOMAIN chatq' : chatq'[k] # <<h, "line">>
    BY <1>3, <2>2 DEF OneLine
  <2>4. QED
    BY <2>1, <2>3 DEF Asks
<1>10. QED
  BY <1>4, <1>5, <1>6, <1>8, <1>9

LEMMA ChatSent ==
  ASSUME TypeOK, OneLine, NEW c \in Clnt, NEW t \in {"line", "q"},
         chatq' \in Sent(chatq, chatOpen, <<c, t>>), t = "line" => ~ Asks(c)
  PROVE  /\ chatq' \in Seq(Clnt \X {"line", "q"})
         /\ \A j, k \in DOMAIN chatq' : chatq'[j] = chatq'[k] /\ chatq'[j][2] = "line" => j = k
         /\ \A d \in Clnt : Asks(d)' => Asks(d) \/ (d = c /\ t = "line")
<1>1. chatq \in Seq(Clnt \X {"line", "q"})
  BY DEF TypeOK
<1>2. CASE chatq' = chatq
  BY <1>1, <1>2 DEF OneLine, Asks
<1>3. CASE chatq' = Append(chatq, <<c, t>>)
  <2>1. PICK S : S = Clnt \X {"line", "q"}
    OBVIOUS
  <2>2. PICK e : e = <<c, t>>
    OBVIOUS
  <2>3. e \in S /\ e[1] = c /\ e[2] = t
    BY <2>1, <2>2
  <2>4. PICK n : n = Len(chatq) + 1
    OBVIOUS
  <2>5. /\ chatq' \in Seq(S) /\ n \notin DOMAIN chatq
        /\ DOMAIN chatq' = DOMAIN chatq \cup {n} /\ chatq'[n] = e
        /\ \A k \in DOMAIN chatq : chatq'[k] = chatq[k]
    BY <1>1, <1>3, <2>1, <2>2, <2>3, <2>4, AppendToQueue
  <2>6. chatq' \in Seq(Clnt \X {"line", "q"})
    BY <2>1, <2>5
  <2>7. t = "line" => \A k \in DOMAIN chatq : chatq[k] # e
    BY <2>2 DEF Asks
  <2>8. \A j, k \in DOMAIN chatq' : chatq'[j] = chatq'[k] /\ chatq'[j][2] = "line" => j = k
    BY <2>3, <2>5, <2>7 DEF OneLine
  <2>9. \A d \in Clnt : Asks(d)' => Asks(d) \/ (d = c /\ t = "line")
    BY <2>2, <2>5 DEF Asks
  <2>10. QED
    BY <2>6, <2>8, <2>9
<1>4. QED
  BY <1>2, <1>3 DEF Sent

-----------------------------------------------------------------------------
(* Datagrams. *)

(* Most steps read and send none, and bring no client back to where it has *)
(* not sent any.                                                           *)
LEMMA DatagramsKept ==
  ASSUME TypeOK, Datagrams, UNCHANGED <<mcast, replies>>,
         \A c \in Clnt : cl'[c] = cl[c] \/ cl'[c] \notin {"start", "request"},
         spc' # "reply" \/ (spc' = spc /\ peer' = peer)
  PROVE  Datagrams'
<1>1. \A c \in Clnt : replies[c] \in 0 .. 2 /\ replies'[c] = replies[c]
  BY DEF TypeOK
<1>2. \A c \in Clnt : (Selects(c)' <=> Selects(c)) /\ (Requests(c)' <=> Requests(c))
  BY DEF Selects, Requests
<1>3. \A j, k \in DOMAIN mcast' :
        mcast'[j][1] = mcast'[k][1] /\ (mcast'[j][2] = "request" <=> mcast'[k][2] = "request")
        => j = k
  BY DEF Datagrams
<1>4. ASSUME NEW c \in Clnt
      PROVE  /\ Selects(c)' => cl'[c] # "start"
             /\ Requests(c)' => cl'[c] \notin {"start", "request"}
             /\ Spent(c)' <= IF cl'[c] = "start" THEN 0 ELSE IF cl'[c] = "request" THEN 1 ELSE 2
  BY <1>1, <1>2 DEF Datagrams, Spent
<1>5. QED
  BY <1>3, <1>4 DEF Datagrams

(* What is sent was not sent before. *)
LEMMA DatagramSent ==
  ASSUME TypeOK, Datagrams, NEW c \in Clnt, NEW t \in Text, UNCHANGED <<replies, spc, peer>>,
         mcast' \in Sent(mcast, mcOpen, <<c, t>>),
         IF t = "request" THEN cl[c] = "request" /\ cl'[c] = "reply"
                          ELSE cl[c] = "start" /\ cl'[c] \in {"request", "type"},
         \A d \in Clnt \ {c} : cl'[d] = cl[d]
  PROVE  mcast' \in Seq(Clnt \X Text) /\ Datagrams'
<1>1. \A d \in Clnt : replies[d] \in 0 .. 2 /\ replies'[d] = replies[d]
  BY DEF TypeOK
<1>2. cl[c] = "start" => ~ Selects(c) /\ ~ Requests(c)
  BY DEF Datagrams
<1>3. cl[c] = "request" => ~ Requests(c)
  BY DEF Datagrams
<1>4. IF t = "request" THEN ~ Requests(c) ELSE ~ Selects(c)
  BY <1>2, <1>3
<1>5. /\ mcast' \in Seq(Clnt \X Text)
      /\ \A j, k \in DOMAIN mcast' :
           mcast'[j][1] = mcast'[k][1] /\ (mcast'[j][2] = "request" <=> mcast'[k][2] = "request")
           => j = k
      /\ \A d \in Clnt : /\ Selects(d)' => Selects(d) \/ (d = c /\ t # "request")
                         /\ Requests(d)' => Requests(d) \/ (d = c /\ t = "request")
  BY <1>4, McastSent
<1>6. ASSUME NEW d \in Clnt
      PROVE  /\ Selects(d)' => cl'[d] # "start"
             /\ Requests(d)' => cl'[d] \notin {"start", "request"}
             /\ Spent(d)' <= IF cl'[d] = "start" THEN 0 ELSE IF cl'[d] = "request" THEN 1 ELSE 2
  <2>1. CASE d # c
    BY <1>1, <1>5, <2>1 DEF Datagrams, Spent
  <2>2. CASE d = c /\ t = "request"
    BY <1>1, <1>2, <1>3, <1>5, <2>2 DEF Datagrams, Spent
  <2>3. CASE d = c /\ t # "request"
    BY <1>1, <1>2, <1>3, <1>5, <2>3 DEF Datagrams, Spent
  <2>4. QED
    BY <2>1, <2>2, <2>3
<1>7. QED
  BY <1>5, <1>6 DEF Datagrams

LEMMA AnswersAreTexts ==
  ASSUME NEW c \in Clnt, NEW answer \in Answers[c]
  PROVE  answer \in Text /\ answer # "request"
<1>1. DOMAIN Digits = {"1", "2", "3", "12"}
  BY DEF Digits
<1>2. answer \in DOMAIN Digits
  BY Quiz2Assumption DEF Quiz2Assumption
<1>3. QED
  BY <1>1, <1>2 DEF Text

LEMMA DatagramsReceived ==
  ASSUME TypeOK, Datagrams, NEW c \in Clnt, RecvReply(c)
  PROVE  Datagrams'
<1>1. \A d \in Clnt : /\ replies[d] \in 0 .. 2 /\ replies'[d] \in Int /\ replies'[d] <= replies[d]
                      /\ cl'[d] = cl[d] \/ cl'[d] = "connect"
  BY DEF TypeOK, RecvReply, ClientGoes
<1>2. UNCHANGED <<mcast, spc, peer>>
  BY DEF RecvReply, ClientGoes
<1>3. \A d \in Clnt : (Selects(d)' <=> Selects(d)) /\ (Requests(d)' <=> Requests(d))
  BY <1>2 DEF Selects, Requests
<1>4. \A j, k \in DOMAIN mcast' :
        mcast'[j][1] = mcast'[k][1] /\ (mcast'[j][2] = "request" <=> mcast'[k][2] = "request")
        => j = k
  BY <1>2 DEF Datagrams
<1>5. ASSUME NEW d \in Clnt
      PROVE  /\ Selects(d)' => cl'[d] # "start"
             /\ Requests(d)' => cl'[d] \notin {"start", "request"}
             /\ Spent(d)' <= IF cl'[d] = "start" THEN 0 ELSE IF cl'[d] = "request" THEN 1 ELSE 2
  BY <1>1, <1>2, <1>3 DEF Datagrams, Spent
<1>6. QED
  BY <1>4, <1>5 DEF Datagrams

(* The server's two reads of the socket; the second may be of a selection. *)
LEMMA DatagramsSelected ==
  ASSUME TypeOK, Datagrams, Selection
  PROVE  mcast' \in Seq(Clnt \X Text) /\ Datagrams' /\ peer' \in Clnt
<1>1. UNCHANGED <<cl, replies>> /\ spc' # "reply" /\ spc = "select" /\ mcast # << >>
  BY DEF Selection, ServerGoes, ServerMoves
<1>2. \A c \in Clnt : replies[c] \in 0 .. 2 /\ replies'[c] = replies[c]
  BY <1>1 DEF TypeOK
<1>3. Head(mcast) \in Clnt \X Text
  BY <1>1, TailOfQueue DEF TypeOK
<1>4. peer' \in Clnt
  BY <1>3 DEF Selection
<1>5. /\ mcast' \in Seq(Clnt \X Text)
      /\ \A j, k \in DOMAIN mcast' :
           mcast'[j][1] = mcast'[k][1] /\ (mcast'[j][2] = "request" <=> mcast'[k][2] = "request")
           => j = k
      /\ \A c \in Clnt : (Selects(c)' => Selects(c)) /\ (Requests(c)' => Requests(c))
  <2>1. CASE mcast' = Tail(mcast)
    BY <1>1, <2>1, McastRead
  <2>2. CASE mcast' = << >>
    BY <2>2 DEF Selects, Requests
  <2>3. QED
    BY <2>1, <2>2 DEF Selection
<1>6. ASSUME NEW c \in Clnt
      PROVE  /\ Selects(c)' => cl'[c] # "start"
             /\ Requests(c)' => cl'[c] \notin {"start", "request"}
             /\ Spent(c)' <= IF cl'[c] = "start" THEN 0 ELSE IF cl'[c] = "request" THEN 1 ELSE 2
  BY <1>1, <1>2, <1>5 DEF Datagrams, Spent
<1>7. QED
  BY <1>4, <1>5, <1>6 DEF Datagrams

LEMMA DatagramsRequested ==
  ASSUME TypeOK, Datagrams, Request
  PROVE  mcast' \in Seq(Clnt \X Text) /\ Datagrams' /\ peer' \in Clnt
<1>1. /\ UNCHANGED <<cl, replies>> /\ spc' = "reply" /\ spc = "request" /\ mcast # << >>
      /\ mcast' = Tail(mcast) /\ peer' = Head(mcast)[1]
  BY DEF Request, ServerGoes, ServerMoves
<1>2. \A c \in Clnt : replies[c] \in 0 .. 2 /\ replies'[c] = replies[c]
  BY <1>1 DEF TypeOK
<1>3. /\ mcast' \in Seq(Clnt \X Text)
      /\ \A j, k \in DOMAIN mcast' :
           mcast'[j][1] = mcast'[k][1] /\ (mcast'[j][2] = "request" <=> mcast'[k][2] = "request")
           => j = k
      /\ \A c \in Clnt : (Selects(c)' => Selects(c)) /\ (Requests(c)' => Requests(c))
      /\ \E h \in Clnt : /\ h = Head(mcast)[1]
                         /\ (Selects(h) /\ ~ Selects(h)') \/ (Requests(h) /\ ~ Requests(h)')
  <2>1. mcast # << >> /\ mcast' = Tail(mcast)
    BY <1>1
  <2>2. QED
    BY <2>1, McastRead
<1>4. PICK h \in Clnt : /\ h = Head(mcast)[1]
                        /\ (Selects(h) /\ ~ Selects(h)') \/ (Requests(h) /\ ~ Requests(h)')
  BY <1>3
<1>5. peer' = h
  BY <1>1, <1>4
<1>6. ASSUME NEW c \in Clnt
      PROVE  /\ Selects(c)' => cl'[c] # "start"
             /\ Requests(c)' => cl'[c] \notin {"start", "request"}
             /\ Spent(c)' <= IF cl'[c] = "start" THEN 0 ELSE IF cl'[c] = "request" THEN 1 ELSE 2
  <2>1. CASE c # h
    BY <1>1, <1>2, <1>3, <1>5, <2>1 DEF Datagrams, Spent
  <2>2. CASE c = h
    BY <1>1, <1>2, <1>3, <1>4, <1>5, <2>2 DEF Datagrams, Spent
  <2>3. QED
    BY <2>1, <2>2
<1>7. QED
  BY <1>3, <1>5, <1>6 DEF Datagrams

LEMMA DatagramsReplied ==
  ASSUME TypeOK, Datagrams, Reply
  PROVE  replies' \in [Clnt -> 0 .. 2] /\ Datagrams'
<1>1. UNCHANGED <<cl, mcast, peer>> /\ spc = "reply" /\ spc' = "listen"
  BY DEF Reply, ReplyTo, ServerGoes, ServerMoves
<1>2. \A c \in Clnt : (Selects(c)' <=> Selects(c)) /\ (Requests(c)' <=> Requests(c))
  BY <1>1 DEF Selects, Requests
<1>3. \A j, k \in DOMAIN mcast' :
        mcast'[j][1] = mcast'[k][1] /\ (mcast'[j][2] = "request" <=> mcast'[k][2] = "request")
        => j = k
  BY <1>1 DEF Datagrams
<1>4. \A c \in Clnt : /\ replies[c] \in 0 .. 2 /\ replies'[c] \in Int /\ replies'[c] >= 0
                      /\ replies'[c] <= replies[c] + (IF c = peer THEN 1 ELSE 0)
  BY DEF TypeOK, Reply, ReplyTo
<1>5. ASSUME NEW c \in Clnt
      PROVE  /\ Selects(c)' => cl'[c] # "start"
             /\ Requests(c)' => cl'[c] \notin {"start", "request"}
             /\ Spent(c)' <= IF cl'[c] = "start" THEN 0 ELSE IF cl'[c] = "request" THEN 1 ELSE 2
             /\ replies'[c] <= 2
  BY <1>1, <1>2, <1>4 DEF Datagrams, Spent
<1>6. \A c \in Clnt : replies'[c] \in 0 .. 2
  BY <1>4, <1>5
<1>7. replies' = replies \/ replies' = [c \in Clnt |-> replies'[c]]
  BY DEF Reply, ReplyTo
<1>8. replies' \in [Clnt -> 0 .. 2]
  BY <1>6, <1>7 DEF TypeOK
<1>9. QED
  BY <1>3, <1>5, <1>8 DEF Datagrams

-----------------------------------------------------------------------------
(* Who is served, while no accept() has failed. *)

(* Outside listen() and accept() nobody can connect or has.                *)
LEMMA Idle ==
  ASSUME TypeOK, OneAble, OneServed, spc \notin {"listen", "accept"}
  PROVE  backlog = << >> /\ \A c \in Clnt : ~ Able(c) /\ cl[c] # "refused"
<1>1. backlog \in Seq(Clnt) /\ Len(backlog) <= 0
  BY DEF TypeOK, OneServed
<1>2. backlog = << >>
  BY <1>1
<1>3. QED
  BY <1>2 DEF OneAble, OneServed

LEMMA IdleServer ==
  ASSUME TypeOK, Orderly, spc \notin {"listen", "accept"},
         UNCHANGED <<cl, replies, backlog, aborted>>
  PROVE  Orderly'
<1> SUFFICES ASSUME OneAble, OneServed PROVE OneAble' /\ OneServed'
  BY DEF Orderly
<1>1. backlog' = << >> /\ \A c \in Clnt : ~ Able(c)' /\ cl'[c] # "refused"
  BY Idle DEF Able
<1>2. Len(backlog') = 0 /\ DOMAIN backlog' = {}
  BY <1>1
<1>3. QED
  BY <1>1, <1>2 DEF OneAble, OneServed

(* Steps that enable nobody and leave the server and the queue alone. *)
LEMMA ServedKept ==
  ASSUME Orderly, UNCHANGED <<spc, peer, backlog, aborted>>,
         \A c \in Clnt : (Able(c)' => Able(c)) /\ (cl'[c] = "refused" => cl[c] = "refused")
  PROVE  Orderly'
BY DEF Orderly, OneAble, OneServed

LEMMA ServedConnect ==
  ASSUME TypeOK, Orderly, NEW c \in Clnt, Connect(c)
  PROVE  Orderly'
<1> SUFFICES ASSUME OneAble, OneServed PROVE OneAble' /\ OneServed'
  BY DEF Orderly, Connect, ClientGoes
<1>1. UNCHANGED <<replies, spc, peer>> /\ cl[c] = "connect"
  BY DEF Connect, ClientGoes
<1>2. /\ peer = c /\ spc \in {"listen", "accept"} /\ backlog = << >>
      /\ \A d \in Clnt : Able(d) => d = c
  BY <1>1 DEF OneAble, Able
<1>3. cl'[c] \in {"recv", "refused"} /\ \A d \in Clnt \ {c} : cl'[d] = cl[d]
  BY DEF Connect, ClientGoes, TypeOK
<1>4. \A d \in Clnt : ~ Able(d)'
  BY <1>1, <1>2, <1>3 DEF Able
<1>5. CASE listening
  <2>1. backlog' = <<c>> /\ cl'[c] = "recv"
    BY <1>2, <1>5 DEF Connect, ClientGoes, TypeOK
  <2>2. Len(backlog') = 1 /\ \A k \in DOMAIN backlog' : backlog'[k] = c
    BY <2>1
  <2>3. \A d \in Clnt : cl'[d] # "refused"
    BY <1>2, <1>3, <2>1, <1>5 DEF OneServed, Connect, ClientGoes
  <2>4. QED
    BY <1>1, <1>2, <1>4, <2>2, <2>3 DEF OneAble, OneServed
<1>6. CASE ~ listening
  <2>1. backlog' = << >>
    BY <1>2, <1>6 DEF Connect
  <2>2. Len(backlog') = 0 /\ DOMAIN backlog' = {}
    BY <2>1
  <2>3. \A d \in Clnt : cl'[d] = "refused" => d = c
    BY <1>2, <1>3 DEF OneServed
  <2>4. QED
    BY <1>1, <1>2, <1>4, <2>1, <2>2, <2>3 DEF OneAble, OneServed
<1>7. QED
  BY <1>5, <1>6

LEMMA ServedReply ==
  ASSUME TypeOK, Orderly, Reply
  PROVE  Orderly'
<1> SUFFICES ASSUME OneAble, OneServed PROVE OneAble' /\ OneServed'
  BY DEF Orderly, Reply, ReplyTo, ServerGoes, ServerMoves
<1>1. UNCHANGED <<cl, backlog, peer>> /\ spc = "reply" /\ spc' = "listen"
  BY DEF Reply, ReplyTo, ServerGoes, ServerMoves
<1>2. backlog = << >> /\ \A c \in Clnt : ~ Able(c) /\ cl[c] # "refused"
  BY <1>1, Idle
<1>3. \A c \in Clnt : c # peer => replies'[c] = replies[c]
  BY DEF Reply, ReplyTo, TypeOK
<1>4. \A c \in Clnt : Able(c)' => c = peer
  BY <1>1, <1>2, <1>3 DEF Able
<1>5. Len(backlog') = 0 /\ DOMAIN backlog' = {}
  BY <1>1, <1>2
<1>6. QED
  BY <1>1, <1>2, <1>4, <1>5 DEF OneAble, OneServed

LEMMA ServedAccept ==
  ASSUME TypeOK, Orderly, Accept
  PROVE  Orderly'
<1> SUFFICES ASSUME OneAble, OneServed PROVE OneAble' /\ OneServed'
  BY DEF Orderly, Accept, ServerGoes, ServerMoves
<1>1. /\ UNCHANGED <<cl, replies>> /\ backlog # << >> /\ spc = "accept"
      /\ backlog' = Tail(backlog) /\ peer' = Head(backlog)
  BY DEF Accept, ServerGoes, ServerMoves
<1>2. backlog' \in Seq(Clnt) /\ Len(backlog') = Len(backlog) - 1
  BY <1>1, TailOfQueue DEF TypeOK
<1>3. Len(backlog) <= 1 /\ Len(backlog) \in Nat
  BY <1>1 DEF OneServed, TypeOK
<1>4. Len(backlog') \in Nat
  BY <1>2
<1>5. Len(backlog') = 0
  BY <1>2, <1>3, <1>4
<1>6. backlog' = << >> /\ DOMAIN backlog' = {}
  BY <1>2, <1>5
<1>7. \A c \in Clnt : ~ Able(c)' /\ cl'[c] # "refused"
  BY <1>1 DEF OneAble, OneServed, Able
<1>8. QED
  BY <1>1, <1>5, <1>6, <1>7 DEF OneAble, OneServed

-----------------------------------------------------------------------------
(* Lines. *)

(* Steps that read, send and answer none, and after which nobody waits for *)
(* an answer who did not wait before.                                      *)
LEMMA LinesKept ==
  ASSUME OneLine, UNCHANGED <<chatq, answers>>,
         \A c \in Clnt : cl[c] \in {"answer", "killed"} => cl'[c] \in {"answer", "killed"},
         spc' # "answer" \/ (spc' = spc /\ peer' = peer)
  PROVE  OneLine'
<1>1. \A c \in Clnt : /\ Asks(c)' <=> Asks(c)
                      /\ InHands(c)' => InHands(c)
  BY DEF Asks, InHands
<1>2. \A j, k \in DOMAIN chatq' : chatq'[j] = chatq'[k] /\ chatq'[j][2] = "line" => j = k
  BY DEF OneLine
<1>3. QED
  BY <1>1, <1>2 DEF OneLine

LEMMA LineSent ==
  ASSUME TypeOK, OneLine, NEW c \in Clnt, NEW t \in {"line", "q"},
         UNCHANGED <<answers, spc, peer>>, cl[c] = "type",
         chatq' \in Sent(chatq, chatOpen, <<c, t>>), t = "line" => cl'[c] = "answer",
         \A d \in Clnt \ {c} : cl'[d] = cl[d]
  PROVE  chatq' \in Seq(Clnt \X {"line", "q"}) /\ OneLine'
<1>1. ~ Asks(c) /\ ~ InHands(c) /\ ~ (answers[c] > 0) /\ answers[c] \in 0 .. 1
  BY DEF OneLine, TypeOK
<1>2. /\ chatq' \in Seq(Clnt \X {"line", "q"})
      /\ \A j, k \in DOMAIN chatq' : chatq'[j] = chatq'[k] /\ chatq'[j][2] = "line" => j = k
      /\ \A d \in Clnt : Asks(d)' => Asks(d) \/ (d = c /\ t = "line")
  BY <1>1, ChatSent
<1>3. answers[c] = 0
  BY <1>1
<1>4. \A d \in Clnt : InHands(d)' <=> InHands(d)
  BY DEF InHands
<1>5. ASSUME NEW d \in Clnt
      PROVE  /\ Asks(d)' \/ InHands(d)' \/ answers'[d] > 0 => cl'[d] \in {"answer", "killed"}
             /\ Asks(d)' => ~ InHands(d)' /\ answers'[d] = 0
             /\ InHands(d)' => answers'[d] = 0
  <2>1. CASE d = c
    BY <1>1, <1>2, <1>3, <1>4, <2>1 DEF OneLine
  <2>2. CASE d # c
    BY <1>2, <1>4, <2>2 DEF OneLine
  <2>3. QED
    BY <2>1, <2>2
<1>6. QED
  BY <1>2, <1>5 DEF OneLine

LEMMA LineAnswered ==
  ASSUME TypeOK, OneLine, NEW c \in Clnt, RecvAnswer(c)
  PROVE  answers' \in [Clnt -> 0 .. 1] /\ OneLine'
<1>1. UNCHANGED <<chatq, spc, peer>> /\ answers[c] > 0
  BY DEF RecvAnswer, ClientGoes
<1>2. \A d \in Clnt \ {c} : cl'[d] = cl[d] /\ answers'[d] = answers[d]
  BY DEF RecvAnswer, ClientGoes, TypeOK
<1>3. answers[c] = 1
  BY <1>1 DEF TypeOK
<1>4. answers'[c] = 0 /\ answers' \in [Clnt -> 0 .. 1]
  BY <1>3 DEF RecvAnswer, TypeOK
<1>5. ~ Asks(c) /\ ~ InHands(c)
  BY <1>3 DEF OneLine
<1>6. \A d \in Clnt : (Asks(d)' <=> Asks(d)) /\ (InHands(d)' <=> InHands(d))
  BY <1>1 DEF Asks, InHands
<1>7. \A j, k \in DOMAIN chatq' : chatq'[j] = chatq'[k] /\ chatq'[j][2] = "line" => j = k
  BY <1>1 DEF OneLine
<1>8. ASSUME NEW d \in Clnt
      PROVE  /\ Asks(d)' \/ InHands(d)' \/ answers'[d] > 0 => cl'[d] \in {"answer", "killed"}
             /\ Asks(d)' => ~ InHands(d)' /\ answers'[d] = 0
             /\ InHands(d)' => answers'[d] = 0
  <2>1. CASE d = c
    BY <1>4, <1>5, <1>6, <2>1
  <2>2. CASE d # c
    BY <1>2, <1>6, <2>2 DEF OneLine
  <2>3. QED
    BY <2>1, <2>2
<1>9. QED
  BY <1>4, <1>7, <1>8 DEF OneLine

LEMMA LineTaken ==
  ASSUME TypeOK, OneLine, ChatLine
  PROVE  chatq' \in Seq(Clnt \X {"line", "q"}) /\ peer' \in Clnt /\ OneLine'
<1>1. /\ UNCHANGED <<cl, answers>> /\ spc = "chat" /\ spc' = "answer"
      /\ chatq # << >> /\ chatq' = Tail(chatq) /\ Head(chatq)[2] = "line"
      /\ peer' = Head(chatq)[1]
  BY DEF ChatLine, TakeLine, ServerGoes, ServerMoves
<1>2. chatq # << >> /\ chatq' = Tail(chatq)
  BY <1>1
<1>3. /\ chatq' \in Seq(Clnt \X {"line", "q"})
      /\ \A j, k \in DOMAIN chatq' : chatq'[j] = chatq'[k] /\ chatq'[j][2] = "line" => j = k
      /\ \A c \in Clnt : Asks(c)' => Asks(c)
      /\ \E h \in Clnt : /\ h = Head(chatq)[1]
                         /\ Head(chatq)[2] = "line" => Asks(h) /\ ~ Asks(h)'
  BY <1>2, ChatRead
<1>4. PICK h \in Clnt : h = peer' /\ Asks(h) /\ ~ Asks(h)'
  BY <1>1, <1>3
<1>5. \A d \in Clnt : ~ InHands(d) /\ (InHands(d)' => d = h)
  BY <1>1, <1>4 DEF InHands
<1>6. ASSUME NEW d \in Clnt
      PROVE  /\ Asks(d)' \/ InHands(d)' \/ answers'[d] > 0 => cl'[d] \in {"answer", "killed"}
             /\ Asks(d)' => ~ InHands(d)' /\ answers'[d] = 0
             /\ InHands(d)' => answers'[d] = 0
  BY <1>1, <1>3, <1>4, <1>5 DEF OneLine
<1>7. QED
  BY <1>3, <1>4, <1>6 DEF OneLine

LEMMA LinesClosed ==
  ASSUME TypeOK, OneLine, ChatQuit
  PROVE  chatq' \in Seq(Clnt \X {"line", "q"}) /\ peer' \in Clnt /\ OneLine'
<1>1. /\ UNCHANGED <<cl, answers>> /\ spc' = "select" /\ chatq # << >>
      /\ chatq' = << >> /\ peer' = Head(chatq)[1]
  BY DEF ChatQuit, ServerGoes, ServerMoves
<1>2. Head(chatq) \in Clnt \X {"line", "q"}
  BY <1>1, TailOfQueue DEF TypeOK
<1>3. \A c \in Clnt : ~ Asks(c)' /\ ~ InHands(c)'
  BY <1>1 DEF Asks, InHands
<1>4. DOMAIN chatq' = {} /\ chatq' \in Seq(Clnt \X {"line", "q"})
  BY <1>1
<1>5. OneLine'
  BY <1>1, <1>3, <1>4 DEF OneLine
<1>6. QED
  BY <1>1, <1>2, <1>4, <1>5

LEMMA LineReplied ==
  ASSUME TypeOK, OneLine, ChatAnswer
  PROVE  answers' \in [Clnt -> 0 .. 1] /\ OneLine'
<1>1. UNCHANGED <<cl, chatq, peer>> /\ spc = "answer" /\ spc' = "chat"
  BY DEF ChatAnswer, ServerGoes, ServerMoves
<1>2. \A d \in Clnt : /\ d # peer => answers'[d] = answers[d]
                      /\ d = peer => answers'[d] \in {answers[d], answers[d] + 1}
  BY DEF ChatAnswer, TypeOK
<1>3. \A d \in Clnt : (InHands(d) <=> d = peer) /\ ~ InHands(d)' /\ (Asks(d)' <=> Asks(d))
  BY <1>1 DEF InHands, Asks
<1>4. \A d \in Clnt : answers[d] \in 0 .. 1 /\ (d = peer => answers[d] = 0)
  BY <1>3 DEF OneLine, TypeOK
<1>5. \A d \in Clnt : answers'[d] \in 0 .. 1
  BY <1>2, <1>4
<1>6. answers' \in [Clnt -> 0 .. 1]
  <2>1. answers' = [d \in Clnt |-> answers'[d]]
    BY DEF ChatAnswer, TypeOK
  <2>2. QED
    BY <1>5, <2>1
<1>7. \A j, k \in DOMAIN chatq' : chatq'[j] = chatq'[k] /\ chatq'[j][2] = "line" => j = k
  BY <1>1 DEF OneLine
<1>8. ASSUME NEW d \in Clnt
      PROVE  /\ Asks(d)' \/ InHands(d)' \/ answers'[d] > 0 => cl'[d] \in {"answer", "killed"}
             /\ Asks(d)' => ~ InHands(d)' /\ answers'[d] = 0
             /\ InHands(d)' => answers'[d] = 0
  BY <1>1, <1>2, <1>3 DEF OneLine
<1>9. QED
  BY <1>6, <1>7, <1>8 DEF OneLine

-----------------------------------------------------------------------------
(* The steps. *)

LEMMA InitIInv ==
  ASSUME Init
  PROVE  IInv
<1>1. /\ DOMAIN mcast = {} /\ DOMAIN chatq = {} /\ DOMAIN backlog = {} /\ Len(backlog) = 0
      /\ \A c \in Clnt : cl[c] = "start" /\ replies[c] = 0 /\ answers[c] = 0
  BY DEF Init
<1>2. TypeOK
  <2>1. 0 \in 0 .. MaxLines
    BY Quiz2Assumption DEF Quiz2Assumption
  <2>2. /\ lines \in [Clnt -> 0 .. MaxLines]
        /\ replies \in [Clnt -> 0 .. 2] /\ answers \in [Clnt -> 0 .. 1]
    BY <2>1 DEF Init
  <2>3. /\ cl \in [Clnt -> {"start", "request", "reply", "connect", "recv", "type", "answer"} \cup Over]
        /\ child \in [Clnt -> {"none", "send", "bye", "exited", "crashed"}]
    BY DEF Init
  <2>4. /\ mcast \in Seq(Clnt \X Text) /\ chatq \in Seq(Clnt \X {"line", "q"})
        /\ backlog \in Seq(Clnt)
    BY DEF Init
  <2>5. QED
    BY <2>2, <2>3, <2>4 DEF Init, TypeOK
<1>3. OneSocket
  BY DEF Init, OneSocket
<1>4. Datagrams
  <2>1. \A c \in Clnt : ~ Selects(c) /\ ~ Requests(c) /\ Spent(c) = 0
    BY <1>1 DEF Init, Selects, Requests, Spent
  <2>2. QED
    BY <1>1, <2>1 DEF Datagrams
<1>5. Orderly
  BY <1>1 DEF Orderly, OneAble, OneServed, Able
<1>6. OneLine
  BY <1>1 DEF Init, OneLine, Asks, InHands
<1>7. QED
  BY <1>2, <1>3, <1>4, <1>5, <1>6 DEF IInv

(* A client's own steps, but for the two queues and the connection, are    *)
(* moves of its control.                                                   *)
LEMMA ClientControl ==
  ASSUME TypeOK, NEW c \in Clnt, NEW from, NEW to, ClientGoes(c, from, to),
         to \in {"start", "request", "reply", "connect", "recv", "type", "answer"} \cup Over
  PROVE  /\ cl' \in [Clnt -> {"start", "request", "reply", "connect", "recv", "type", "answer"} \cup Over]
         /\ cl[c] = from /\ cl'[c] = to /\ \A d \in Clnt \ {c} : cl'[d] = cl[d]
         /\ spc' = spc /\ peer' = peer /\ aborted' = aborted
BY DEF TypeOK, ClientGoes

LEMMA SendSelectionStep ==
  ASSUME IInv, NEW c \in Clnt, SendSelection(c)
  PROVE  IInv'
<1>1. PICK answer \in Answers[c] :
        /\ ClientGoes(c, "start", IF answer = "1" THEN "request" ELSE "type")
        /\ ToServer(<<c, answer>>)
  BY DEF SendSelection
<1>2. PICK to \in {"request", "type"} : ClientGoes(c, "start", to)
  BY <1>1
<1>3. /\ cl' \in [Clnt -> {"start", "request", "reply", "connect", "recv", "type", "answer"} \cup Over]
      /\ cl[c] = "start" /\ cl'[c] = to /\ \A d \in Clnt \ {c} : cl'[d] = cl[d]
      /\ spc' = spc /\ peer' = peer /\ aborted' = aborted
  BY <1>2, ClientControl DEF IInv
<1>4. UNCHANGED <<lines, mcOpen, chatq, chatOpen, replies, answers, listening, backlog, clisocket, child>>
  BY <1>1 DEF SendSelection, ToServer
<1>5. answer \in Text /\ answer # "request"
  BY AnswersAreTexts
<1>6. mcast' \in Seq(Clnt \X Text) /\ Datagrams'
  BY <1>1, <1>3, <1>4, <1>5, DatagramSent DEF IInv, ToServer
<1>7. TypeOK'
  BY <1>3, <1>4, <1>6 DEF IInv, TypeOK
<1>8. OneSocket'
  BY <1>3, <1>4 DEF IInv, OneSocket
<1>9. Orderly'
  BY <1>3, <1>4, ServedKept DEF IInv, Able
<1>10. OneLine'
  BY <1>3, <1>4, LinesKept DEF IInv
<1>11. QED
  BY <1>6, <1>7, <1>8, <1>9, <1>10 DEF IInv

LEMMA SendRequestStep ==
  ASSUME IInv, NEW c \in Clnt, SendRequest(c)
  PROVE  IInv'
<1>1. /\ cl' \in [Clnt -> {"start", "request", "reply", "connect", "recv", "type", "answer"} \cup Over]
      /\ cl[c] = "request" /\ cl'[c] = "reply" /\ \A d \in Clnt \ {c} : cl'[d] = cl[d]
      /\ spc' = spc /\ peer' = peer /\ aborted' = aborted
  BY ClientControl DEF IInv, SendRequest
<1>2. /\ mcast' \in Sent(mcast, mcOpen, <<c, "request">>)
      /\ UNCHANGED <<lines, mcOpen, chatq, chatOpen, replies, answers, listening, backlog, clisocket, child>>
  BY DEF SendRequest, ToServer
<1>3. "request" \in Text
  BY DEF Text
<1>4. mcast' \in Seq(Clnt \X Text) /\ Datagrams'
  BY <1>1, <1>2, <1>3, DatagramSent DEF IInv
<1>5. TypeOK'
  BY <1>1, <1>2, <1>4 DEF IInv, TypeOK
<1>6. OneSocket'
  BY <1>1, <1>2 DEF IInv, OneSocket
<1>7. Orderly'
  BY <1>1, <1>2, ServedKept DEF IInv, Able
<1>8. OneLine'
  BY <1>1, <1>2, LinesKept DEF IInv
<1>9. QED
  BY <1>4, <1>5, <1>6, <1>7, <1>8 DEF IInv

LEMMA RecvReplyStep ==
  ASSUME IInv, NEW c \in Clnt, RecvReply(c)
  PROVE  IInv'
<1>1. /\ cl' \in [Clnt -> {"start", "request", "reply", "connect", "recv", "type", "answer"} \cup Over]
      /\ cl[c] = "reply" /\ cl'[c] = "connect" /\ \A d \in Clnt \ {c} : cl'[d] = cl[d]
      /\ spc' = spc /\ peer' = peer /\ aborted' = aborted
  BY ClientControl DEF IInv, RecvReply
<1>2. /\ replies[c] > 0
      /\ UNCHANGED <<lines, mcast, mcOpen, chatq, chatOpen, answers, listening, backlog, clisocket, child>>
  BY DEF RecvReply
<1>3. Datagrams'
  BY DatagramsReceived DEF IInv
<1>4. replies[c] \in 1 .. 2 /\ replies[c] - 1 \in 0 .. 2
  BY <1>2 DEF IInv, TypeOK
<1>5. replies' \in [Clnt -> 0 .. 2] /\ \A d \in Clnt \ {c} : replies'[d] = replies[d]
  BY <1>4 DEF IInv, TypeOK, RecvReply
<1>6. TypeOK'
  BY <1>1, <1>2, <1>5 DEF IInv, TypeOK
<1>7. OneSocket'
  BY <1>1, <1>2 DEF IInv, OneSocket
<1>8. Able(c)
  BY <1>1, <1>2 DEF Able
<1>9. \A d \in Clnt : (Able(d)' => Able(d)) /\ (cl'[d] = "refused" => cl[d] = "refused")
  BY <1>1, <1>5, <1>8 DEF Able
<1>10. Orderly'
  BY <1>1, <1>2, <1>9, ServedKept DEF IInv
<1>11. OneLine'
  BY <1>1, <1>2, LinesKept DEF IInv
<1>12. QED
  BY <1>3, <1>6, <1>7, <1>10, <1>11 DEF IInv

LEMMA ConnectStep ==
  ASSUME IInv, NEW c \in Clnt, Connect(c)
  PROVE  IInv'
<1>1. PICK to \in {"recv", "refused"} : ClientGoes(c, "connect", to)
  BY DEF Connect
<1>2. /\ cl' \in [Clnt -> {"start", "request", "reply", "connect", "recv", "type", "answer"} \cup Over]
      /\ cl[c] = "connect" /\ cl'[c] = to /\ \A d \in Clnt \ {c} : cl'[d] = cl[d]
      /\ spc' = spc /\ peer' = peer /\ aborted' = aborted
  BY <1>1, ClientControl DEF IInv, Over
<1>3. UNCHANGED <<lines, mcast, mcOpen, chatq, chatOpen, replies, answers, listening, clisocket, child>>
  BY DEF Connect
<1>4. Orderly' /\ backlog' \in Seq(Clnt)
  <2>1. Orderly'
    BY ServedConnect DEF IInv
  <2>2. backlog \in Seq(Clnt) /\ backlog' \in {backlog, Append(backlog, c)}
    BY DEF IInv, TypeOK, Connect
  <2>3. backlog' \in Seq(Clnt)
    BY <2>2, AppendToQueue
  <2>4. QED
    BY <2>1, <2>3
<1>5. TypeOK'
  BY <1>2, <1>3, <1>4 DEF IInv, TypeOK
<1>6. OneSocket'
  BY <1>2, <1>3 DEF IInv, OneSocket
<1>7. Datagrams'
  BY <1>2, <1>3, DatagramsKept DEF IInv
<1>8. OneLine'
  BY <1>2, <1>3, LinesKept DEF IInv
<1>9. QED
  BY <1>4, <1>5, <1>6, <1>7, <1>8 DEF IInv

(* The end of a client, of itself or by its user. *)
LEMMA OverStep ==
  ASSUME IInv, NEW c \in Clnt, RecvEof(c) \/ Kill(c)
  PROVE  IInv'
<1>1. PICK to \in {"done", "killed"} :
        ClientGoes(c, cl[c], to) /\ (to = "done" => cl[c] = "recv") /\ cl[c] \notin Over
  BY DEF RecvEof, Kill, ClientGoes, Over
<1>2. /\ cl' \in [Clnt -> {"start", "request", "reply", "connect", "recv", "type", "answer"} \cup Over]
      /\ cl'[c] = to /\ \A d \in Clnt \ {c} : cl'[d] = cl[d]
      /\ spc' = spc /\ peer' = peer /\ aborted' = aborted
  BY <1>1, ClientControl DEF IInv, Over
<1>3. UNCHANGED <<lines, mcast, mcOpen, chatq, chatOpen, replies, answers, listening, backlog,
                  clisocket, child>>
  BY DEF RecvEof, Kill
<1>4. TypeOK'
  BY <1>2, <1>3 DEF IInv, TypeOK
<1>5. OneSocket'
  BY <1>2, <1>3 DEF IInv, OneSocket
<1>6. Datagrams'
  BY <1>2, <1>3, DatagramsKept DEF IInv
<1>7. \A d \in Clnt : (Able(d)' => Able(d)) /\ (cl'[d] = "refused" => cl[d] = "refused")
  BY <1>2, <1>3 DEF Able
<1>8. Orderly'
  BY <1>2, <1>3, <1>7, ServedKept DEF IInv
<1>9. OneLine'
  BY <1>1, <1>2, <1>3, LinesKept DEF IInv
<1>10. QED
  BY <1>4, <1>5, <1>6, <1>8, <1>9 DEF IInv

LEMMA SendLineStep ==
  ASSUME IInv, NEW c \in Clnt, SendLine(c) \/ SendQuit(c)
  PROVE  IInv'
<1>1. PICK to \in {"answer", "done"}, t \in {"line", "q"} :
        ClientGoes(c, "type", to) /\ ToChat(<<c, t>>) /\ (t = "line" => to = "answer")
  BY DEF SendLine, SendQuit
<1>2. /\ cl' \in [Clnt -> {"start", "request", "reply", "connect", "recv", "type", "answer"} \cup Over]
      /\ cl[c] = "type" /\ cl'[c] = to /\ \A d \in Clnt \ {c} : cl'[d] = cl[d]
      /\ spc' = spc /\ peer' = peer /\ aborted' = aborted
  BY <1>1, ClientControl DEF IInv, Over
<1>3. UNCHANGED <<mcast, mcOpen, chatOpen, replies, answers, listening, backlog, clisocket, child>>
  BY <1>1 DEF ToChat
<1>4. lines' \in [Clnt -> 0 .. MaxLines]
  <2>1. CASE lines' = lines
    BY <2>1 DEF IInv, TypeOK
  <2>2. CASE lines[c] < MaxLines /\ lines' = [lines EXCEPT ![c] = @ + 1]
    BY <2>2, Quiz2Assumption DEF IInv, TypeOK, Quiz2Assumption
  <2>3. QED
    BY <2>1, <2>2 DEF SendLine, SendQuit
<1>5. chatq' \in Seq(Clnt \X {"line", "q"}) /\ OneLine'
  BY <1>1, <1>2, <1>3, LineSent DEF IInv, ToChat
<1>6. TypeOK'
  BY <1>2, <1>3, <1>4, <1>5 DEF IInv, TypeOK
<1>7. OneSocket'
  BY <1>2, <1>3 DEF IInv, OneSocket
<1>8. Datagrams'
  BY <1>2, <1>3, DatagramsKept DEF IInv
<1>9. Orderly'
  BY <1>2, <1>3, ServedKept DEF IInv, Able
<1>10. QED
  BY <1>5, <1>6, <1>7, <1>8, <1>9 DEF IInv

LEMMA RecvAnswerStep ==
  ASSUME IInv, NEW c \in Clnt, RecvAnswer(c)
  PROVE  IInv'
<1>1. /\ cl' \in [Clnt -> {"start", "request", "reply", "connect", "recv", "type", "answer"} \cup Over]
      /\ cl[c] = "answer" /\ cl'[c] = "type" /\ \A d \in Clnt \ {c} : cl'[d] = cl[d]
      /\ spc' = spc /\ peer' = peer /\ aborted' = aborted
  BY ClientControl DEF IInv, RecvAnswer
<1>2. UNCHANGED <<lines, mcast, mcOpen, chatq, chatOpen, replies, listening, backlog, clisocket, child>>
  BY DEF RecvAnswer
<1>3. answers' \in [Clnt -> 0 .. 1] /\ OneLine'
  BY LineAnswered DEF IInv
<1>4. TypeOK'
  BY <1>1, <1>2, <1>3 DEF IInv, TypeOK
<1>5. OneSocket'
  BY <1>1, <1>2 DEF IInv, OneSocket
<1>6. Datagrams'
  BY <1>1, <1>2, DatagramsKept DEF IInv
<1>7. Orderly'
  BY <1>1, <1>2, ServedKept DEF IInv, Able
<1>8. QED
  BY <1>3, <1>4, <1>5, <1>6, <1>7 DEF IInv

(* The steps of the server in which nobody can connect and nobody's        *)
(* datagram becomes a reply.                                               *)
LEMMA SelectionStep ==
  ASSUME IInv, Selection
  PROVE  IInv'
<1>1. /\ UNCHANGED <<aborted, cl, lines, chatq, chatOpen, replies, answers, listening, backlog, clisocket, child>>
      /\ spc = "select" /\ spc' \in {"select", "request", "bind"} /\ mcOpen
      /\ mcOpen' \in BOOLEAN /\ (spc' = "bind" => ~ mcOpen')
  BY DEF Selection, ServerGoes, ServerMoves
<1>2. mcast' \in Seq(Clnt \X Text) /\ Datagrams' /\ peer' \in Clnt
  BY DatagramsSelected DEF IInv
<1>3. TypeOK'
  BY <1>1, <1>2 DEF IInv, TypeOK
<1>4. OneSocket'
  BY <1>1 DEF IInv, OneSocket
<1>5. Orderly'
  BY <1>1, IdleServer DEF IInv
<1>6. OneLine'
  BY <1>1, LinesKept DEF IInv
<1>7. QED
  BY <1>2, <1>3, <1>4, <1>5, <1>6 DEF IInv

LEMMA RequestStep ==
  ASSUME IInv, Request
  PROVE  IInv'
<1>1. /\ UNCHANGED <<aborted, cl, lines, mcOpen, chatq, chatOpen, replies, answers, listening, backlog,
                     clisocket, child>>
      /\ spc = "request" /\ spc' = "reply"
  BY DEF Request, ServerGoes, ServerMoves
<1>2. mcast' \in Seq(Clnt \X Text) /\ Datagrams' /\ peer' \in Clnt
  BY DatagramsRequested DEF IInv
<1>3. TypeOK'
  BY <1>1, <1>2 DEF IInv, TypeOK
<1>4. OneSocket'
  BY <1>1 DEF IInv, OneSocket
<1>5. Orderly'
  BY <1>1, IdleServer DEF IInv
<1>6. OneLine'
  BY <1>1, LinesKept DEF IInv
<1>7. QED
  BY <1>2, <1>3, <1>4, <1>5, <1>6 DEF IInv

LEMMA ReplyStep ==
  ASSUME IInv, Reply
  PROVE  IInv'
<1>1. /\ UNCHANGED <<aborted, cl, lines, mcast, mcOpen, chatq, chatOpen, answers, listening, backlog,
                     clisocket, child, peer>>
      /\ spc = "reply" /\ spc' = "listen"
  BY DEF Reply, ReplyTo, ServerGoes, ServerMoves
<1>2. replies' \in [Clnt -> 0 .. 2] /\ Datagrams'
  BY DatagramsReplied DEF IInv
<1>3. TypeOK'
  BY <1>1, <1>2 DEF IInv, TypeOK
<1>4. OneSocket'
  BY <1>1 DEF IInv, OneSocket
<1>5. Orderly'
  BY ServedReply DEF IInv
<1>6. OneLine'
  BY <1>1, LinesKept DEF IInv
<1>7. QED
  BY <1>2, <1>3, <1>4, <1>5, <1>6 DEF IInv

LEMMA ListenStep ==
  ASSUME IInv, Listen
  PROVE  IInv'
<1>1. /\ UNCHANGED <<aborted, cl, lines, mcast, mcOpen, chatq, chatOpen, replies, answers, backlog,
                     clisocket, child, peer>>
      /\ spc = "listen" /\ spc' = "accept" /\ listening' = TRUE
  BY DEF Listen, ServerGoes, ServerMoves
<1>2. TypeOK'
  BY <1>1 DEF IInv, TypeOK
<1>3. OneSocket'
  BY <1>1 DEF IInv, OneSocket
<1>4. Datagrams'
  BY <1>1, DatagramsKept DEF IInv
<1>5. Orderly'
  BY <1>1 DEF IInv, Orderly, OneAble, Able, OneServed
<1>6. OneLine'
  BY <1>1, LinesKept DEF IInv
<1>7. QED
  BY <1>2, <1>3, <1>4, <1>5, <1>6 DEF IInv

LEMMA AcceptStep ==
  ASSUME IInv, Accept
  PROVE  IInv'
<1>1. /\ UNCHANGED <<aborted, cl, lines, mcast, mcOpen, chatq, chatOpen, replies, answers, listening, child>>
      /\ spc = "accept" /\ spc' = "fork"
  BY DEF Accept, ServerGoes, ServerMoves
<1>2. backlog' \in Seq(Clnt) /\ clisocket' \in Clnt /\ peer' \in Clnt
  BY TailOfQueue DEF IInv, TypeOK, Accept
<1>3. TypeOK'
  BY <1>1, <1>2 DEF IInv, TypeOK
<1>4. OneSocket'
  BY <1>1 DEF IInv, OneSocket
<1>5. Datagrams'
  BY <1>1, DatagramsKept DEF IInv
<1>6. Orderly'
  BY ServedAccept DEF IInv
<1>7. OneLine'
  BY <1>1, LinesKept DEF IInv
<1>8. QED
  BY <1>2, <1>3, <1>4, <1>5, <1>6, <1>7 DEF IInv

LEMMA AcceptFailsStep ==
  ASSUME IInv, AcceptFails
  PROVE  IInv'
<1>1. /\ UNCHANGED <<cl, lines, mcast, mcOpen, chatq, chatOpen, replies, answers, listening, backlog,
                     clisocket, child, peer>>
      /\ spc' = "select" /\ aborted' = TRUE
  BY DEF AcceptFails, ServerMoves
<1>2. TypeOK'
  BY <1>1 DEF IInv, TypeOK
<1>3. OneSocket'
  BY <1>1 DEF IInv, OneSocket
<1>4. Datagrams'
  BY <1>1, DatagramsKept DEF IInv
<1>5. Orderly'
  BY <1>1 DEF Orderly
<1>6. OneLine'
  BY <1>1, LinesKept DEF IInv
<1>7. QED
  BY <1>2, <1>3, <1>4, <1>5, <1>6 DEF IInv

(* fork(), close() of the client's socket, and bind() of the chat's. *)
LEMMA ForkCloseBindStep ==
  ASSUME IInv, Fork \/ CloseCli \/ Bind
  PROVE  IInv'
<1>1. /\ UNCHANGED <<aborted, cl, lines, mcast, mcOpen, chatq, replies, answers, listening, backlog, peer>>
      /\ spc \in {"fork", "close", "bind"} /\ spc' \in {"close", "select", "chat", "dead"}
  BY DEF Fork, CloseCli, Bind, ServerGoes, ServerMoves
<1>2. /\ clisocket' \in {clisocket, None} /\ chatOpen' \in BOOLEAN
      /\ chatOpen' = chatOpen \/ spc = "bind"
  BY DEF Fork, CloseCli, Bind, ServerGoes, ServerMoves, IInv, TypeOK
<1>3. child' \in [Clnt -> {"none", "send", "bye", "exited", "crashed"}]
  BY DEF Fork, CloseCli, Bind, IInv, TypeOK
<1>4. OneSocket'
  BY <1>1, <1>2 DEF IInv, OneSocket
<1>5. TypeOK'
  BY <1>1, <1>2, <1>3, <1>4 DEF IInv, TypeOK, OneSocket
<1>6. Datagrams'
  BY <1>1, DatagramsKept DEF IInv
<1>7. Orderly'
  BY <1>1, IdleServer DEF IInv
<1>8. OneLine'
  BY <1>1, LinesKept DEF IInv
<1>9. QED
  BY <1>4, <1>5, <1>6, <1>7, <1>8 DEF IInv

LEMMA ChatLineStep ==
  ASSUME IInv, ChatLine \/ ChatQuit
  PROVE  IInv'
<1>1. /\ UNCHANGED <<aborted, cl, lines, mcast, mcOpen, replies, answers, listening, backlog, clisocket, child>>
      /\ spc = "chat" /\ spc' \in {"answer", "select"}
      /\ chatOpen' = chatOpen \/ chatOpen' = FALSE
  BY DEF ChatLine, TakeLine, ChatQuit, ServerGoes, ServerMoves
<1>2. chatq' \in Seq(Clnt \X {"line", "q"}) /\ peer' \in Clnt /\ OneLine'
  BY LineTaken, LinesClosed DEF IInv
<1>3. /\ {mcOpen', chatOpen', listening'} \subseteq BOOLEAN /\ ~ (mcOpen' /\ chatOpen')
      /\ OneSocket'
  <2>1. CASE chatOpen' = chatOpen
    BY <1>1, <2>1 DEF IInv, TypeOK, OneSocket
  <2>2. CASE chatOpen' = FALSE
    BY <1>1, <2>2 DEF IInv, TypeOK, OneSocket
  <2>3. QED
    BY <1>1, <2>1, <2>2
<1>4. TypeOK'
  BY <1>1, <1>2, <1>3 DEF IInv, TypeOK
<1>5. Datagrams'
  BY <1>1, DatagramsKept DEF IInv
<1>6. Orderly'
  BY <1>1, IdleServer DEF IInv
<1>7. QED
  BY <1>2, <1>3, <1>4, <1>5, <1>6 DEF IInv

LEMMA ChatAnswerStep ==
  ASSUME IInv, ChatAnswer
  PROVE  IInv'
<1>1. /\ UNCHANGED <<aborted, cl, lines, mcast, mcOpen, chatq, chatOpen, replies, listening, backlog,
                     clisocket, child, peer>>
      /\ spc = "answer" /\ spc' = "chat"
  BY DEF ChatAnswer, ServerGoes, ServerMoves
<1>2. answers' \in [Clnt -> 0 .. 1] /\ OneLine'
  BY LineReplied DEF IInv
<1>3. TypeOK'
  BY <1>1, <1>2 DEF IInv, TypeOK
<1>4. OneSocket'
  BY <1>1 DEF IInv, OneSocket
<1>5. Datagrams'
  BY <1>1, DatagramsKept DEF IInv
<1>6. Orderly'
  BY <1>1, IdleServer DEF IInv
<1>7. QED
  BY <1>2, <1>3, <1>4, <1>5, <1>6 DEF IInv

LEMMA ChildStepStep ==
  ASSUME IInv, NEW c \in Clnt, ChildStep(c)
  PROVE  IInv'
<1>1. UNCHANGED <<aborted, cl, lines, mcast, mcOpen, chatq, chatOpen, replies, answers, listening, backlog,
                  clisocket, spc, peer, aborted>>
  BY DEF ChildStep, ChildSends, ChildEnds, ChildGoes
<1>2. PICK to \in {"bye", "crashed", "exited"} : child' = [child EXCEPT ![c] = to]
  BY DEF ChildStep, ChildSends, ChildEnds, ChildGoes
<1>3. TypeOK'
  BY <1>1, <1>2 DEF IInv, TypeOK
<1>4. OneSocket'
  BY <1>1 DEF IInv, OneSocket
<1>5. Datagrams'
  BY <1>1, DatagramsKept DEF IInv
<1>6. Orderly'
  BY <1>1, ServedKept DEF IInv, Able
<1>7. OneLine'
  BY <1>1, LinesKept DEF IInv
<1>8. QED
  BY <1>3, <1>4, <1>5, <1>6, <1>7 DEF IInv

LEMMA StutterStep ==
  ASSUME IInv, UNCHANGED vars
  PROVE  IInv'
<1>1. UNCHANGED <<aborted, cl, lines, mcast, mcOpen, chatq, chatOpen, replies, answers, listening, backlog,
                  clisocket, child, spc, peer, aborted>>
  BY DEF vars
<1>2. TypeOK' /\ OneSocket'
  BY <1>1 DEF IInv, TypeOK, OneSocket
<1>3. Datagrams'
  BY <1>1, DatagramsKept DEF IInv
<1>4. Orderly'
  BY <1>1, ServedKept DEF IInv, Able
<1>5. OneLine'
  BY <1>1, LinesKept DEF IInv
<1>6. QED
  BY <1>2, <1>3, <1>4, <1>5 DEF IInv

-----------------------------------------------------------------------------

(* quiz2_server.c and quiz2_client.c, for any number of clients: what the  *)
(* proofs of the properties rest on.                                       *)
THEOREM Invariance == Spec => []IInv
<1>1. Init => IInv
  BY InitIInv
<1>2. ASSUME IInv, [Next]_vars PROVE IInv'
  <2>1. CASE \E c \in Clnt : ClientStep(c) \/ Kill(c) \/ ChildStep(c)
    <3>1. PICK c \in Clnt : ClientStep(c) \/ Kill(c) \/ ChildStep(c)
      BY <2>1
    <3>2. CASE ClientStep(c)
      BY <1>2, <3>2, SendSelectionStep, SendRequestStep, RecvReplyStep, ConnectStep, OverStep,
         SendLineStep, RecvAnswerStep DEF ClientStep
    <3>3. CASE Kill(c) \/ ChildStep(c)
      BY <1>2, <3>3, OverStep, ChildStepStep
    <3>4. QED
      BY <3>1, <3>2, <3>3
  <2>2. CASE ServerStep
    BY <1>2, <2>2, SelectionStep, RequestStep, ReplyStep, ListenStep, AcceptStep,
       ForkCloseBindStep, ChatLineStep, ChatAnswerStep DEF ServerStep
  <2>3. CASE AcceptFails
    BY <1>2, <2>3, AcceptFailsStep
  <2>4. CASE UNCHANGED vars
    BY <1>2, <2>4, StutterStep
  <2>5. QED
    BY <1>2, <2>1, <2>2, <2>3, <2>4 DEF Next
<1>3. QED
  BY <1>1, <1>2, PTL DEF Spec

(* Every variable has its type; above all, at most two replies and at most *)
(* one answer wait for a client.                                           *)
THEOREM TypeCorrect == Spec => []TypeOK
<1>1. IInv => TypeOK
  BY DEF IInv
<1>2. QED
  BY <1>1, Invariance, PTL

(* l.119-148 of the server: until an accept() fails, whoever sends it what *)
(* in between, it serves the client that it answered last.                 *)
THEOREM ServedAnswered == Spec => []ServedIsAnswered
<1>1. IInv => ServedIsAnswered
  BY DEF IInv, Orderly, ServedIsAnswered
<1>2. QED
  BY <1>1, Invariance, PTL

LEMMA UnderwayOnce ==
  ASSUME TypeOK, OneLine
  PROVE  AnswerFitsLine
<1>1. SUFFICES ASSUME NEW c \in Clnt
               PROVE  Underway(c) <= (IF cl[c] \in {"answer", "killed"} THEN 1 ELSE 0)
  BY DEF AnswerFitsLine
<1>2. PICK K : K = {k \in DOMAIN chatq : chatq[k] = <<c, "line">>}
  OBVIOUS
<1>3. Underway(c) = Cardinality(K) + answers[c] + (IF InHands(c) THEN 1 ELSE 0)
  BY <1>2 DEF Underway, InHands
<1>4. answers[c] \in 0 .. 1
  BY DEF TypeOK
<1>5. CASE Asks(c)
  <2>1. PICK k \in DOMAIN chatq : chatq[k] = <<c, "line">>
    BY <1>5 DEF Asks
  <2>2. \A j \in K : j \in DOMAIN chatq /\ chatq[j] = chatq[k] /\ chatq[j][2] = "line"
    BY <1>2, <2>1
  <2>3. K = {k}
    BY <1>2, <2>1, <2>2 DEF OneLine
  <2>4. Cardinality(K) = 1
    BY <2>3, FS_Singleton
  <2>5. ~ InHands(c) /\ answers[c] = 0 /\ cl[c] \in {"answer", "killed"}
    BY <1>5 DEF OneLine
  <2>6. QED
    BY <1>3, <2>4, <2>5
<1>6. CASE ~ Asks(c)
  <2>1. K = {}
    BY <1>2, <1>6 DEF Asks
  <2>2. Cardinality(K) = 0
    BY <2>1, FS_EmptySet
  <2>3. /\ InHands(c) => answers[c] = 0
        /\ InHands(c) \/ answers[c] > 0 => cl[c] \in {"answer", "killed"}
    BY DEF OneLine
  <2>4. QED
    BY <1>3, <1>4, <2>2, <2>3
<1>7. QED
  BY <1>5, <1>6

(* quiz2_client.c l.149-168: no answer is left over for a later line.      *)
THEOREM AnswersFit == Spec => []AnswerFitsLine
<1>1. IInv => AnswerFitsLine
  BY UnderwayOnce DEF IInv
<1>2. QED
  BY <1>1, Invariance, PTL
=============================================================================
