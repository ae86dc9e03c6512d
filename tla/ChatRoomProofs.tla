--------------------------- MODULE ChatRoomProofs ---------------------------
(* What follows from the rules of the room alone. *)
EXTENDS ChatRoom, TLAPS

(* The room keeps its types. *)
THEOREM RoomTyped == RoomSpec => []RoomTypeOK
<1>1. RoomInit => RoomTypeOK
  BY DEF RoomInit, RoomTypeOK
<1>2. RoomTypeOK /\ [RoomNext]_roomVars => RoomTypeOK'
  <2> SUFFICES ASSUME RoomTypeOK, [RoomNext]_roomVars
               PROVE  RoomTypeOK'
    OBVIOUS
  <2>1. ASSUME NEW m \in Chunk, Post(m)
        PROVE  RoomTypeOK'
    BY <2>1 DEF Post, RoomTypeOK
  <2>2. ASSUME NEW c \in Conn, Deliver(c)
        PROVE  RoomTypeOK'
    <3>1. log[Len(log)] \in Chunk
      BY <2>2 DEF Deliver, RoomTypeOK
    <3>2. Append(delivered[c], log[Len(log)]) \in Seq(Chunk)
      BY <3>1 DEF RoomTypeOK
    <3>3. QED
      BY <2>2, <3>2 DEF Deliver, RoomTypeOK
  <2>3. CASE UNCHANGED roomVars
    BY <2>3 DEF roomVars, RoomTypeOK
  <2>4. QED
    BY <2>1, <2>2, <2>3 DEF RoomNext
<1>3. QED
  BY <1>1, <1>2, PTL DEF RoomSpec

(* No chunk is posted twice (PostedOnce). *)
THEOREM RoomPostsOnce == RoomSpec => []PostedOnce
<1>1. RoomInit => PostedOnce
  BY DEF RoomInit, PostedOnce
<1>2. RoomTypeOK /\ PostedOnce /\ [RoomNext]_roomVars => PostedOnce'
  <2> SUFFICES ASSUME RoomTypeOK, PostedOnce, [RoomNext]_roomVars
               PROVE  PostedOnce'
    OBVIOUS
  <2>1. ASSUME NEW m \in Chunk, Post(m)
        PROVE  PostedOnce'
    BY <2>1 DEF Post, PostedOnce, RoomTypeOK
  <2>2. ASSUME NEW c \in Conn, Deliver(c)
        PROVE  PostedOnce'
    BY <2>2 DEF Deliver, PostedOnce
  <2>3. CASE UNCHANGED roomVars
    BY <2>3 DEF roomVars, PostedOnce
  <2>4. QED
    BY <2>1, <2>2, <2>3 DEF RoomNext
<1>3. QED
  BY <1>1, <1>2, RoomTyped, PTL DEF RoomSpec

(* A delivery only extends what its connection was handed, by the chunk    *)
(* posted last.                                                            *)
LEMMA DeliveryExtends ==
  ASSUME RoomTypeOK, NEW c \in Conn, Deliver(c), NEW d \in Conn
  PROVE  /\ d # c => delivered'[d] = delivered[d]
         /\ d = c => /\ Len(delivered'[d]) = Len(delivered[d]) + 1
                     /\ delivered'[d][Len(delivered[d]) + 1] = log[Len(log)]
                     /\ \A j \in 1 .. Len(delivered[d]) : delivered'[d][j] = delivered[d][j]
<1>1. log[Len(log)] \in Chunk
  BY DEF RoomTypeOK, Deliver
<1>2. delivered[d] \in Seq(Chunk) /\ delivered[c] \in Seq(Chunk)
  BY DEF RoomTypeOK
<1>3. delivered' = [delivered EXCEPT ![c] = Append(delivered[c], log[Len(log)])]
  BY DEF Deliver
<1>4. QED
  BY <1>1, <1>2, <1>3 DEF RoomTypeOK

(* Everybody sees the chunks in the one order of the log (SameOrder).      *)
THEOREM RoomSameOrder == RoomSpec => []SameOrder
<1>1. RoomInit => SameOrder
  BY DEF RoomInit, SameOrder
<1>2. RoomTypeOK /\ SameOrder /\ [RoomNext]_roomVars => SameOrder'
  <2> SUFFICES ASSUME RoomTypeOK, SameOrder, [RoomNext]_roomVars
               PROVE  SameOrder'
    OBVIOUS
  <2>1. ASSUME NEW m \in Chunk, Post(m)
        PROVE  SameOrder'
    <3>1. /\ Len(log') = Len(log) + 1
          /\ \A p \in 1 .. Len(log) : log'[p] = log[p]
      BY <2>1 DEF Post, RoomTypeOK
    <3>2. Len(log) \in Nat
      BY DEF RoomTypeOK
    <3>3. delivered' = delivered
      BY <2>1 DEF Post
    <3> SUFFICES ASSUME NEW c \in Conn, NEW j \in 1 .. Len(delivered'[c]),
                        NEW k \in 1 .. Len(delivered'[c]), j <= k
                 PROVE  \E p, q \in 1 .. Len(log') :
                          p <= q /\ log'[p] = delivered'[c][j] /\ log'[q] = delivered'[c][k]
      BY DEF SameOrder
    <3>4. PICK p \in 1 .. Len(log), q \in 1 .. Len(log) :
            p <= q /\ log[p] = delivered[c][j] /\ log[q] = delivered[c][k]
      BY <3>3 DEF SameOrder
    <3>5. QED
      BY <3>1, <3>2, <3>3, <3>4
  <2>2. ASSUME NEW c \in Conn, Deliver(c)
        PROVE  SameOrder'
    <3>0. log' = log
      BY <2>2 DEF Deliver
    <3> SUFFICES ASSUME NEW d \in Conn, NEW j \in 1 .. Len(delivered'[d]),
                        NEW k \in 1 .. Len(delivered'[d]), j <= k
                 PROVE  \E p, q \in 1 .. Len(log') :
                          p <= q /\ log'[p] = delivered'[d][j] /\ log'[q] = delivered'[d][k]
      BY DEF SameOrder
    <3>1. Len(log) \in 1 .. Len(log)
      BY <2>2 DEF Deliver, RoomTypeOK
    <3>2. Len(delivered[d]) \in Nat
      BY DEF RoomTypeOK
    <3>3. CASE d # c
      <4>1. delivered'[d] = delivered[d]
        BY <2>2, <3>3, DeliveryExtends
      <4>2. j \in 1 .. Len(delivered[d]) /\ k \in 1 .. Len(delivered[d])
        BY <4>1
      <4>3. PICK p \in 1 .. Len(log), q \in 1 .. Len(log) :
              p <= q /\ log[p] = delivered[d][j] /\ log[q] = delivered[d][k]
        BY <4>2 DEF SameOrder
      <4>4. QED
        BY <3>0, <4>1, <4>3
    <3>4. CASE d = c /\ k <= Len(delivered[d])
      <4>1. /\ j \in 1 .. Len(delivered[d]) /\ k \in 1 .. Len(delivered[d])
            /\ delivered'[d][j] = delivered[d][j] /\ delivered'[d][k] = delivered[d][k]
        BY <2>2, <3>2, <3>4, DeliveryExtends
      <4>2. PICK p \in 1 .. Len(log), q \in 1 .. Len(log) :
              p <= q /\ log[p] = delivered[d][j] /\ log[q] = delivered[d][k]
        BY <4>1 DEF SameOrder
      <4>3. QED
        BY <3>0, <4>1, <4>2
    <3>5. CASE d = c /\ k > Len(delivered[d])
      <4>1. k = Len(delivered[d]) + 1 /\ delivered'[d][k] = log[Len(log)]
        BY <2>2, <3>2, <3>5, DeliveryExtends
      <4>2. CASE j = k
        BY <3>0, <3>1, <4>1, <4>2
      <4>3. CASE j # k
        <5>1. j \in 1 .. Len(delivered[d]) /\ delivered'[d][j] = delivered[d][j]
          BY <2>2, <3>2, <3>5, <4>1, <4>3, DeliveryExtends
        <5>2. PICK p \in 1 .. Len(log) : log[p] = delivered[d][j]
          BY <5>1 DEF SameOrder
        <5>3. QED
          BY <3>0, <3>1, <4>1, <5>1, <5>2
      <4>4. QED
        BY <4>2, <4>3
    <3>6. QED
      BY <3>2, <3>3, <3>4, <3>5
  <2>3. CASE UNCHANGED roomVars
    <3>1. log' = log /\ delivered' = delivered
      BY <2>3 DEF roomVars
    <3>2. QED
      BY <3>1 DEF SameOrder
  <2>4. QED
    BY <2>1, <2>2, <2>3 DEF RoomNext
<1>3. QED
  BY <1>1, <1>2, RoomTyped, PTL DEF RoomSpec
=============================================================================
