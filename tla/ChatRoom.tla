------------------------------ MODULE ChatRoom ------------------------------
(***************************************************************************)
(* What the relay of Chapter_18/chat_server.c promises the people in the   *)
(* room, with no thread, descriptor or lock in sight: chunks are posted    *)
(* one after the other, each at most once, and whoever is handed anything  *)
(* is handed the chunk posted last.                                        *)
(*                                                                         *)
(* Nothing here says that a chunk reaches everybody, nor that a member is  *)
(* handed it once only: the server keeps neither promise.                  *)
(***************************************************************************)
EXTENDS Naturals, Sequences

CONSTANTS
  Conn,                 \* the connections
  Chunk                 \* what can be posted

VARIABLES
  log,                  \* the chunks posted, in the order of send_msg's lock
  delivered             \* per connection, the chunks it was handed

roomVars == <<log, delivered>>

RoomTypeOK ==
  /\ log \in Seq(Chunk)
  /\ delivered \in [Conn -> Seq(Chunk)]

RoomInit ==
  /\ log = << >>
  /\ delivered = [c \in Conn |-> << >>]

Post(m) ==
  /\ \A k \in 1 .. Len(log) : log[k] # m
  /\ log' = Append(log, m)
  /\ UNCHANGED delivered

Deliver(c) ==
  /\ log # << >>
  /\ delivered' = [delivered EXCEPT ![c] = Append(@, log[Len(log)])]
  /\ UNCHANGED log

RoomNext ==
  \/ \E m \in Chunk : Post(m)
  \/ \E c \in Conn : Deliver(c)

RoomSpec == RoomInit /\ [][RoomNext]_roomVars

-----------------------------------------------------------------------------

(* Everybody sees the chunks in the one order of the log: nobody is handed *)
(* an older chunk after a newer one (send_msg writes under mutx).          *)
SameOrder ==
  \A c \in Conn : \A j, k \in 1 .. Len(delivered[c]) :
    j <= k => \E p, q \in 1 .. Len(log) :
      p <= q /\ log[p] = delivered[c][j] /\ log[q] = delivered[c][k]

(* No chunk is relayed by two broadcasts, even when two threads read the   *)
(* same socket.                                                            *)
PostedOnce == \A j, k \in 1 .. Len(log) : log[j] = log[k] => j = k
=============================================================================
