-------------------------------- MODULE Texts --------------------------------
(***************************************************************************)
(* What is on the screen when an array of characters is used again for     *)
(* every message, in the programs that differ in who terminates it:        *)
(*   "uchat"    Chapter_6_UDP/uchat_*.c: line and typed reply              *)
(*   "news"     Chapter_14/news_*.c: a file, line by line, to the group    *)
(*   "bound"    Chapter_6_UDP/bound_host*.c: three messages                *)
(*   "console"  Chapter_12_IOMultiplexing/select.c: the keyboard           *)
(*   "chat"     Chapter_18/chat_client.c, recv_msg(): the server's text    *)
(* prog says which of them a behaviour is of.  Side "a" sends (in uchat it *)
(* also hears), "b" receives.  A character is the number of the line it    *)
(* belongs to.                                                             *)
(***************************************************************************)
EXTENDS Integers, SequencesExt

CONSTANTS
  BUF_SIZE,     \* the size of an array
  MaxText,      \* bound: texts of a behaviour
  Files         \* for news: the lengths of the file's pieces, 1..BUF_SIZE-1

\* What the constants must satisfy.
TextAssumption ==
  /\ BUF_SIZE \in Nat /\ BUF_SIZE > 2 /\ MaxText \in Nat /\ MaxText > 1
  /\ Files # {} /\ Files \subseteq Seq(1 .. BUF_SIZE - 1)
  /\ \A f \in Files : Len(f) \in 1 .. MaxText

VARIABLES
  prog,
  buf,          \* per side: its array
  net,          \* what is underway: texts with the line they are of
  turn,         \* uchat: who is next; else whether there is more to come
  str_len,      \* uchat: the length the server received
  n,            \* lines so far
  file, terminated,     \* news: the file's pieces; does it end in a newline?
  shown, want,  \* per side: what it printed last, and the text that was for it
  heard         \* news: the lines printed

vars == <<prog, buf, net, turn, str_len, n, file, terminated, shown, want, heard>>

NUL == 0
Newline == -1
Garbage == -2           \* what an array holds at first

Side == {"a", "b"}
Char == {NUL, Newline, Garbage} \cup 1 .. 2 * MaxText

TypeOK ==
  /\ prog \in {"uchat", "news", "bound", "console", "chat"}
  /\ buf \in [Side -> [1 .. BUF_SIZE -> Char]]
  /\ \A k \in DOMAIN net : net[k].text \in Seq(Char) /\ net[k].line \in Seq(Char)
  /\ turn \in {"a", "b", "net", "end"} /\ str_len \in 0 .. BUF_SIZE /\ n \in 0 .. 2 * MaxText
  /\ terminated \in BOOLEAN /\ file \in Files
  /\ {shown, want} \subseteq [Side -> Seq(Char)] /\ heard \in Seq(1 .. MaxText)

Init ==
  /\ prog \in {"uchat", "news", "bound", "console", "chat"}
  /\ buf = [s \in Side |-> [i \in 1 .. BUF_SIZE |-> Garbage]]
  /\ net = << >> /\ turn = "a" /\ str_len = 0 /\ n = 0
  /\ file \in Files /\ terminated \in BOOLEAN
  /\ (prog # "news" => terminated /\ file = CHOOSE f \in Files : TRUE)
  /\ shown = [s \in Side |-> << >>] /\ want = shown /\ heard = << >>

-----------------------------------------------------------------------------
(* Arrays of characters. *)

Line(k, len) == [i \in 1 .. len |-> k]

\* The array after text was put at its beginning.
Put(array, text) == [i \in 1 .. BUF_SIZE |-> IF i <= Len(text) THEN text[i] ELSE array[i]]

\* The string in the array, that is what printf("%s") and strlen() find.
String(array) ==
  LET ends == {i \in 1 .. BUF_SIZE : array[i] = NUL} IN
  IF ends = {} THEN Append(array, Garbage)
  ELSE SubSeq(array, 1, (CHOOSE i \in ends : \A j \in ends : i <= j) - 1)

Cut(text, len) == IF Len(text) <= len THEN text ELSE SubSeq(text, 1, len)

Packet(text, line) == [text |-> text, line |-> line]

\* s puts text at the beginning of its array and prints the string there; line
\* is the text that was for it.
Show(s, text, line) ==
  /\ buf' = [buf EXCEPT ![s] = Put(@, text)]
  /\ shown' = [shown EXCEPT ![s] = String(buf'[s])] /\ want' = [want EXCEPT ![s] = line]

\* The next packet is taken by s, which puts end after what it was given.
Take(s, end) ==
  /\ net # << >> /\ net' = Tail(net)
  /\ Show(s, Cut(Head(net).text, BUF_SIZE - Len(end)) \o end, Head(net).line)
  /\ UNCHANGED <<prog, n, file, terminated>>

-----------------------------------------------------------------------------
(* uchat: the client's l.34-51, the server's l.38-57.  fgets() reads up to *)
(* BUF_SIZE-1 characters, or at the end of stdin none: then what was       *)
(* printed last is sent back.                                              *)

ChatSend ==
  /\ prog = "uchat" /\ turn = "a" /\ n < 2 * MaxText /\ n' = n + 1 /\ turn' = "net"
  /\ \/ \E len \in 1 .. BUF_SIZE - 1 :
          /\ buf' = [buf EXCEPT !["a"] = Put(@, Line(n', len) \o <<NUL>>)]
          /\ net' = <<Packet(String(buf'["a"]), Line(n', len))>>
     \/ n > 0 /\ net' = <<Packet(String(buf["a"]), shown["a"])>> /\ UNCHANGED buf
  /\ UNCHANGED <<prog, str_len, file, terminated, shown, want, heard>>

\* Mutation: the server does not terminate what it received.
ChatServerKeepsOld ==
  /\ prog = "uchat" /\ turn = "net" /\ turn' = "b" /\ Take("b", << >>)
  /\ str_len' = Len(Head(net).text) /\ UNCHANGED heard

ChatServerRecv ==
  /\ prog = "uchat" /\ turn = "net" /\ turn' = "b" /\ Take("b", <<NUL>>)
  /\ str_len' = Len(Head(net).text) /\ UNCHANGED heard

\* The answer is given the length of what was received, whatever was typed.
ChatAnswer ==
  /\ prog = "uchat" /\ turn = "b" /\ n < 2 * MaxText /\ n' = n + 1 /\ turn' = "end"
  /\ \/ \E len \in 1 .. BUF_SIZE - 1 :
          /\ buf' = [buf EXCEPT !["b"] = Put(@, Line(n', len) \o <<NUL>>)]
          /\ net' = <<Packet(SubSeq(buf'["b"], 1, str_len), Line(n', len))>>
     \/ net' = <<Packet(SubSeq(buf["b"], 1, str_len), want["b"])>> /\ UNCHANGED buf
  /\ UNCHANGED <<prog, str_len, file, terminated, shown, want, heard>>

ChatRecv ==
  /\ prog = "uchat" /\ turn = "end" /\ turn' = "a" /\ Take("a", <<NUL>>)
  /\ UNCHANGED <<str_len, heard>>

-----------------------------------------------------------------------------
(* news: the sender's l.42-47, the receiver's l.59-69. *)

\* fgets() reads the next piece, or fails and leaves the array; it is sent.
NewsPiece ==
  /\ prog = "news" /\ n' = n + 1
  /\ buf' = IF n < Len(file) THEN [buf EXCEPT !["a"] = Put(@, Line(n', file[n']) \o <<NUL>>)] ELSE buf
  /\ net' = Append(net, Packet(String(buf'["a"]), String(buf'["a"])))
  /\ UNCHANGED <<prog, str_len, file, terminated, shown, want, heard>>

\* Mutation: fgets() tells the end of the file, and nobody looks.
NewsNeverEnds == n < 2 * MaxText /\ NewsPiece /\ UNCHANGED turn

\* fgets() stops at a newline or when the array is full: if either comes with the
\* last character of the file, it has not met the end.
EndUnmet == terminated \/ Last(file) = BUF_SIZE - 1

\* feof() knows the end of the file only after a fgets() that met it.
NewsSend ==
  /\ turn = "a" /\ NewsPiece
  /\ turn' = IF n' < Len(file) \/ (n' = Len(file) /\ EndUnmet) THEN "a" ELSE "end"

NewsRecv ==
  prog = "news" /\ Take("b", <<NUL>>) /\ heard' = Append(heard, shown'["b"][1]) /\ UNCHANGED <<turn, str_len>>

\* A datagram is lost, before or after the group was joined.  News, which are
\* sent two seconds apart, keep their order.
Lose ==
  /\ prog \in {"news", "bound"} /\ net # << >> /\ net' = Tail(net)
  /\ UNCHANGED <<prog, buf, turn, str_len, n, file, terminated, shown, want, heard>>

-----------------------------------------------------------------------------
(* bound: host 2's l.42-44 sends msg1, msg2 and msg2 with the NUL they end *)
(* in, host 1's l.43-50 receives three times.                              *)

BoundSend ==
  /\ prog = "bound" /\ n < 3 /\ n' = n + 1
  /\ LET message == IF n = 0 THEN Line(1, 2) ELSE Line(2, 1) IN
       net' = Append(net, Packet(message \o <<NUL>>, message))
  /\ UNCHANGED <<prog, buf, turn, str_len, file, terminated, shown, want, heard>>

BoundRecv == prog = "bound" /\ Take("b", << >>) /\ UNCHANGED <<turn, str_len, heard>>

-----------------------------------------------------------------------------
(* console: l.64-102; chat: recv_msg(), l.85-92. *)

\* A line is typed, or text comes from the server.
Type ==
  /\ prog \in {"console", "chat"} /\ net = << >> /\ n < MaxText /\ n' = n + 1
  /\ \E len \in 1 .. BUF_SIZE + 1 : net' = <<Packet(Line(n', len) \o <<Newline>>, << >>)>>
  /\ UNCHANGED <<prog, buf, turn, str_len, file, terminated, shown, want, heard>>

\* read() of len characters, of which the rest is left.
ReadSome(len) ==
  /\ net' = IF len < Len(Head(net).text) THEN <<Packet(SubSeq(Head(net).text, len + 1, Len(Head(net).text)), << >>)>>
            ELSE << >>
  /\ UNCHANGED <<prog, turn, str_len, n, file, terminated, heard>>

\* The keyboard gives as much of a line as fits.  The character read last is
\* taken for the newline, also when it is none.
ConsoleRead ==
  /\ prog = "console" /\ net # << >>
  /\ LET line == Cut(Head(net).text, BUF_SIZE) IN
       ReadSome(Len(line)) /\ Show("b", Front(line) \o <<NUL>>, line)

\* At the end of stdin read() gives nothing: the NUL goes before the array, where
\* only what select() is given anew may be, and the array is printed again.
ConsoleEnd ==
  /\ prog = "console" /\ net = << >> /\ Show("b", << >>, << >>)
  /\ UNCHANGED <<prog, net, turn, str_len, n, file, terminated, heard>>

\* A read() from the server ends anywhere, and no NUL follows the newline.
ChatClientRead ==
  /\ prog = "chat" /\ net # << >>
  /\ \E len \in 1 .. BUF_SIZE - 1 :
       /\ len <= Len(Head(net).text) /\ ReadSome(len)
       /\ Show("b", Cut(Head(net).text, len) \o <<Newline>>, Cut(Head(net).text, len) \o <<Newline>>)

-----------------------------------------------------------------------------

Next ==
  \/ ChatSend \/ ChatServerRecv \/ ChatAnswer \/ ChatRecv \/ NewsSend \/ NewsRecv \/ Lose
  \/ BoundSend \/ BoundRecv \/ Type \/ ConsoleRead \/ ConsoleEnd \/ ChatClientRead

Spec == Init /\ [][Next]_vars

-----------------------------------------------------------------------------

(* What is printed is the text that was for it and nothing of an earlier   *)
(* one, although arrays are used again and the wire carries what was left  *)
(* in them: news and bound messages are printed as they were sent; a reply *)
(* of uchat stops where it ends, or after as many characters as the line   *)
(* it answers had (uchat_server.c:56): then the rest of it is lost.  The   *)
(* console prints each read() that ends in a newline without that; of a    *)
(* read() that does not, or has nothing, nothing is claimed here           *)
(* (select.c:98 takes its last character away, or prints the last text     *)
(* again), and nothing of chat_client.c, for which see OnlyNewText.        *)
ShownIsLast ==
  /\ prog \in {"news", "bound"} => shown = want
  /\ prog = "uchat" =>
       shown["b"] = want["b"] /\ (turn = "a" => shown["a"] = Cut(want["a"], str_len))
  /\ prog = "console" /\ want["b"] # << >> /\ Last(want["b"]) = Newline =>
       shown["b"] = Front(want["b"])

(* "Receives a message from the server and prints it" (chat_client.c:78):  *)
(* with what read() gave no character is printed that an earlier read()    *)
(* left.  The code does not do it: l.90 puts a newline where a NUL should  *)
(* be.                                                                     *)
OnlyNewText ==
  prog = "chat" => ToSet(shown["b"]) \subseteq ToSet(want["b"]) \cup {Newline, Garbage}

(* News come in the order of the file and each line once, except the last: *)
(* that is sent again by the fgets() that fails (news_sender.c:42-45), if  *)
(* and only if the file ends in a newline or its last piece fills the      *)
(* array.                                                                  *)
NewsInOrder ==
  \A k \in 2 .. Len(heard) :
    \/ heard[k - 1] < heard[k]
    \/ heard[k - 1] = heard[k] /\ k = Len(heard) /\ n > Len(file) /\ EndUnmet
=============================================================================
