------------------------------- MODULE Dialogue -------------------------------
(***************************************************************************)
(* What a connection of a server that answers promises a client: one       *)
(* answer for each question, never two and never one unasked - and if the  *)
(* client asks nothing and waits, none ever - until the conversation is    *)
(* over.  It may be over at any time, with a question unanswered or an     *)
(* answer unheard.  The conversations of several clients may move in one   *)
(* step: the end of a server is the end of all of them.                    *)
(***************************************************************************)
EXTENDS Naturals

CONSTANT Clnt

VARIABLES
  waits,        \* per client: does it wait for an answer, or for nothing, or not?
  question,     \* per client: questions that are to be answered
  answer,       \* per client: answers that are to be heard
  over          \* per client: is its conversation over?

vars == <<waits, question, answer, over>>

Init ==
  /\ waits = [c \in Clnt |-> "no"] /\ over = [c \in Clnt |-> FALSE]
  /\ question = [c \in Clnt |-> 0] /\ answer = question

State(c) == <<waits[c], question[c], answer[c], over[c]>>

\* c goes from one of its states to another.
Goes(c, from, to) ==
  State(c) = from /\ <<waits'[c], question'[c], answer'[c], over'[c]>> = to

Ask(c) == Goes(c, <<"no", 0, 0, FALSE>>, <<"answer", 1, 0, FALSE>>)
AskNothing(c) == Goes(c, <<"no", 0, 0, FALSE>>, <<"nothing", 0, 0, FALSE>>)
Answer(c) == Goes(c, <<"answer", 1, 0, FALSE>>, <<"answer", 0, 1, FALSE>>)
Hear(c) == Goes(c, <<"answer", 0, 1, FALSE>>, <<"no", 0, 0, FALSE>>)
End(c) == ~ over[c] /\ Goes(c, State(c), <<"no", 0, 0, TRUE>>)

Next == \A c \in Clnt :
  Ask(c) \/ AskNothing(c) \/ Answer(c) \/ Hear(c) \/ End(c) \/ Goes(c, State(c), State(c))

Spec == Init /\ [][Next]_vars
=============================================================================
