------------------------------- MODULE MCQuiz2 -------------------------------
(* One client wants the file, one to chat, and one either; the digits of   *)
(* both services are in the group's address.                               *)
EXTENDS Quiz2, TLC

CONSTANTS c1, c2, c3

MCAnswers == c1 :> {"1"} @@ c2 :> {"1", "2"} @@ c3 :> {"2", "12"}
MCGroupDigits == {1, 2}
=============================================================================
