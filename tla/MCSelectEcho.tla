---------------------------- MODULE MCSelectEcho ----------------------------
(* Three connections over two descriptors: one has to wait and is given a  *)
(* descriptor that was used before.                                        *)
EXTENDS SelectEcho, TLC

CONSTANTS c1, c2, c3

MCMaxSent == c1 :> 2 @@ c2 :> 1 @@ c3 :> 0
=============================================================================
