---------------------------- MODULE MCEchoStore ----------------------------
(* EchoStore with two clients; the pipe holds less than they send. *)
EXTENDS EchoStore, TLC

CONSTANTS a, b

MCMaxSent == a :> 2 @@ b :> 1
=============================================================================
