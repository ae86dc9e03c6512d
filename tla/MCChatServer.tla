---------------------------- MODULE MCChatServer ----------------------------
(* Small instances of ChatServer; the connections are interchangeable.     *)
EXTENDS ChatServer, TLC

Connections == Permutations(Conn)
=============================================================================
