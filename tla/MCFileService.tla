--------------------------- MODULE MCFileService ---------------------------
(* Two clients, each asks for a file smaller than a block, for one that is *)
(* larger, or for one that is not there.                                   *)
EXTENDS FileService, TLC

CONSTANTS c1, c2

MCSize == "small" :> 1 @@ "large" :> 3 @@ "missing" :> NoFile
=============================================================================
