--------------------------- MODULE MCCommandLine ---------------------------
(* A small instance of CommandLine: the stack and one operator.            *)
EXTENDS CommandLine

MCVaried == Settings
=============================================================================
