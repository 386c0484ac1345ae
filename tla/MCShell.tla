-------------------------------- MODULE MCShell -------------------------------
(* Lines of up to 4 characters, of which the prompt leaves 3 on a row of 7:  *)
(* a full line goes over the margin.  4 rows are gone after two commands.    *)
(* A word of 4 characters is one too long for an argument.                   *)
EXTENDS Shell, TLC

MCLetter == {"a"}
==============================================================================
