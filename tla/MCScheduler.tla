----------------------------- MODULE MCScheduler -----------------------------
(* Four slots and memory for four tasks: while fewer are loaded, a new task  *)
(* may or may not get the memory of a freed one.                             *)
EXTENDS Scheduler

MCMaxProcesses == 4
==============================================================================
