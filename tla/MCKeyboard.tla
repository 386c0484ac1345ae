------------------------------ MODULE MCKeyboard ------------------------------
(* Two processes with buffers of two characters; the indices wrap at 4, so   *)
(* that five keys take one buffer over both its ends and around the int.     *)
EXTENDS Keyboard

MCBufferSize == 2
MCIntRange == 4
==============================================================================
