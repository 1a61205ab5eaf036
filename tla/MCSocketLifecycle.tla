--------------------------- MODULE MCSocketLifecycle ---------------------------
(***************************************************************************)
(* Instances of SocketLifecycle for TLC: one TCP socket with two lives, so *)
(* that it is opened once from power-up and once over what the first life  *)
(* left behind, with the buffer sizes of MCW5500Driver.  Of sending and    *)
(* receiving each run has one, or neither when calls must return.          *)
(***************************************************************************)
EXTENDS SocketLifecycle
===============================================================================
