----------------------------- MODULE MCW5500Driver -----------------------------
(***************************************************************************)
(* Instances of W5500Driver for TLC, one configuration file per run.  The  *)
(* sizes are small and awkward on purpose: chip memories of 4 bytes, so    *)
(* that messages of 1 and 2 bytes fill them and run over their ends; a     *)
(* transmit buffer of 11 bytes, so that segments of 4 and 5 bytes wrap     *)
(* with a gap but cannot fill it exactly while two are live; pointer       *)
(* registers modulo 16 that start at 14 and overflow.  UDP needs room for  *)
(* the 8-byte headers of received datagrams, hence its larger sizes.  For  *)
(* liveness chip memory holds one byte, so that every second message has   *)
(* to wait for it.                                                         *)
(***************************************************************************)
EXTENDS W5500Driver
===============================================================================
