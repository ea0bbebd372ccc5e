---------------------------- MODULE MCBusBreaker ----------------------------
(* BusBreaker on a few messages, one of them critical. *)
EXTENDS BusBreaker
=============================================================================
