---- MODULE MCSingleFlight ----
(* SingleFlight on a few concurrent calls and one or two keys. *)
EXTENDS SingleFlight
====
