---------------------------- MODULE MCSupervisor ----------------------------
(* Two workers and the relay; the second delay doubles the first and is the *)
(* limit, where failures stop to count.                                     *)
EXTENDS Supervisor
=============================================================================
