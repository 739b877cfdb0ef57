---------------------------- MODULE MCConfigLock ----------------------------
(* Three processes and the lock: one that holds it and two that wait. *)
EXTENDS ConfigLock
=============================================================================
