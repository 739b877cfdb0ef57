---------------------------- MODULE MCTaskRunner ----------------------------
(* Two servers in the order of their priority, and two rows that workers    *)
(* write at any moment.                                                     *)
EXTENDS TaskRunner

CONSTANTS s1, s2

MCOrder == <<s1, s2>>
=============================================================================
