----------------------------- MODULE MCRollout -----------------------------
(***************************************************************************)
(* A first install, a 2.x database, and an instance that r1 and r2         *)
(* configured before; on each, a Job of r1 (there a rollback) and one of a *)
(* new r3, in any order or at once.  The record holds two runs, so on the  *)
(* installed instance the third revision pushes one out.  The pod is of    *)
(* r2's and r3's image and carries no checksum, so both runs answer it.    *)
(***************************************************************************)
EXTENDS Rollout

CONSTANTS j1, j2, w1

R1 == [version |-> "v1", checksum |-> "c1"]
R2 == [version |-> "v2", checksum |-> "c1"]
R3 == [version |-> "v2", checksum |-> "c2"]
Image2 == [version |-> "v2"]

MCJob == {j1, j2}
MCPod == {w1}
MCRevision == {R1, R2, R3, Image2}
MCWanted == (j1 :> R1) @@ (j2 :> R3) @@ (w1 :> Image2)
MCInstalled == {<<R1, R2>>}
=============================================================================
