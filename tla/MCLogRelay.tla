----------------------------- MODULE MCLogRelay -----------------------------
(* Three lines, two of them wide, in a file that is emptied once more than *)
(* one is read, and a relay that ends up to twice.                         *)
EXTENDS LogRelay
=============================================================================
