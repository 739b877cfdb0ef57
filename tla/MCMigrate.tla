----------------------------- MODULE MCMigrate -----------------------------
(***************************************************************************)
(* Two attempts, one after the other or at once, with any of the settings  *)
(* of MIGRATE_FORCE and MIGRATE_REPLACE_COPY that mean something, on an     *)
(* empty target, on another instance and on a copy; system_settings and    *)
(* one more table, dropped and copied in either order.                     *)
(***************************************************************************)
EXTENDS Migrate, TLC

MCFlagSets == {{}, {"force"}, {"force", "replace"}}
AttemptSymmetry == Permutations(Attempt)
=============================================================================
