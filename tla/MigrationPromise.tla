--------------------------- MODULE MigrationPromise ---------------------------
(***************************************************************************)
(* What the migration promises the operator of a deployment (migrate.py's  *)
(* target_plan and run, docs/migration.md): one attempt at a time works on *)
(* the target; tables that hold rows go only to an attempt that was told   *)
(* so; the source's rows never come to lie beside another instance's; only *)
(* a whole copy comes on record; and an attempt succeeds only with a whole *)
(* copy, or one on record.  How tables are dropped, truncated and filled,  *)
(* and what is made of a failure or a death, is left to Migrate, which     *)
(* implements this until a lock session ends under a live attempt.         *)
(***************************************************************************)
CONSTANTS Attempt, None, Table,
          Copied  \* the tables that take the source's rows

VARIABLES
  asked,      \* asked[a]: which of "force" and "replace" attempt a was given
  worker,     \* the attempt that works on the target, alive or not, or None
  theirs,     \* the tables with rows of another instance
  ours,       \* the tables with all the rows of the source
  recorded,   \* a copy is on record
  succeeded,  \* the attempts that have ended well
  broken      \* the server ended the lock session of an attempt at work

promiseVars == <<asked, worker, theirs, ours, recorded, succeeded, broken>>

PromiseInit ==
  /\ worker = None
  /\ theirs = {} \/ ours = {}
  /\ recorded => ours = Copied
  /\ succeeded = {} /\ broken = FALSE

Take(a) ==
  /\ worker = None
  /\ worker' = a
  /\ UNCHANGED <<asked, theirs, ours, recorded, succeeded, broken>>

(* "A copy this Job made stays": only both flags take it back.  The record  *)
(* may go with the table that holds it.                                     *)
Clear(a, t) ==
  /\ worker = a
  /\ "force" \in asked[a]
  /\ recorded => "replace" \in asked[a]
  /\ theirs' = theirs \ {t} /\ ours' = ours \ {t}
  /\ recorded' \in {recorded, FALSE}
  /\ UNCHANGED <<asked, worker, succeeded, broken>>

Copy(a, t) ==
  /\ worker = a
  /\ theirs = {} /\ ~recorded
  /\ ours' = ours \union {t}
  /\ UNCHANGED <<asked, worker, theirs, recorded, succeeded, broken>>

Record(a) ==
  /\ worker = a
  /\ ours = Copied
  /\ recorded' = TRUE
  /\ UNCHANGED <<asked, worker, theirs, ours, succeeded, broken>>

(* Exit 0.  A copy on record is kept, whatever is left of it.  The server   *)
(* may not hear of it at once: it has the attempt at work a while longer.   *)
Succeed(a) ==
  /\ worker = a
  /\ ours = Copied \/ recorded
  /\ worker' \in {None, a}
  /\ succeeded' = succeeded \union {a}
  /\ UNCHANGED <<asked, theirs, ours, recorded, broken>>

(* An attempt has failed, died or gone, and the server has seen it.         *)
Leave(a) ==
  /\ worker = a
  /\ worker' = None
  /\ UNCHANGED <<asked, theirs, ours, recorded, succeeded, broken>>

(* The configure container behind a successful attempt fails its pod.       *)
PodFails(a) ==
  /\ succeeded' = succeeded \ {a}
  /\ UNCHANGED <<asked, worker, theirs, ours, recorded, broken>>

PromiseNext ==
  \/ broken' = TRUE
  \/ \E a \in Attempt :
       \/ Take(a) \/ Record(a) \/ Succeed(a) \/ Leave(a) \/ PodFails(a)
       \/ \E t \in Table : Clear(a, t) \/ Copy(a, t)

PromiseSpec == PromiseInit /\ [][PromiseNext]_promiseVars
=============================================================================
