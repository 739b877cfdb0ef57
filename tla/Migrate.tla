------------------------------- MODULE Migrate -------------------------------
(***************************************************************************)
(* The migration of an old MISP into this deployment (migrate.run), the    *)
(* init container of a configure Job, and the configure run that follows   *)
(* it in the same pod.  While the component is on, every upgrade or sync   *)
(* makes another Job, so attempts meet what earlier ones left behind: half *)
(* a copy, a copy, a run record that could not be written, or attachments  *)
(* that did not all arrive.                                                *)
(***************************************************************************)
EXTENDS Integers, FiniteSets

CONSTANTS
  Attempt,   \* the configure Jobs with the migrate component on
  None,      \* no process
  Table,     \* the tables of the target
  Kept,      \* those whose rows the baseline brings (KEEP), not the source
  Settings,  \* system_settings, which takes the source's
  FlagSets,  \* what MIGRATE_FORCE and MIGRATE_REPLACE_COPY are set to: sets of
             \* "force" and "replace"
  MaxLost    \* bound: lock sessions that end under a live attempt

ASSUME MigrateAssumption ==
  /\ None \notin Attempt
  /\ Kept \subseteq Table
  /\ Settings \in Table \ Kept
  /\ FlagSets \subseteq SUBSET {"force", "replace"}
  /\ MaxLost \in Nat

VARIABLES
  client, backend, holder, lost,  \* the lock: see ConfigLock
  pc,          \* pc[a]: the next step of attempt a, where it stays when a dies
  flags,       \* flags[a] \in FlagSets: the environment of a
  withFiles,   \* withFiles[a]: a has MIGRATE_SOURCE_FILES or MIGRATE_SOURCE_S3_BUCKET
  table,       \* table[t]: "none", the rows of another instance ("other"), the
               \* baseline's ("base"), "part" of the source's, or the "copy"
  todo,        \* todo[a]: the tables that a has still to drop or to copy
  copyRun,     \* the row misp_docker.runs.migrate: which of "success" and
               \* "error" it has a time of
  filesRun,    \* the row misp_docker.runs.migrate-files: its latest time
  configured,  \* the row misp_docker.configured holds a run
  files,       \* the attachments at the target: "none", "part" or "copied"
  torn,        \* history: tables were dropped since the last copy on record
  upgraded,    \* history: a configure run has worked on the present copy
  silent,      \* history: an attempt ended between the last copy and a record of its
               \* attachments
  bare         \* history: the attempt that made the last copy had no attachments to
               \* copy

lockVars == <<client, backend, holder, lost>>
inputs == <<flags, withFiles>>
rows == <<copyRun, filesRun, configured>>
history == <<torn, upgraded, silent, bare>>
vars == <<lockVars, pc, inputs, table, todo, rows, files, history>>

Lock == INSTANCE ConfigLock WITH Proc <- Attempt

(* The tables that take the source's rows.  All tables make up a target.    *)
Copied == Table \ Kept
Whole == \A t \in Copied : table[t] = "copy"
Existing == {t \in Table : table[t] # "none"}
AttemptPC == {"start", "lock", "plan", "drop", "baseline", "truncate", "fill", "copy failed",
              "record", "clear", "files", "files copied", "files failed", "release",
              "release failed", "migrated", "done", "failed"}

(* Attempt a, alive, is at a step; it goes on with another. *)
At(a, step) == pc[a] = step /\ client[a] # "gone"
Goto(a, step) == pc' = [pc EXCEPT ![a] = step]

(* An empty target, an instance that was installed in it, or a migrated one. *)
Init ==
  /\ Lock!LockInit
  /\ pc = [a \in Attempt |-> "start"]
  /\ flags \in [Attempt -> FlagSets]
  /\ withFiles \in [Attempt -> BOOLEAN]
  /\ \E content \in {"none", "other", "copy"} :
       /\ table = [t \in Table |->
                    IF content = "copy" /\ t \in Kept THEN "base" ELSE content]
       /\ copyRun = IF content = "copy" THEN {"success"} ELSE {}
       /\ filesRun = IF content = "copy" THEN "success" ELSE "none"
       /\ configured = (content # "none")
       /\ files = IF content = "copy" THEN "copied" ELSE "none"
       /\ upgraded = (content = "copy")
  /\ todo = [a \in Attempt |-> {}]
  /\ torn = FALSE /\ silent = FALSE /\ bare = FALSE

-----------------------------------------------------------------------------
(* Before the copy *)

(* The settings, buckets, source and identity pass; the lock connection. *)
Start(a) ==
  /\ At(a, "start")
  /\ Lock!Connect(a)
  /\ Goto(a, "lock")
  /\ UNCHANGED <<inputs, table, todo, rows, files, history>>

(* Exit 2 (settings, a bucket, the source) or 4 (identity). *)
Refuse(a) ==
  /\ At(a, "start")
  /\ Goto(a, "failed")
  /\ UNCHANGED <<lockVars, inputs, table, todo, rows, files, history>>

TakeLock(a) ==
  /\ At(a, "lock")
  /\ Lock!TryLock(a)
  /\ Goto(a, "plan")
  /\ UNCHANGED <<inputs, table, todo, rows, files, history>>

(* A copy takes longer than the 300 s that others wait: exit 1. *)
GiveUpLock(a) ==
  /\ At(a, "lock")
  /\ Lock!TimeOut(a) \/ Lock!PollFails(a)
  /\ Goto(a, "failed")
  /\ UNCHANGED <<inputs, table, todo, rows, files, history>>

(* Mutant of TargetPlan: MIGRATE_FORCE alone drops a copy. *)
TargetPlanForced(a) ==
  IF Existing = {} \/ "force" \in flags[a] THEN "copy"
  ELSE IF "success" \in copyRun THEN "keep" ELSE "refuse"

(* target_plan, with last_copy: the copy on record, if the row is there. *)
TargetPlan(a) ==
  IF Existing = {} THEN "copy"
  ELSE IF "success" \in copyRun /\ ~({"force", "replace"} \subseteq flags[a]) THEN "keep"
  ELSE IF "force" \in flags[a] THEN "copy" ELSE "refuse"

(* Mutant of Plan: a kept copy is left as it is. *)
PlanKeepsFiles(a) ==
  /\ At(a, "plan")
  /\ \/ TargetPlan(a) = "keep" /\ Goto(a, "release")
     \/ TargetPlan(a) = "refuse" /\ Goto(a, "release failed")
     \/ TargetPlan(a) = "copy" /\ Goto(a, IF Existing = {} THEN "baseline" ELSE "drop")
     \/ Goto(a, "release failed")
  /\ todo' = [todo EXCEPT ![a] = Existing]
  /\ UNCHANGED <<lockVars, inputs, table, rows, files, history>>

(* What to do with the target; files_failed_last on a copy that is kept.    *)
(* The queries may fail, outside the inner try: no record.                  *)
Plan(a) ==
  /\ At(a, "plan")
  /\ \/ TargetPlan(a) = "keep" /\ Goto(a, IF filesRun = "error" THEN "files" ELSE "release")
     \/ TargetPlan(a) = "refuse" /\ Goto(a, "release failed")
     \/ TargetPlan(a) = "copy" /\ Goto(a, IF Existing = {} THEN "baseline" ELSE "drop")
     \/ Goto(a, "release failed")
  /\ todo' = [todo EXCEPT ![a] = Existing]
  /\ UNCHANGED <<lockVars, inputs, table, rows, files, history>>

(* The rows of t, and with them the run records when t is system_settings. *)
Replace(t, content, record) ==
  /\ table' = [table EXCEPT ![t] = content]
  /\ IF t = Settings
     THEN copyRun' = {} /\ filesRun' = "none" /\ configured' = record
     ELSE UNCHANGED rows

(* drop_all: one DROP, committed on its own, per table. *)
Drop(a) ==
  /\ At(a, "drop")
  /\ \E t \in todo[a] :
       /\ Replace(t, "none", FALSE)
       /\ todo' = [todo EXCEPT ![a] = @ \ {t}]
       /\ Goto(a, IF todo[a] = {t} THEN "baseline" ELSE "drop")
  /\ torn' = TRUE
  /\ upgraded' = FALSE
  /\ UNCHANGED <<lockVars, inputs, files, silent, bare>>

-----------------------------------------------------------------------------
(* migrate_into_postgres *)

(* init_schema (one transaction, on a database that has no tables) and      *)
(* run_updates; then the upgrade of the source, and its schema as well as   *)
(* the target's: exit 5, with no record, where they differ.                 *)
Baseline(a) ==
  /\ At(a, "baseline")
  /\ IF Existing = {}
     THEN /\ table' = [t \in Table |-> "base"]
          /\ copyRun' = {} /\ filesRun' = "none" /\ configured' = FALSE
     ELSE UNCHANGED <<table, rows>>
  /\ Goto(a, "truncate") \/ Goto(a, "release failed")
  /\ todo' = [todo EXCEPT ![a] = Copied]
  /\ UNCHANGED <<lockVars, inputs, files, history>>

(* TRUNCATE of the next table, and the first of its rows. *)
Truncate(a) ==
  /\ At(a, "truncate")
  /\ \E t \in todo[a] :
       /\ table[t] # "none"
       /\ Replace(t, "part", FALSE)
  /\ Goto(a, "fill")
  /\ upgraded' = FALSE
  /\ UNCHANGED <<lockVars, inputs, todo, files, torn, silent, bare>>

(* The rest of its rows, without the source's run records (SKIP_ROWS) but   *)
(* with its record of configure runs, if it has one; and after the last     *)
(* table the sequences.                                                     *)
Fill(a) ==
  /\ At(a, "fill")
  /\ \E t \in todo[a] :
       /\ table[t] = "part"
       /\ \E record \in BOOLEAN : Replace(t, "copy", record)
       /\ todo' = [todo EXCEPT ![a] = @ \ {t}]
       /\ Goto(a, IF todo[a] = {t} THEN "record" ELSE "truncate")
  /\ UNCHANGED <<lockVars, inputs, files, history>>

(* An exception in the copy, or in the queries and drops before it. *)
Raises(a) ==
  /\ \/ At(a, "baseline") /\ Goto(a, "copy failed")
     \/ At(a, "truncate") /\ Goto(a, "copy failed")
     \/ At(a, "fill") /\ Goto(a, "copy failed")
     \/ At(a, "drop") /\ Goto(a, "release failed")
  /\ UNCHANGED <<lockVars, inputs, table, todo, rows, files, history>>

(* record(False): what it raises is logged only. *)
RecordError(a) ==
  /\ At(a, "copy failed")
  /\ \/ table[Settings] # "none" /\ copyRun' = copyRun \union {"error"}
     \/ UNCHANGED copyRun
  /\ Goto(a, "release failed")
  /\ UNCHANGED <<lockVars, inputs, table, todo, filesRun, configured, files, history>>

(* record(True), likewise: the run goes on without its record. *)
RecordCopy(a) ==
  /\ At(a, "record")
  /\ \/ /\ table[Settings] # "none"
        /\ copyRun' = copyRun \union {"success"}
        /\ torn' = FALSE
     \/ UNCHANGED <<copyRun, torn>>
  /\ bare' = ~withFiles[a]
  /\ silent' = FALSE
  /\ Goto(a, "clear")
  /\ UNCHANGED <<lockVars, inputs, table, todo, filesRun, configured, files, upgraded>>

(* Mutant of ClearConfigured: the copy keeps the source's record. *)
ClearConfiguredNot(a) ==
  /\ At(a, "clear")
  /\ Goto(a, "files")
  /\ UNCHANGED <<lockVars, inputs, table, todo, rows, files, history>>

(* clear_configured.  It is outside the inner try: when it raises, the run  *)
(* ends without its attachments and without a record of that.               *)
ClearConfigured(a) ==
  /\ At(a, "clear")
  /\ \/ configured' = FALSE /\ Goto(a, "files") /\ UNCHANGED silent
     \/ silent' = TRUE /\ Goto(a, "release failed") /\ UNCHANGED configured
  /\ UNCHANGED <<lockVars, inputs, table, todo, copyRun, filesRun, files, torn, upgraded, bare>>

-----------------------------------------------------------------------------
(* copy_files, and the end *)

(* Some attachments, all of them, a failure after the last one, or an       *)
(* exception that nobody catches, and no record (Attachments has the steps).*)
CopyFiles(a) ==
  /\ At(a, "files")
  /\ \/ withFiles[a] /\ files = "none" /\ files' = "part" /\ UNCHANGED <<pc, silent>>
     \/ withFiles[a] /\ files' = "copied" /\ Goto(a, "files copied") /\ UNCHANGED silent
     \/ withFiles[a] /\ UNCHANGED <<files, silent>> /\ Goto(a, "files failed")
     \/ withFiles[a] /\ UNCHANGED files /\ silent' = TRUE /\ Goto(a, "release failed")
     \/ ~withFiles[a] /\ UNCHANGED <<files, silent>> /\ Goto(a, "release")
  /\ UNCHANGED <<lockVars, inputs, table, todo, rows, torn, upgraded, bare>>

(* record(..., FILES_RUN), which logs what it raises. *)
RecordFiles(a) ==
  /\ \/ /\ At(a, "files copied")
        /\ filesRun' = "success" /\ UNCHANGED silent
        /\ Goto(a, "release")
     \/ /\ At(a, "files failed")
        /\ filesRun' = "error" /\ UNCHANGED silent
        /\ Goto(a, "release failed")
     \/ /\ At(a, "files copied")
        /\ UNCHANGED <<filesRun, silent>>
        /\ Goto(a, "release")
     \/ /\ At(a, "files failed")
        /\ UNCHANGED filesRun /\ silent' = TRUE
        /\ Goto(a, "release failed")
  /\ UNCHANGED <<lockVars, inputs, table, todo, copyRun, configured, files, torn, upgraded, bare>>

(* finally: the lock is released, whatever happened. *)
ReleaseLock(a) ==
  /\ \/ At(a, "release") /\ Goto(a, "migrated")
     \/ At(a, "release failed") /\ Goto(a, "failed")
  /\ Lock!Release(a)
  /\ todo' = [todo EXCEPT ![a] = {}]
  /\ UNCHANGED <<inputs, table, rows, files, history>>

(* The configure container of the pod, in one step (Rollout has its steps): *)
(* it takes the lock when it is free, and fails on tables that are missing. *)
Configure(a) ==
  /\ At(a, "migrated")
  /\ \/ /\ holder = None
        /\ Existing = Table
        /\ configured' = TRUE
        /\ upgraded' = TRUE
        /\ Goto(a, "done")
     \/ /\ Goto(a, "failed")
        /\ UNCHANGED <<configured, upgraded>>
  /\ UNCHANGED <<lockVars, inputs, table, todo, copyRun, filesRun, files, torn, silent, bare>>

(* The pod is killed: out of memory, evicted, or its node is gone.  Before  *)
(* the lock and after its release that comes to Refuse and to a configure   *)
(* run that fails.                                                          *)
Die(a) ==
  /\ pc[a] \notin {"start", "migrated", "done", "failed"}
  /\ Lock!Die(a)
  /\ silent' = (silent \/ pc[a] \in {"clear", "files", "files failed"})
  /\ todo' = [todo EXCEPT ![a] = {}]
  /\ UNCHANGED <<pc, inputs, table, rows, files, torn, upgraded, bare>>

SessionEnds(a) ==
  /\ client[a] = "held" => Cardinality(lost) < MaxLost
  /\ Lock!SessionEnds(a)
  /\ UNCHANGED <<pc, inputs, table, todo, rows, files, history>>

Next ==
  \E a \in Attempt :
    \/ Start(a) \/ Refuse(a) \/ TakeLock(a) \/ GiveUpLock(a) \/ Plan(a) \/ Drop(a)
    \/ Baseline(a) \/ Truncate(a) \/ Fill(a) \/ Raises(a) \/ RecordError(a)
    \/ RecordCopy(a) \/ ClearConfigured(a) \/ CopyFiles(a) \/ RecordFiles(a)
    \/ ReleaseLock(a) \/ Configure(a) \/ Die(a) \/ SessionEnds(a)

Spec == Init /\ [][Next]_vars

-----------------------------------------------------------------------------
(* Safety *)

TypeOK ==
  /\ Lock!LockTypeOK
  /\ pc \in [Attempt -> AttemptPC]
  /\ flags \in [Attempt -> FlagSets]
  /\ withFiles \in [Attempt -> BOOLEAN]
  /\ configured \in BOOLEAN
  /\ table \in [Table -> {"none", "other", "base", "part", "copy"}]
  /\ todo \in [Attempt -> SUBSET Table]
  /\ copyRun \subseteq {"success", "error"}
  /\ filesRun \in {"none", "success", "error"}
  /\ files \in {"none", "part", "copied"}
  /\ torn \in BOOLEAN /\ upgraded \in BOOLEAN /\ silent \in BOOLEAN /\ bare \in BOOLEAN

UnderLock == AttemptPC \ {"start", "lock", "migrated", "done", "failed"}

(* "The pods wait for the configure run that upgrades and configures" the   *)
(* copy (run): they can take the source's own record for that run only      *)
(* while, or because, an attempt stands or died before clear_configured, or *)
(* that statement failed.                                                   *)
PodsWait ==
  Whole /\ Existing = Table /\ configured /\ lost = {} =>
    \/ upgraded \/ silent
    \/ \E a \in Attempt : pc[a] \in {"record", "clear"}

(* The types; an attempt holds the lock from its plan to its end, whichever *)
(* way it ends; and no pod takes an unconfigured copy for a configured one. *)
MigrateInv ==
  /\ TypeOK
  /\ Lock!HolderSession
  /\ \A a \in Attempt :
       client[a] # "gone" => (pc[a] \in UnderLock <=> client[a] = "held")
  /\ PodsWait

Promise == INSTANCE MigrationPromise
  WITH asked <- flags,
       worker <- holder,
       theirs <- {t \in Table : table[t] = "other"},
       ours <- {t \in Copied : table[t] = "copy"},
       recorded <- "success" \in copyRun,
       succeeded <- {a \in Attempt : pc[a] \in {"migrated", "done"}},
       broken <- lost # {}

(* "A copy this Job made stays" (target_plan), and the rest of what a       *)
(* migration promises: Migrate implements MigrationPromise.  Through drops  *)
(* and copies that die half way, the tables of a copy on record go only to  *)
(* an attempt with both flags, those of another instance only to one with   *)
(* MIGRATE_FORCE=true, while it has the lock; no copy is made beside what   *)
(* another instance left; and exit 0 needs a whole copy or one on record.   *)
TargetKept == Promise!PromiseSpec

(* A copy on record is complete, table by table, unless its replacement was *)
(* begun: an attempt that dies, fails or is refused half way never leaves a *)
(* record that a later one would take for a copy it made.  "A rerun after a *)
(* failed file copy keeps the database copy and copies the files again"     *)
(* (FILES_RUN): no attempt that has attachments to copy comes to its exit 0 *)
(* without them, except after one that ended without a word about them, and *)
(* on a copy that was made without any: a source of attachments that the    *)
(* operator adds to a copy that is kept is not looked at.                   *)
RecordsTell ==
  lost = {} =>
    /\ "success" \in copyRun => Whole \/ torn
    /\ \A a \in Attempt :
         At(a, "release") /\ withFiles[a] => files = "copied" \/ silent \/ bare

(* What the comment and docs/migration.md (exit codes 0 and 1) say of it,   *)
(* of a copy that was made with its attachments.                            *)
FilesCopied ==
  \A a \in Attempt : At(a, "release") /\ withFiles[a] => files = "copied" \/ bare
=============================================================================
