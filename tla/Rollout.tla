------------------------------- MODULE Rollout -------------------------------
(***************************************************************************)
(* A rollout of misp-container: configure Jobs (configure.run) of one or   *)
(* several revisions, the lock they take one after the other, the record   *)
(* of runs they leave in system_settings, and the web and worker pods that *)
(* wait for a run of their own image and configuration before they serve   *)
(* (db.wait_for_configure).  Helm, Argo CD and kubectl apply all of them   *)
(* in any order, so every Job and every pod runs from the start.           *)
(*                                                                         *)
(* A Job here is one attempt, a pod of the Kubernetes Job; the retries of  *)
(* a Job and the Jobs of a rollback are further members of Proc, the       *)
(* processes that take the lock.  What they do to the lock are the actions *)
(* of ConfigLock.                                                          *)
(***************************************************************************)
EXTENDS ConfigLock, Integers, Sequences, FiniteSets, SequencesExt

CONSTANTS
  Pod,        \* the web and worker pods
  Revision,   \* what configured_for() can return: records with a "version", a
              \* "checksum", both or neither, because empty values are dropped
  Wanted,     \* Wanted[p] \in Revision, for every attempt and Pod p
  Keep,       \* CONFIGURED_KEEP
  Installed,  \* the records that an instance configured before may hold
  Retries,    \* the polls of wait_for_configure
  MaxLost     \* bound: sessions that end under a live run

ASSUME ProcessAssumption == Wanted \in [Proc \union Pod -> Revision]

(* An instance may hold any record that record_configured writes. *)
ASSUME RecordAssumption ==
  /\ Keep \in Nat \ {0}
  /\ Installed \subseteq Seq(Revision)
  /\ \A s \in Installed :
       /\ Len(s) <= Keep
       /\ \A i, k \in DOMAIN s : s[i] = s[k] => i = k

ASSUME BoundAssumption == Retries \in Nat \ {0} /\ MaxLost \in Nat

VARIABLES
  pc,          \* pc[j]: the next step of Job j
  pod,         \* pod[p]: whether pod p is "waiting", "serving" or "exited"
  schema,      \* the tables: "empty", "3.0", or "2.x" (check_layout)
  applied,     \* applied[r]: which of "updates" and "admin" runs for r have done
  live,        \* the row MISP.live: "unset", "true" or "false"
  ignored,     \* history: some set_setting of MISP.live failed and its run went on
  raced,       \* history: the Jobs that were between their read and their write of
               \* MISP.live when an admin last began a maintenance
  configured,  \* the row misp_docker.configured, newest last
  read,        \* read[j]: what configured_runs() returned to Job j
  runs,        \* the row misp_docker.runs.configure: see RunRecord
  readRuns,    \* readRuns[j]: that row as record_run read it in Job j
  tries,       \* tries[p]: the polls pod p has left while it waits
  finished     \* history: every run ever recorded, by its latest record, newest last

liveVars == <<live, ignored, raced>>
dataVars == <<schema, applied, liveVars, configured, read, finished>>
recordVars == <<runs, readRuns>>
podVars == <<pod, tries>>
vars == <<lockVars, pc, dataVars, recordVars, podVars>>

Count == INSTANCE RunRecord
  WITH row <- runs, seen <- readRuns, now <- 0,
       stage <- pc

(* The steps between acquire_config_lock and release_config_lock. *)
Work == {"schema", "import", "layout", "updates", "admin", "live", "set live",
         "read record", "write record"}
UnderLock == Work \union {"failing", "count error", "release failed", "release"}
Ended == {"done", "failed", "dead"}
JobPC == {"start", "lock", "count", "count success"} \union UnderLock \union Ended
PodPC == {"waiting", "serving", "exited"}

-----------------------------------------------------------------------------
(* The record of configure runs *)

(* all(run.get(k) == v for k, v in wanted.items()) *)
Matches(run, wanted) ==
  \A k \in DOMAIN wanted : k \in DOMAIN run /\ run[k] = wanted[k]

(* Mutant of Recorded: only the newest run counts. *)
RecordedNewest(p) == configured # <<>> /\ Matches(Last(configured), Wanted[p])

(* Some run on record is the one that pod p waits for. *)
Recorded(p) == \E i \in DOMAIN configured : Matches(configured[i], Wanted[p])

(* [r for r in runs if r != run]: a record holds a run once. *)
Without(s, run) ==
  IF \E i \in DOMAIN s : s[i] = run
  THEN RemoveAt(s, CHOOSE i \in DOMAIN s : s[i] = run)
  ELSE s

(* Mutant of Newest: runs[:CONFIGURED_KEEP], which keeps the oldest. *)
Oldest(s) == IF Len(s) > Keep THEN SubSeq(s, 1, Keep) ELSE s

(* runs[-CONFIGURED_KEEP:] *)
Newest(s) == IF Len(s) > Keep THEN SubSeq(s, Len(s) - Keep + 1, Len(s)) ELSE s

-----------------------------------------------------------------------------
Init ==
  /\ LockInit
  /\ pc = [j \in Proc |-> "start"]
  /\ pod = [p \in Pod |-> "waiting"]
  /\ \/ schema = "empty" /\ live = "unset" /\ configured = <<>>
     \/ schema = "2.x" /\ live = "true" /\ configured = <<>>
     \/ schema = "3.0" /\ live \in {"unset", "true", "false"} /\ configured \in Installed
  /\ applied = [r \in Revision |-> IF Contains(configured, r) THEN {"updates", "admin"} ELSE {}]
  /\ read = [j \in Proc |-> <<>>]
  /\ runs = Count!NoRow
  /\ readRuns = [j \in Proc |-> Count!NoRow]
  /\ tries = [p \in Pod |-> Retries]
  /\ finished = configured
  /\ ignored = (configured # <<>> /\ live = "unset")
  /\ raced = {}

Goto(j, step) == pc' = [pc EXCEPT ![j] = step]

-----------------------------------------------------------------------------
(* configure.run, one attempt of a Job *)

(* check_identity and wait_for_db pass, and the lock connection is made. *)
Start(j) ==
  /\ pc[j] = "start"
  /\ Connect(j)
  /\ Goto(j, "lock")
  /\ UNCHANGED <<dataVars, recordVars, podVars>>

(* check_identity refuses the settings, or the database never answers. *)
Refuse(j) ==
  /\ pc[j] = "start"
  /\ Goto(j, "failed")
  /\ UNCHANGED <<lockVars, dataVars, recordVars, podVars>>

TakeLock(j) ==
  /\ pc[j] = "lock"
  /\ TryLock(j)
  /\ Goto(j, "schema")
  /\ UNCHANGED <<dataVars, recordVars, podVars>>

(* Mutant of GiveUpLock: a timeout that is only logged. *)
GiveUpLockGoesOn(j) ==
  /\ pc[j] = "lock"
  /\ TimeOut(j) \/ PollFails(j)
  /\ Goto(j, "schema")
  /\ UNCHANGED <<dataVars, recordVars, podVars>>

(* The deadline of the lock passes, or its connection breaks: exit 1. *)
GiveUpLock(j) ==
  /\ pc[j] = "lock"
  /\ TimeOut(j) \/ PollFails(j)
  /\ Goto(j, "failed")
  /\ UNCHANGED <<dataVars, recordVars, podVars>>

(* init_schema asks for the attributes table.  query_ok turns every failure *)
(* into False, so the answer "no" may also be a connection that broke.      *)
CheckSchema(j) ==
  /\ pc[j] = "schema"
  /\ \/ schema # "empty" /\ Goto(j, "layout")
     \/ Goto(j, "import")
  /\ UNCHANGED <<lockVars, dataVars, recordVars, podVars>>

(* The baseline is one transaction; on a database that has tables it fails. *)
Import(j) ==
  /\ pc[j] = "import"
  /\ IF schema = "empty"
     THEN schema' = "3.0" /\ Goto(j, "layout")
     ELSE UNCHANGED schema /\ Goto(j, "failing")
  /\ UNCHANGED <<lockVars, applied, liveVars, configured, read, finished, recordVars, podVars>>

(* Mutant of CheckLayout: the run goes on record before configure_misp. *)
CheckLayoutRecordsFirst(j) ==
  /\ pc[j] = "layout"
  /\ Goto(j, "read record")
  /\ UNCHANGED <<lockVars, dataVars, recordVars, podVars>>

(* check_layout refuses the data of MISP 2.x; its query may fail as well.   *)
CheckLayout(j) ==
  /\ pc[j] = "layout"
  /\ \/ schema = "2.x" /\ Goto(j, "failing")
     \/ Goto(j, "updates")
  /\ UNCHANGED <<lockVars, dataVars, recordVars, podVars>>

(* cake.run_updates, which refuses a 2.x database. *)
RunUpdates(j) ==
  /\ pc[j] = "updates"
  /\ IF schema = "3.0"
     THEN applied' = [applied EXCEPT ![Wanted[j]] = @ \union {"updates"}] /\ Goto(j, "admin")
     ELSE UNCHANGED applied /\ Goto(j, "failing")
  /\ UNCHANGED <<lockVars, schema, liveVars, configured, read, finished, recordVars, podVars>>

(* setup_admin, forget_repository_rows and report_manual_settings. *)
SetupAdmin(j) ==
  /\ pc[j] = "admin"
  /\ applied' = [applied EXCEPT ![Wanted[j]] = @ \union {"admin"}]
  /\ Goto(j, "live")
  /\ UNCHANGED <<lockVars, schema, liveVars, configured, read, finished, recordVars, podVars>>

(* Mutant of CheckLive: every configure run opens the instance. *)
CheckLiveAlways(j) ==
  /\ pc[j] = "live"
  /\ Goto(j, "set live")
  /\ UNCHANGED <<lockVars, dataVars, recordVars, podVars>>

(* get_system_setting("MISP.live") is None: a value an admin set stays. *)
CheckLive(j) ==
  /\ pc[j] = "live"
  /\ Goto(j, IF live = "unset" THEN "set live" ELSE "read record")
  /\ UNCHANGED <<lockVars, dataVars, recordVars, podVars>>

(* set_setting logs a failure and returns False, which configure_misp does  *)
(* not look at: the run goes on either way.                                 *)
SetLive(j) ==
  /\ pc[j] = "set live"
  /\ \/ live' = "true" /\ UNCHANGED <<ignored, raced>>
     \/ ignored' = TRUE /\ UNCHANGED <<live, raced>>
  /\ Goto(j, "read record")
  /\ UNCHANGED <<lockVars, schema, applied, configured, read, finished, recordVars, podVars>>

(* record_configured reads the record ... *)
ReadConfigured(j) ==
  /\ pc[j] = "read record"
  /\ read' = [read EXCEPT ![j] = configured]
  /\ Goto(j, "write record")
  /\ UNCHANGED <<lockVars, schema, applied, liveVars, configured, finished, recordVars, podVars>>

(* ... and writes it with this run last.  When the answer to the committed   *)
(* write is lost, the run fails with its run on record.                     *)
WriteConfigured(j) ==
  /\ pc[j] = "write record"
  /\ configured' = Newest(Append(Without(read[j], Wanted[j]), Wanted[j]))
  /\ finished' = Append(Without(finished, Wanted[j]), Wanted[j])
  /\ read' = [read EXCEPT ![j] = <<>>]
  /\ Goto(j, "release") \/ Goto(j, "failing")
  /\ UNCHANGED <<lockVars, schema, applied, liveVars, recordVars, podVars>>

(* Any step under the lock may raise: the database, cake or the network. *)
WorkFails(j) ==
  /\ pc[j] \in Work
  /\ Goto(j, "failing")
  /\ UNCHANGED <<lockVars, dataVars, recordVars, podVars>>

(* record_run(False), still under the lock; an exception in it is logged    *)
(* only, as when the table does not exist yet.                              *)
CountError(j) ==
  /\ \/ /\ pc[j] = "failing" /\ schema # "empty"
        /\ Count!Read(j)
        /\ Goto(j, "count error")
     \/ /\ pc[j] = "count error"
        /\ Count!Write(j, "error")
        /\ Goto(j, "release failed")
     \/ /\ pc[j] \in {"failing", "count error"}
        /\ Goto(j, "release failed")
        /\ UNCHANGED recordVars
  /\ UNCHANGED <<lockVars, dataVars, podVars>>

(* Mutant of ReleaseLock: a failed run exits before the release. *)
ReleaseLockOnSuccess(j) ==
  /\ pc[j] \in {"release", "release failed"}
  /\ IF pc[j] = "release" THEN Release(j) ELSE UNCHANGED lockVars
  /\ Goto(j, IF pc[j] = "release" THEN "count" ELSE "failed")
  /\ UNCHANGED <<dataVars, recordVars, podVars>>

(* finally: release_config_lock, whether the run failed or not. *)
ReleaseLock(j) ==
  /\ pc[j] \in {"release", "release failed"}
  /\ Release(j)
  /\ Goto(j, IF pc[j] = "release" THEN "count" ELSE "failed")
  /\ UNCHANGED <<dataVars, recordVars, podVars>>

(* record_run(True), after the release. *)
CountSuccess(j) ==
  /\ \/ /\ pc[j] = "count"
        /\ Count!Read(j)
        /\ Goto(j, "count success")
     \/ /\ pc[j] = "count success"
        /\ Count!Write(j, "success")
        /\ Goto(j, "done")
     \/ /\ pc[j] \in {"count", "count success"}
        /\ Goto(j, "done")
        /\ UNCHANGED recordVars
  /\ UNCHANGED <<lockVars, dataVars, podVars>>

(* The pod of the Job is killed, or its node goes away. *)
JobDies(j) ==
  /\ pc[j] \notin Ended
  /\ Die(j)
  /\ Goto(j, "dead")
  /\ UNCHANGED <<dataVars, recordVars, podVars>>

(* PostgreSQL ends the lock session of j, dead or alive. *)
JobSessionEnds(j) ==
  /\ client[j] = "held" => Cardinality(lost) < MaxLost
  /\ SessionEnds(j)
  /\ UNCHANGED <<pc, dataVars, recordVars, podVars>>

JobStep(j) ==
  \/ Start(j) \/ Refuse(j) \/ TakeLock(j) \/ GiveUpLock(j)
  \/ CheckSchema(j) \/ Import(j) \/ CheckLayout(j) \/ RunUpdates(j)
  \/ SetupAdmin(j) \/ CheckLive(j) \/ SetLive(j)
  \/ ReadConfigured(j) \/ WriteConfigured(j) \/ WorkFails(j)
  \/ CountError(j) \/ ReleaseLock(j) \/ CountSuccess(j)

-----------------------------------------------------------------------------
(* The web and worker pods: wait_for_configure *)

Become(p, state) == pod' = [pod EXCEPT ![p] = state]

(* Mutant of Serve: any run on record will do. *)
ServeAnyRun(p) ==
  /\ pod[p] = "waiting"
  /\ schema # "empty"
  /\ configured # <<>>
  /\ Become(p, "serving")
  /\ UNCHANGED <<lockVars, pc, dataVars, recordVars, tries>>

(* A poll finds a run that matches, and the pod starts its service. *)
Serve(p) ==
  /\ pod[p] = "waiting"
  /\ schema # "empty"
  /\ Recorded(p)
  /\ tries' = [tries EXCEPT ![p] = Retries]
  /\ Become(p, "serving")
  /\ UNCHANGED <<lockVars, pc, dataVars, recordVars>>

(* A poll finds none; after the last one the pod exits with status 1. *)
PollAgain(p) ==
  /\ pod[p] = "waiting"
  /\ schema # "empty"
  /\ ~Recorded(p)
  /\ tries' = [tries EXCEPT ![p] = IF @ = 1 THEN Retries ELSE @ - 1]
  /\ Become(p, IF tries[p] = 1 THEN "exited" ELSE "waiting")
  /\ UNCHANGED <<lockVars, pc, dataVars, recordVars>>

(* The poll raises, because system_settings does not exist yet or the       *)
(* database is away: the pod ends with a traceback.                         *)
PollRaises(p) ==
  /\ pod[p] = "waiting"
  /\ tries' = [tries EXCEPT ![p] = Retries]
  /\ Become(p, "exited")
  /\ UNCHANGED <<lockVars, pc, dataVars, recordVars>>

(* The pod crashes, is evicted or moves to another node. *)
PodStops(p) ==
  /\ pod[p] = "serving"
  /\ Become(p, "exited")
  /\ UNCHANGED <<lockVars, pc, dataVars, recordVars, tries>>

(* Kubernetes starts its container again. *)
PodRestarts(p) ==
  /\ pod[p] = "exited"
  /\ Become(p, "waiting")
  /\ UNCHANGED <<lockVars, pc, dataVars, recordVars, tries>>

(* An admin sets MISP's maintenance switch, through a pod that serves. *)
AdminSetsLive(p) ==
  /\ pod[p] = "serving"
  /\ live' \in {"true", "false"}
  /\ raced' = IF live' = "false" THEN {j \in Proc : pc[j] = "set live"} ELSE {}
  /\ UNCHANGED <<lockVars, pc, schema, applied, ignored, configured, read, finished, recordVars, podVars>>

-----------------------------------------------------------------------------
Next ==
  \/ \E j \in Proc : JobStep(j) \/ JobDies(j) \/ JobSessionEnds(j)
  \/ \E p \in Pod : \/ Serve(p) \/ PollAgain(p) \/ PollRaises(p)
                    \/ PodStops(p) \/ PodRestarts(p) \/ AdminSetsLive(p)

(* A Job that runs goes on; PostgreSQL ends the session of a Job that is    *)
(* dead or has closed its side; a pod polls in a loop, and Kubernetes       *)
(* restarts it.  Crashes, sessions that end under a run, failures and the   *)
(* admin have no fairness.                                                  *)
Fairness ==
  /\ \A j \in Proc : WF_vars(JobStep(j))
  /\ \A j \in Proc : WF_vars(client[j] \in {"gone", "out"} /\ JobSessionEnds(j))
  /\ \A p \in Pod : SF_vars(Serve(p)) /\ WF_vars(PodRestarts(p))

Spec == Init /\ [][Next]_vars /\ Fairness

-----------------------------------------------------------------------------
(* Safety *)

TypeOK ==
  /\ LockTypeOK
  /\ pc \in [Proc -> JobPC]
  /\ pod \in [Pod -> PodPC]
  /\ schema \in {"empty", "3.0", "2.x"}
  /\ applied \in [Revision -> SUBSET {"updates", "admin"}]
  /\ live \in {"unset", "true", "false"} /\ ignored \in BOOLEAN /\ raced \subseteq Proc
  /\ configured \in Seq(Revision)
  /\ read \in [Proc -> Seq(Revision)]
  /\ runs \in Count!Row
  /\ readRuns \in [Proc -> Count!Row]
  /\ tries \in [Pod -> 1..Retries]
  /\ finished \in Seq(Revision)

(* Where a Job stands tells what it has of the lock. *)
LockStates ==
  \A j \in Proc :
    /\ pc[j] \in UnderLock <=> client[j] = "held"
    /\ pc[j] = "lock" <=> client[j] = "polling"
    /\ pc[j] = "dead" <=> client[j] = "gone"

(* What a configure run has behind it at each step; whatever it recorded,   *)
(* or read from the record, it or an earlier run has done.                  *)
AtRecord == {"read record", "write record"}
AfterAdmin == {"live", "set live"} \union AtRecord
AfterUpdates == {"admin"} \union AfterAdmin
Usable(s) == \A i \in DOMAIN s : applied[s[i]] = {"updates", "admin"}
WorkInOrder ==
  /\ Usable(configured)
  /\ configured # <<>> => schema = "3.0" /\ (live # "unset" \/ ignored)
  /\ \A j \in Proc :
       /\ Usable(read[j])
       /\ pc[j] \in AfterUpdates => schema = "3.0" /\ "updates" \in applied[Wanted[j]]
       /\ pc[j] \in AfterAdmin => "admin" \in applied[Wanted[j]]
       /\ pc[j] \in AtRecord => live # "unset" \/ ignored

(* Nothing is on record, or about to be written back, that no run recorded. *)
RecordHistory ==
  /\ ToSet(configured) \subseteq ToSet(finished)
  /\ \A j \in Proc : ToSet(read[j]) \subseteq ToSet(finished)

(* The inductive invariant: the types, the lock as ConfigLock knows it,     *)
(* which Job has it, and that a run is on record only after its work.       *)
RolloutInv ==
  TypeOK /\ HolderSession /\ LockStates /\ WorkInOrder /\ RecordHistory

(* "Two configure runs at once ... would import the schema twice: the whole *)
(* run holds the lock" (configure.run): two runs are between the lock and   *)
(* its release at once only after one of them lost its lock session.        *)
RunsOverlapOnlyAfterLoss ==
  \A i, j \in Proc : pc[i] \in UnderLock /\ pc[j] \in UnderLock /\ i # j
                      => i \in lost \/ j \in lost

(* A run on record stands for a database that a pod of that revision can    *)
(* use: its updates and its admin user are in, whatever fails, crashes or   *)
(* overlaps.  MISP.live has a value then, unless the console could not set  *)
(* it, which a run passes over.                                             *)
RecordedMeansConfigured ==
  configured # <<>> =>
    /\ schema = "3.0" /\ (live = "unset" => ignored)
    /\ \A i \in DOMAIN configured : applied[configured[i]] = {"updates", "admin"}

(* The record holds the last CONFIGURED_KEEP revisions, by their latest run,*)
(* although it is read and written in two statements: no run's record is    *)
(* lost to another run, so a pod of the previous revision that restarts     *)
(* while a rollout stalls finds its own run (comment on CONFIGURED_ROW).    *)
RecordComplete ==
  lost = {} => configured = Newest(finished)

(* MISP.live is set once, then it is the admin's (configure_misp): a run    *)
(* ends a maintenance only when it had read MISP.live, and found no value,  *)
(* before an admin began that maintenance.  A pod serves and its admin acts *)
(* in that time only when runs overlap or when the setting of an earlier    *)
(* run failed.                                                              *)
AdminKeepsLive ==
  [][live = "false" /\ live' # "false" /\ pc' # pc
       => (\E j \in raced : pc[j] = "set live") /\ (lost # {} \/ ignored)]_vars

-----------------------------------------------------------------------------
(* The promise to the pods, and that it is kept in time *)

Promise == INSTANCE RolloutPromise
  WITH Run <- Revision,
       migrated <- {r \in Revision : "updates" \in applied[r]},
       known <- ToSet(finished),
       ready <- ToSet(configured),
       up <- {p \in Pod : pod[p] = "serving"}

(* Rollout implements RolloutPromise: the record and the pods' polls, with  *)
(* Jobs that overlap, crash or lose their lock, never let a pod serve       *)
(* before the updates of a run that answers its wait.                       *)
PromiseKept == Promise!PromiseSpec

(* A run that answers the wait of pod p is among the last CONFIGURED_KEEP   *)
(* that finished and no lock session was lost, or is still on record.       *)
Answered(p) ==
  \/ lost = {} /\ \E i \in DOMAIN finished :
                     i > Len(finished) - Keep /\ Matches(finished[i], Wanted[p])
  \/ \E i \in DOMAIN configured : Matches(configured[i], Wanted[p])

(* A pod whose run has finished serves again after every restart, whichever *)
(* revisions ran configure at the same time or since, until its run is none *)
(* of the last CONFIGURED_KEEP.                                             *)
PodsServe ==
  \A p \in Pod : <>[]Answered(p) => []<>(pod[p] = "serving")
=============================================================================
