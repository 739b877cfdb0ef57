# A verification of misp-container

TLA+ models of the processes that run a MISP instance in containers (`src/files/misp_container`),
model-checked with TLC, with theorems that TLAPS checks for every value of the constants.
The source is the reference: every definition that models code names the lines it was translated
from (`PROJECT.json`, "map").

Read `Rollout.tla` first. It is the core: what makes a pod of a new version wait for its database.

1. [The system](#the-system)
2. [The modules](#the-modules)
3. [The runs](#the-runs)
4. [The proofs](#the-proofs)
5. [Where the code and its documentation disagree](#where-the-code-and-its-documentation-disagree)
6. [What is not modelled](#what-is-not-modelled)
7. [Plan](#plan)

## The system

One image runs in every role. A deployment has a *configure* Job per release revision, web pods,
worker pods, CronJobs for MISP's console tasks, and optionally an *org-sync* Job and a *migrate*
init container in front of configure. They share one PostgreSQL database, one Redis and an
attachment store. Nothing orders them: Helm, Argo CD and kubectl apply all manifests at once, so
they order themselves through rows of `system_settings` and one advisory lock.

| Component (source) | State | Operations | Interacts with | Hard behaviour | Correct when |
|---|---|---|---|---|---|
| Configure lock (`db.py` 355-403) | a connection in `_lock_conn`; PostgreSQL's session and lock | acquire (poll, deadline), release | configure, migrate, org-sync | the server ends the session and the run does not notice; a dead run's session lingers, or that of a run whose answer or release was lost; release after a loss | two runs overlap only after a loss; nobody frees another's lock; nobody waits for ever |
| Run records (`db.py` 196-222) | one row per job: a count and a time per status | read, add one, write | configure, migrate, org-sync; the exporter reads | read and write are two statements; a migration drops the rows | counters fall only when runs overlap, or with a new database |
| Configure run (`configure.py`, `db.py` 271-352) | tables, MISP's updates, the admin user, `MISP.live`, `misp_docker.configured` | the steps of `configure.run` | the lock, the pods' wait, migrate | failure or death at any step, overlap after a lost lock, an answer lost after a commit, a setting whose failure is passed over | a run is on record only when its work is in the database; the record keeps the newest ten |
| Pods' wait (`db.py` 284-309) | polls left | poll, give up, raise | the record of configure runs | any order of start, restarts, rollbacks | no pod serves before a run that answers its wait; each pod serves again after every restart |
| Migration (`migrate.py`) | the target's tables, run records, attachments | plan, drop, baseline, copy per table, record, clear, copy files | the lock, configure | attempts that die half way and what the next one makes of it, with other flags and other sources | a copy on record is whole; nothing is dropped unasked; no success without attachments |
| Log relay (`logrelay.py`) | offsets in memory and on the volume, partial lines | poll, save, restart | MISP appends; supervisor and kubelet restart it | death between two steps, appends between read and truncate, characters over two polls | each line once, in order, whole; the file stays small |
| Worker supervisor (`worker.py`) | per program: process, failures, due time | reap, start, stop in two stages | MISP's workers and their jobs, the relay | rapid exits, SIGTERM at any moment, jobs that never end | exact back-off; everything restarts; a shutdown ends and leaves nothing behind |
| Task runner (`task.py`) | the remaining servers, results, the running command | run commands one after the other, judge, relay, stop | the console, job rows, the relay | a worker's row for the same server; SIGTERM between any two statements | the exit code tells the truth; SIGTERM ends the task |
| Org sync (`sync.py`, `api.py`) | a snapshot of MISP, the row of the digests of sent authkeys | the steps of `apply`, each item a diff and a request | the lock, configure, MISP's web pods and its admins | one failed request or step among several, a request taken but not answered, death at any point, a stale snapshot, keys changed in MISP | exit 0 means that MISP is as the file says; a failure disables nothing; a warm run only reads |
| Admin user (`admin.py`), console (`cake.py`) | user 1, its keys, the organisations, the host organisation | the statements and console commands of `setup_admin` | configure; admins change the user meanwhile | a run that ends between two statements; a console command that fails without a word; the console finds a user by email | user 1 is as the environment says; no second organisation for a UUID; a warm run writes nothing |
| Metrics (`metrics.py`, `exporter.py`) | the block of the last round of partner checks, its lock | scrape, check the partners | reads the database and Redis, whose jobs move meanwhile; reads run records | several statements and keys, one after the other; a failed statement; locks on two tables without a timeout; a partner that never answers; a migration between two scrapes | the text tells what it leaves out; no queued job is lost between two keys; every scrape ends |
| Housekeeping (`housekeeping.py`) | - | bounded deletes | the database | - | keeps what is recent |
| S3 client (`s3.py`) and the copy of attachments (`migrate.py` 394-625) | the listing, the spool file, what was copied and what failed | list by pages, get, put, retry; copy a file | migrate; a volume or bucket on each side | failures and retries at any request, an empty or misjudged page, a body that ends early, a directory that cannot be read, later attempts | a success means that every file arrived under its own key |
| Settings and pod preparation (`config.py`, `env.py`, `init.py`) | files in the pod | render, once | the pod's own process | - | - |
| Web (`web.py`) | - | prepare, wait, exec PHP-FPM | the pods' wait | - | - |
| Chart (`deploy/chart`), patched MISP (`patches`) | - | which Jobs and pods exist; how a worker takes SIGTERM | all | - | - |

`PROJECT.json` lists 40 hazards, each at its line, with the properties that would catch it.

## The modules

| Module | Models | State and code |
|---|---|---|
| `ConfigLock` | `acquire_config_lock`, `release_config_lock` | `client[p]` is what the process knows (`_lock_conn`), `backend` and `holder` what PostgreSQL knows. The two part company when a session ends (`SessionEnds`), when a process dies (`Die`), and when a connection breaks on the process' side alone: a lock that was granted without its answer (`PollFails`), a release that does not reach the server (`Release`). `lost` remembers who lost its session under the lock. |
| `RunRecord` | `record_run` | `Read` and `Write` are its two statements, which `Rollout` has as steps of a configure run. `Exporter` has runs that do nothing else (`RunReads`, `RunWrites`) while it reads. No specification of its own. |
| `Rollout` | `configure.run`, `init_schema`, `record_configured`, `wait_for_configure`; the pods and their restarts | It extends `ConfigLock`, whose processes (`Proc`) are the attempts of the Jobs; `INSTANCE RunRecord` is the count. `pc[j]` is the step of an attempt; `schema`, `applied`, `live`, `configured` are the database. A step whose code has two statements that others may come between has two actions. `SetLive` may fail and go on, as `configure_misp` does with `set_setting`'s False; `ignored` remembers that. `raced` are the Jobs between their read and their write of `MISP.live` when an admin last closed the instance. |
| `RolloutPromise` | the abstract specification | four actions: a run migrates, a run comes on record, a pod starts to serve, a pod stops. |
| `Migrate` | `migrate.run` and the configure run behind it in the same pod | `table[t]` tells whose rows a table has; a run record lives in the `Settings` table and goes and comes with its rows. Drop and copy are per table, in any order, each of them two or more commits; tables of `KEEP` (`Kept`) are dropped with the others and come back with the baseline. `withFiles[a]` is the source of attachments in the environment of attempt `a`; `bare` remembers that the last copy was made without one. The configure container is one step here, because `Rollout` has its steps; so have the attachments, which `Attachments` copies file by file. |
| `MigrationPromise` | the abstract specification of a migration | one attempt at a time takes the target, clears tables, copies tables, puts the copy on record, and succeeds or leaves. A lock session that ends at work (`broken`) ends the promise. |
| `LogRelay` | `Relay.poll`, `Relay.run`, the restart | a line is two bytes, so a poll can read half of one; in a line of `Wide` the two share a character. `Decode` is what a poll makes of the bytes it read, by themselves: `garbled` are those that became replacement characters. The poll is `Stat`, `Read`, `Truncate`, `Save`, with MISP's appends, kills and restarts between any two. |
| `Supervisor` | `Supervisor.run`, `reap`, `start_due`, `shutdown`, `stop_all` | one `Loop` is a turn of one POLL; `Delay`, `Counted` and `Due` are the arithmetic of a restart. Its environment is the worker of patch 03 with its jobs, and the relay reduced to "has lines left". |
| `TaskRunner` | `task.run`, `server_run`, `console`, `Stop` | `Popen` and `Assign` are two actions since a signal handler runs between two bytecodes. The console and the job rows are MISP's and free to do what MISP may. |
| `OrgSync` | `sync.main`, `apply`, its steps and the disabling after them | `misp[i]` is MISP's state of an item in four levels: missing, off, different from the file or half made, as the file says. `run[r]` is what a run has in memory, its snapshot (`known`) above all; `sent` is the row of digests. The steps are those of `apply` in its order (taxonomies and warninglists are one kind, "list", and one step). `NothingToApply` is exit 0 without ADMIN_KEY or with an empty file. A sharing group is made before its organisations are looked for (`Unresolved`). `Migration` replaces the whole database between a run's wait for configure and its lock. Any request may be refused, or taken with its answer lost, and admins (a server's key too) and logins change MISP meanwhile. `doubt` are the servers whose digest need not be that of their key, `late` the users who logged in after a run last read the users. User 1, which no run disables, is not an item. |
| `AdminSetup` | `setup_admin`, `_configure_admin_org`, `has_password`, `has_authkey`; the console of `cake.py` | one action per statement or console command, over successive runs with environments of their own. `orgs` keeps which organisation MISP generated, since the code adopts that one. `settled` is the environment that the database is known to be as. `Rollout` has all this as one step. |
| `Exporter` | `collect_all`, `_collect_db_metrics`, `_collect_queue_metrics`, `run_network_checks` | a scrape is one action per statement and per Redis key; its output is the set of `blocks` that it has, with the figures of the runs and the queues. `check` is the thread of partner checks, `"publish"` its critical section. `manual_settings` has two statements, each on a connection without a timeout (`"manual"`, `"logs"`); `locked` are the tables that another session has locked. `Migrate` begins the row of runs anew; `readOld` and `shownOld` remember who has read, and who was shown, a row of before. |
| `Attachments` | `copy_files`, `copy_attachments`, `attachment_key`, `copy_images`; `keys`, `download`, `upload` and `_request` of the S3 client | `object[key]` tells whose file lies under a key and whether it is whole, a part, cut short without an error, or from before. `spool` is the one file every object passes through from bucket to bucket, and still holds the one before. `answer` is what a page's answer said of the next one, its flag and its token: all that the client knows of the end. `Migrate` has this copy as two steps with the database around it. |

`MC*` modules give constants their values where a .cfg cannot. Actions that begin with "Mutant of"
in a module are wrong versions of the action after them. No specification uses them; each breaks
at least one property, which shows that the property looks at that piece of code.

Data is abstracted to what the properties tell apart. A revision is the record of a version and a
checksum that `configured_for` returns, since pods compare exactly these; rows of a table are one
of five kinds; a console command's output is a Boolean.

### The environment

* A process may die between any two steps. Nothing it holds in memory survives; what it committed
  does.
* PostgreSQL may end the lock session of a live run. The models bound how often (`MaxLost`).
* A connection may break on one side only: then a session lives on, with the lock it holds, until the
  server notices.
* `query_ok` returns False on any failure, so a *no* from it may be a broken connection.
* Where the code catches and logs an exception, or drops the False that tells of a failure, the model
  has a branch in which the statement had no effect.
* The environment of a Job may differ from attempt to attempt: the operator changes it.
* A write may be committed and its answer be lost (`WriteConfigured`).

## The runs

| Run | Bounds | What it shows |
|---|---|---|
| `config_lock` | three processes | exclusion of live sessions, that only the holder or the end of its session frees the lock, and that waiting ends |
| `rollout` | two Jobs, a pod, three revisions, a record of two, two polls, one lost session | all of what `Rollout` promises; the refinement of `RolloutPromise`; that pods serve in the end |
| `migrate` | two attempts, each with or without a source of attachments, three tables (one of which the baseline keeps), every meaningful flag set, three kinds of target, one lost session | what survives an attempt that fails or dies anywhere; the refinement of `MigrationPromise` |
| `migrate_files` (violation) | as above, no lost session | an attempt can succeed without the attachments, on a copy that was made by one with a source of them |
| `log_relay` | three lines, two of them with a character in both bytes, emptied above one line, two ends of the relay, one emptying by others | once, in order, whole and as written, nothing lost, all relayed in the end, the file small |
| `supervisor` | two workers and the relay; rapid exit 2, limit 2, grace 1 | exact back-off, restart, and a shutdown that ends with nothing behind it |
| `task_runner` | two servers, two rows written by workers | exit code, order, relayed lines, the stop |
| `org_sync` | two runs, four files, eight items, one fault, and one change by others or one migration | exit 0 tells the truth, neither a failure nor an empty file disables anything and the provider's users stay, a warm run only reads |
| `exporter` | one client, one job and two queues, one partner, two runs of a job, four events (moves, failures, locks, a migration) | the text says what it leaves out, a job that moves is counted, what makes a counter fall, and every scrape ends |
| `admin_setup` | three runs, five environments, three databases, two faults, three organisations, one change by others | user 1 is as the environment of the last whole run says; a UUID has one organisation; a warm run writes nothing |
| `admin_key` (violation) | as above, no faults | the key and password are not set on a user 1 whose email is another |
| `attachments` | three attempts, four faults, four tries of a request, three files, every pair of volume and bucket | a success means that every file has arrived under its own key |

### Why the bounds are enough

*Rollout.* Two overlapping runs are the least that can interfere, and `applied`, `configured` and
`finished` meet only through pairs. With a record of two and an instance that starts with two
revisions on it, a third run pushes one out and a rollback moves one to the end, the only two
things `record_configured` does to the row. The pod's image answers to two revisions, so
matching is not equality. The theorems drop these bounds.

*Migrate.* The question is always what attempt two makes of what attempt one left, with its own flags and
its own source of attachments. One of the two tables that are copied is `system_settings`, which holds the
records, so all orders of "records first" and "rows first" happen; the third is one that only the drop and
the baseline touch. An attempt that has not begun, or that has handed over to configure, does not die:
it would leave what it found, which another attempt meets anyway.

*LogRelay.* Three lines of two bytes and a limit of two bytes: half a line at the truncate, a line over two
polls, with a character over both and without, a truncate with an append in it, and a restart after each of
them are all reached.

*Supervisor.* `Delay` passes through 0, 1 and its limit; failures stop counting where the delay has
reached its limit (`SupervisorAssumption` demands it), so the bound hides nothing. A grace of one
poll has "in time" and "too late". Two workers are needed since one may be killed while the other
still works.

*TaskRunner.* Two servers give a first, a last and a rest; two foreign rows can precede and follow
the command's own.

*OrgSync.* What a failure leaves is met by the run after it, so two runs and one fault suffice: the fault in
the first, what the second makes of it. Two files differ in the servers' key alone (and are symmetric in it),
the third names neither server nor list and is of an instance with LdapAuth, so a kind can go from named to
unnamed, and the fourth is empty. There is an item of every kind, and two users. One change by others (a
login, an admin's edit of an item or a server's key, or a migration that brings another database) comes at any
point of either run that the locks allow. Lock sessions do not end in this run (`MaxLost = 0`): its properties
exclude overlapping runs, which `config_lock` and `rollout` look at.

*Exporter.* A scrape compares nothing across clients, so one client is all. Four events let a job move through
all its places during one scrape, a statement and the close after it fail under a lock, one run record itself
while another is between its read and its write, and a migration come between what one scrape read and what
the next shows. Two tables can be locked, one after the other or both. Two queues give a job the time to move
between two LLENs; a partner that is edited away during a round needs one server.

*AdminSetup.* The first run leaves something half done, the second another thing, the third has to
put it right: three runs and two faults. The environments differ in every variable, with defaults and
without, and one has neither password nor key; three organisations are one more
than the code should ever make of them.

*Attachments.* Four faults are all the tries of one request, or one request that fails in each attempt
and a death. The names are an attachment below a bucket level, one of a proposal, and a
file that is no attachment; two of them pass through the same spool. A page of a listing may have
any number of names, none too, and its answer promise more or not.

`CHECK_DEADLOCK FALSE` stands in the configurations because all these systems come to an end: Jobs
are done, the container has stopped, the bounded actions are used up.

### Fairness

Only what the code or the platform does by itself is fair; no failure, kill, signal, admin or
append is.

* `ConfigLock`: the poll loop (it has a deadline), the release of a run that works (its steps end,
  or the Job's deadline ends it), PostgreSQL's end of the session of a peer that is dead or has closed its side.
* `Rollout`: a Job's next step; the end of the session of a Job that is dead or has closed its side; the
  kubelet's restart of a pod. `Serve` is strongly fair: a pod that polls and restarts for ever is not always
  at a poll, but meets one again and again, and one of them succeeds when the record has its run and not every
  poll raises.
* `LogRelay`: the poll loop, and its restart by the supervisor.
* `Supervisor`: its own loop and its own shutdown. A worker, a job or the relay has none: a job may
  run for ever, which is what the grace is for.
* `TaskRunner`: the task's own steps. A console command is fair only once it was told to stop.
* `Exporter`: the steps of a scrape, strongly, since a thread that waits for a lock gets it when it is
  free again and again; and the publication of a round, which waits for nothing. No partner need
  answer, and no session need release its lock on `system_settings` or `logs`.
* `Migrate`, `OrgSync`, `AdminSetup` and `Attachments` assume none: all that is stated of them is
  safety.

## The proofs

TLAPS checks every leaf of the proofs, which are in the modules `*_proofs`. `Rollout_proofs` holds those of the
lock and of the rollout, `WorkerPod_proofs` those of the two programs of a worker pod, the relay and the
supervisor; each of the others those of one component. The theorems hold for every value of the constants that
satisfies the named assumptions. Every safety property of the passing runs is proved: the
invariants, the action properties and both refinements.

| Theorem | States |
|---|---|
| `LockInvariant` (`Rollout_proofs`) | `[]LockInv`, for any set of processes |
| `LockExclusion`, `LockFreedByHolder` | `OverlapNeedsLoss`, `FreedOnlyByItsHolder` |
| `RolloutInvariant` | `[]RolloutInv`, for any Jobs, pods, revisions, `Keep`, `Retries` |
| `RunsOverlap`, `RecordSpeaksTrue` | `RunsOverlapOnlyAfterLoss`, `RecordedMeansConfigured` |
| `RecordIsComplete`, `MaintenanceStays` | `RecordComplete`, `AdminKeepsLive` |
| `RolloutImplementsPromise` | `Rollout`'s specification implies `RolloutPromise`'s under the refinement mapping |
| `RolloutObeysLock` | what a rollout does to the lock are steps of `ConfigLock`, so `FreedOnlyByItsHolder` holds in it too |
| `MigrateInvariant`, `RecordsAreTrue` (`Migrate_proofs`) | `MigrateInv`, `RecordsTell`, for any tables, attempts and flags |
| `TargetIsKept` | `TargetKept`: `Migrate`'s specification implies `MigrationPromise`'s under the refinement mapping |
| `RelayInvariant`, `RelayedOnceInOrder`, `NoLineIsLost` (`WorkerPod_proofs`) | `RelayInv`, `OnceInOrder`, `NothingLost`, for any number of lines, restarts and files emptied, and any `MAX_BYTES` |
| `SupervisorInvariant`, `LastLinesAreRelayed`, `BackoffIsExact` | `SupervisorInv`, `LastLinesRelayed` and the action property `BackoffExact`, for any workers, `RAPID_EXIT`, `MAX_DELAY` and graces |
| `TaskInvariant`, `ExitIsTrue`, `AllRelayed` (`TaskRunner_proofs`) | `TaskInv`, `ExitTells`, `LinesRelayed`, for any servers in any order |
| `AttachmentsInvariant`, `SuccessIsWhole` (`Attachments_proofs`) | `AttachmentsInv`, `SuccessWhole`, for any files, attempts, retries and pages |
| `ExporterInvariant`, `ErrorsAreTold`, `NoJobEscapes`, `CounterFallsAfterOverlap` (`Exporter_proofs`) | `ExporterInv`, `ErrorsTell`, `QueuesCounted` and the action property `CounterFallsOnlyAfterOverlap`, for any clients, jobs, queues and partners |
| `AdminInvariant`, `SetupIsTrue` (`AdminSetup_proofs`) | `AdminInv`, `SetupTells`, for any environments, databases and numbers of runs |
| `SyncInvariant`, `SuccessIsTrue`, `DisablingHasCause` (`OrgSync_proofs`) | `OrgSyncInv`, `SuccessTells` and the action property `DisabledWithCause`, for any items, kinds, references between items, files and runs |

### From which assumptions

TLC evaluates each of them in the runs.

* `NoneAssumption`: `None` is no process.
* `ProcessAssumption`, `RecordAssumption`, `BoundAssumption`: each attempt and each pod wants a revision, and an
  installed record is one that `record_configured` could have written.
* `MigrateAssumption`: `Settings`, the table of the records, is one of the tables that take the source's rows; bounds
  are numbers.
* `RelayAssumption`, `SupervisorAssumption`: the wide lines are lines; bounds and limits are numbers,
  `MAX_BYTES`, `RAPID_EXIT`, `MAX_DELAY` and the graces at least one poll or byte; the relay is no worker; and
  failures are counted as far as the delay grows.
* `TaskAssumption`: the query of `servers()` returns each of its rows once.
* `OnePlace`: no two attachments of a source have one key. MISP keeps an attachment below its bucket
  level or without one, never both; of two that were there, the one copied last would win.
* `WorkerQueues \in Seq(Queue)`: `WORKER_QUEUES` is a sequence of queues.
* `AdminAssumption`: user 1 has an organisation where there is a user 1, and no UUID has two organisations
  to begin with; `ADMIN_EMAIL` has a value, as its default gives it one.
* `SyncAssumption`: each item has one of the seven kinds, a file names and disables only what there is, and
  `None` is neither a run nor a file. What an item needs may be any items, in a cycle or not.

### The argument

None of the properties is inductive as it stands. What is added says, for each step, what the steps
before it have made true and no other actor takes back. TLC checked each strengthening on the instance of the
component's run before it was proved.

**Rollout.** `RolloutInv` is inductive:

    RolloutInv == TypeOK /\ HolderSession /\ LockStates /\ WorkInOrder /\ RecordHistory

* `HolderSession` ties the process' view of the lock to the server's. It has to know of `lost`,
  because a run whose session ended goes on as if it held the lock. Its preservation is proved once,
  for the actions of `ConfigLock`, and cited for each step of a Job.
* `LockStates` ties a Job's step to its view of the lock: without it, exclusion of lock holders says nothing
  about exclusion of work.
* `WorkInOrder` is why the record tells the truth *even when runs overlap*: every fact a run's step relies on
  (the tables are there, its updates are applied, the admin exists, `MISP.live` has a value or some run failed
  to set it) is one that no other run ever takes back. It covers `read[j]` as well, since a run writes back
  what it read.
* `RecordHistory` bounds the record by the runs that were ever recorded, which the refinement needs
  for `ready \subseteq known`.

The exclusion property follows from the first two, `RecordedMeansConfigured` from `WorkInOrder`,
and the refinement from both: each action is mapped to a step of `RolloutPromise` (`RunUpdates` to
`Migrate`, `WriteConfigured` to `Record`, `Serve` to `Serve`, `PodStops` to `Stop`) or to a
stutter. Lemmas about `Without`, `Newest` and `Append` say that the record written has only
members of the one read and the run itself. `RecordComplete` needs `RecordInOrder` besides: while no
session is lost, what a run has read between its two statements is still the record. `AdminKeepsLive` needs
`LiveInOrder`: a run that is about to set `MISP.live` found no value, so it is among the `raced` of every
maintenance that began since; and no pod serves before a run is on record, so that while no session is lost
and no setting has failed there is none to be among.

**Migrate.** `Orderly` adds to the properties who holds the lock (`LockHeld`), what an attempt at each step
has dropped, filled and recorded (`CopyInOrder`), and what it has done about the files (`FilesInOrder`). The
copy's record lies in a table that the copy itself replaces, so "recorded" and "whole" are tied together table
by table. A copy's files are known to be there only if the attempt that made it had a source of them, which
`bare` tells, and they were not left without a word, which `silent` tells; an attempt with a source that keeps
such a copy goes to its files exactly when the record says that they failed. For the refinement, `CopyBehind`
adds that an attempt on its way to exit 0 has a whole copy, or one on record, behind it. `Drop` maps to
`Clear`, `Fill` to `Copy`, `RecordCopy` to `Record`, `ReleaseLock` to `Succeed` or `Leave`, and the end of a
dead attempt's session to `Leave`. `Baseline` and `Truncate` are stutters, because a baseline meets an empty
target and no table is truncated that holds a copy or another instance's rows.

**LogRelay.** `RelayOrderly` adds five parts to the types:

* `FileTail`: what the file holds are the last bytes written. `Gone`, the number of those before it, makes
  offsets in different contents of the file comparable.
* `OffsetsInOrder`: how the two offsets stand to each other, to the limit and to the file at each step of a poll.
* `LinesEnd`: a line of stdout has its one line end at its end, and the partial line has none.
* `ReadOnce`, until a relay is killed between its lines and its save: the lines, then the partial line, then what
  an offset has still before it (`Reach`) are in order. `Accounted`, until an offset is of an earlier content as
  well: every byte that the relay has behind it (`Behind`) is on stdout, in memory, `cut` or `dropped`.
* `HalvesInOrder`: a character of which the relay has half behind it was divided by a poll, and so was one
  with a replacement character, unless the byte before it is lost.

`NothingLost` is a conjunct too, and `OnceInOrder` follows from `ReadOnce`. That lines are whole needs all of it:
between the bytes of a line on stdout there is none that is neither relayed nor told of. What a poll makes
of its text is proved of `CompleteLines` for any text: line ends are numbered by how many there are up to each,
a bijection by the counting theorems on finite sets, so the lines are the text up to its last line end,
cut at the line ends and nowhere else.

**Supervisor.** `SupervisorOrderly` adds that only a worker that runs has a job, what a shutdown has behind it at
each stage (`ShutdownInOrder`), and that a program's wait and its idle polls so far make up the delay that its
rapid exits have earned (`DelaysInOrder`). The prover knows no law of powers; that 2^n is a natural number is
proved by counting the subsets of 1..n.

**TaskRunner.** `TaskOrderly` adds that the row a command is judged by is the one that the console wrote since
`server_run` looked (`RowInOrder`), and that the results so far are those of the servers that are no longer
in `todo` (`ResultsInOrder`).

**Attachments.** `CopyOrderly` adds which names are still to come and that the spool holds the file at hand
when it is sent (`FilesInOrder`), and what lies under a key of a file that is counted (`ObjectsInOrder`).

**Exporter.** `ScrapesOrderly` has one part per actor: the connection (`ConnectionsInOrder`), the thread of the
partner checks (`RoundInOrder`), the errors counted so far against the blocks left out (`ErrorsInOrder`), the
lengths read so far against where each open job is (`QueuesInOrder`), and the two statements of a run's
record against its row (`CountersInOrder`), each with the exception of what was read or shown before a migration.

**AdminSetup.** `SetupOrderly` adds what a run at each step has done for user 1 (`RunInOrder`) and that a
database on which a run ended well has nothing left that a run with the same environment would write
(`SettledInOrder`). `OneOrg` is why the second run finds the organisation of the first: no UUID has two.

**OrgSync.** `SyncOrderly` adds three parts to the types and the lock:

* `HasItems`: a run that has begun has something to apply. The empty file ends before.
* `RunsInOrder` is about a run alone. What is still to do at a step is among what the file asks of that
  step by the run's snapshot (`TodoNarrows`), and a step that lies behind is either done or counted as
  an error (`DoneInOrder`).
* `RowsInOrder` ties the run to MISP, while no lock session is lost and so no other run is at work. Each item
  has its turn, one step of the ten, or a second one when the file may disable it. The snapshot is right about
  all whose turn is still to come (`SnapshotHolds`); an item the file names whose turn is over is as the file
  says, or its failure counts, for its step first and for the exit code then (`NamedTells`, `Excused`); and
  one not named, of a kind the file disables, is off, still to come, or the run has an error (`UnnamedTells`).
  `BackedKnown` ties what it knows of the provider's users to those who have logged in, but for the `late`
  ones. `KeysTold` says that a server without a doubt has the key of the row, or the one in the run's memory
  while it is at its servers, so that what the run reads from the row tells what MISP has.
* A run that ended well leaves this behind (`Released`, `SettledHolds`), and the run after it starts from there
  and finds nothing to do at any step (`WarmHolds`); what is left enabled that the file does not name is the
  provider's, by the run's own snapshot (`Spares`).

All of it is up to the items that others changed since the snapshot, which is what the statements
except as well. A migration comes only when no run holds the lock, and resets what was settled.

### What the proofs found in the models

* Two statements of `OrgSync`, that a warm run only reads and that no account of the provider is disabled,
  did not except lost lock sessions, and its run has none. They are false after one: two runs overlap,
  and the second one's snapshot is newer than what the first goes by. They say so now.
* A `CASE` of `Attachments` had guards that overlap. TLA+ leaves the choice open, where the code's
  `if ... elif` takes the first, as TLC does. It is an `IF` now.
* `AdminSetup` counted an `UPDATE` of user 1 as a write also when there is no user 1: `WarmSetup` was
  false with an environment that has no password and no key, which no run had. The statement finds no row
  and writes nothing; the model says so now, and the run has such an environment.
* The assumptions on `Order`, on keys and on databases above were implicit in the instances.

### Only model-checked

* Liveness under fairness (`WaitEnds`, `PodsServe`, `EventuallyRelayed`, `KeptSmall`, `Restarted`,
  `Stops`, `StopEnds`, `ScrapeEnds`) is out of the prover's reach. Every other property of the
  passing runs is proved.
* That the runs of `migrate_files` and `admin_key` end as they do: a theorem shows what holds, these two what
  does not.

## Where the code and its documentation disagree

Two have a run in which TLC finds the behaviour; `PROJECT.json` quotes the lines.

1. "A rerun after a failed file copy ... copies the files again" (`migrate.py` 599). Not when the
   failing or dying attempt left no record about files (`migrate_files`). `RecordsTell` is what
   does hold.
2. "Change the value in `misp-admin` and upgrade: the configure Job sets both on user 1"
   (`docs/operations.md` 73). With `ADMIN_EMAIL` at its default the email of user 1 stays as it is, and
   the console looks for a user with the default email: on a database whose user 1 has another it
   finds none, and the run succeeds all the same (`admin_key`). `SetupTells`, which excuses a failed
   console command, is what does hold.

The models follow the code in these too, and the properties are stated so that they show the limit:

* `record_run`: "the count never goes back". It does when two runs overlap, since each writes back
  the row it read, the other status' count included; and when a migration drops `system_settings`, since
  the copy leaves the source's run rows out (`SKIP_ROWS`). `CounterFallsOnlyAfterOverlap` holds: for no other
  reason.
* `MISP.live`: "set once, then the admin's" (`configure.py` 101). Its setting may fail, which the run
  passes over, so a run may be on record with `MISP.live` unset. A pod then serves, an admin may close
  the instance, and the next run, when it had read `MISP.live` before that, sets it to true. A run that reads it
  after finds the admin's value. `RecordedMeansConfigured` and `AdminKeepsLive` say just this.
* `target_plan`: "a MIGRATE_FORCE=true left behind does not drop it". It does when the record of
  the finished copy could not be written, which is only logged. `TargetKept` holds: a copy *on
  record* stays. So does the record of a copy whose replacement died between two drops, when an attempt
  without the flags comes next: it keeps what is left and exits 0 (`torn`, and `Succeed` of `MigrationPromise`).
* "A server's `authkey` goes to MISP when it differs from the key the server last got". The digests
  are stored once, at the end of the servers step. When MISP took a key without an answer, or the
  run died before that, a file that returns to the key before is taken for unchanged, and MISP
  keeps the other key. `SuccessTells` excludes these servers by `doubt`, and those whose key was changed
  in MISP, which "stays until the file's key changes" (`docs/org-sync.md` 79-81).
* "SIGTERM: stop the running command". Not in the moment between `Popen` and the assignment of
  `Stop.proc`. `StopEnds` and `TaskInv` hold: the task ends after that command.
* `DB_TIMEOUT` (`metrics.py` 64) bounds a scrape's statements, but `manual_settings` has connections
  of its own, without a timeout: a lock on `system_settings` or on `logs` holds the scrape there. `ScrapeEnds`
  exempts just these, each at its statement.
* `misp_scrape_errors` does not count a failed round of partner checks: the scrapes go on showing the
  round before.
* "Copy every attachment" (`copy_attachments`): `os.walk` passes over a directory it cannot read, a
  download that ends before its length raises nothing, and an answer that lacks its flag or its token is taken
  for the last page (`s3.py` 155-157). `SuccessWhole` exempts these.
* A source of attachments that the operator adds for a later attempt, on a copy that was made without one, is
  not looked at: the attempt keeps the copy, finds no failed copy of files, and exits 0. `RecordsTell` says so
  (`bare`). `MIGRATE_FORCE` with `MIGRATE_REPLACE_COPY` makes a new copy, with them.
* A poll of the relay decodes what it read by itself (`logrelay.py` 82). A character that two polls divide
  comes out as replacement characters. `RelayInv` excepts such lines (`halved`), and only these.
* The disabling of users goes by the second read of the users, after the run has made its own: who logs in
  through the provider after that is disabled all the same (`late`).
* An exception of `http.client` or of the XML parser is neither `S3Error` nor `OSError`: the attempt
  ends with a traceback and without a record about files.
* "A restart of the container relays no line twice" (`logrelay.py`). A relay that is killed repeats
  its last poll; `OnceInOrder` allows just that.
* `docs/migration.md` 46 says that the migration sets `MISP.live=false` on the copy. No code does;
  the pods wait because `clear_configured` deletes the source's record.
* `docs/migration.md` 50 says that a configure Job waits for the migration. It waits 300 seconds for the lock, then
  fails and is retried.
* `worker.py` 7 says that a worker takes no new job after SIGTERM. One that waits in a dequeue still
  gets the job that arrives there (`TakeJob`, `pending`).
* The relay that is down when a shutdown begins is not started again (`relayLost`).
* `docs/architecture.md` 109 says that web and worker pods wait on a first install. A poll on a
  database without tables raises, so the pod ends with a traceback and restarts (`PollRaises`).

## What is not modelled

* *Durations*, except where they are counted in polls. That a copy outlasts the lock's deadline is
  possible in the models, not likely or unlikely.
* *The environment of a migration beside its source of attachments and its flags*: the source database is the same for
  every attempt.
* *Values.* Conversion of rows, indexes and sequences in a table's copy are one step (`Fill`).
* *MISP's updates and the console's output*: one step or one Boolean each.
* *A metric's samples.* One block per statement; of its figures only those of the runs and queues.
  The check of one partner (address, connection, certificate, ping) is one step.
* *Signatures* of S3 requests, and the bytes of a file beyond whole, part and short.
* *Housekeeping* has little state: bounded deletes in a loop, of rows nobody else writes. *log* only
  formats; *init*, *config*, *env* and most of *web* run once, alone, before anything else. Charts and
  the build and upstream scripts are not programs of the deployment with state of their own.

## Plan

1. *Done.* `ConfigLock`, `RunRecord`, `Rollout`, `RolloutPromise`; their runs; the proofs above.
2. *Done.* `Migrate`, `LogRelay`, `Supervisor`, `TaskRunner` and their runs.
3. *Done.* `OrgSync`, composed with `ConfigLock`, with migrations beside it.
4. *Done.* `AdminSetup`, `Attachments`, and `Exporter`, composed with `RunRecord`.
5. *Done.* Proofs of `Migrate`, `TaskRunner`, `Attachments`, `Exporter` and `AdminSetup`, and of `RecordComplete`
   and `AdminKeepsLive` of `Rollout`.
6. *Done.* Proofs of `OrgSyncInv`, `SuccessTells` and `DisabledWithCause` for any items and files.
7. *Done.* Proofs of the safety properties of `LogRelay` and `Supervisor`, for any bounds, and that a rollout's
   steps on the lock are `ConfigLock`'s.
8. *Done.* `MigrationPromise`, and the refinement by `Migrate`.
9. *Done.* Connections that break on one side, settings that fail without a word, the environment of each
   attempt, divided characters, keys changed in MISP, files that name nothing, answers without a next page, and
   a migration beside the scrapes.
10. `Housekeeping`, should its deletes come to share rows with other writers.
