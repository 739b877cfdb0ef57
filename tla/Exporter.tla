------------------------------ MODULE Exporter ------------------------------
(***************************************************************************)
(* The metrics exporter: an HTTP server with a thread per scrape           *)
(* (exporter.serve, metrics.collect_all) and a thread that checks the      *)
(* partners every NET_INTERVAL (metrics.run_network_checks).  A scrape     *)
(* reads MISP's database statement by statement, then the job queues in    *)
(* Redis key by key, then the block of the last round of partner checks.   *)
(* Meanwhile jobs move through the queues, runs of container jobs record   *)
(* themselves (RunRecord), someone edits the sync servers or holds a lock  *)
(* on a table, and a migration begins the database anew.                   *)
(*                                                                         *)
(* A block of the output is one name; of the figures in it only those of   *)
(* the runs and of the queues are kept.                                    *)
(***************************************************************************)
EXTENDS Naturals, Sequences, FiniteSets, TLC

CONSTANTS
  Client,        \* who scrapes, one scrape at a time each
  WorkerQueues,  \* WORKER_QUEUES, in its order
  Job,           \* MISP's background jobs
  QueueOf,       \* QueueOf[j]: the queue of job j
  Server,        \* rows of MISP's servers table that have a URL
  Proc,          \* runs of one container job
  MaxEvents      \* bound: what others do and what fails, all together

Queue == {WorkerQueues[i] : i \in DOMAIN WorkerQueues}

ASSUME ExporterAssumption ==
  /\ WorkerQueues \in Seq(Queue) /\ QueueOf \in [Job -> Queue]
  /\ MaxEvents \in Nat

VARIABLES
  pc,         \* pc[c]: the next step of c's scrape, or "idle"
  conn,       \* conn[c]: the scrape's connection is "none", "open" or "broken"
  up,         \* up[c]: the value of misp_up
  blocks,     \* blocks[c]: the blocks that have been collected
  errors,     \* errors[c]
  runs,       \* runs[c]: the record of runs that it read
  left,       \* left[c]: the queues whose length is still to be read
  waited,     \* waited[c]: the jobs that LLEN counted
  ran,        \* ran[c]: the jobs whose running key SCAN returned
  due,        \* due[c]: the running keys that have been there since SCAN began
  open,       \* history: open[c], the jobs that LLEN met waiting or running, while they last
  shown,      \* shown[c]: the record of runs as c was last shown it
  jobAt,      \* jobAt[j]: "none", "waiting", "taken" (in neither key) or "running"
  servers,    \* the servers table
  locked,     \* the tables on which another session holds a lock
  check,      \* the check thread: "sleep", "check", or "publish" under _net_lock
  round,      \* the round: the servers it read, and those that it checked, reached or not
  netOutput,  \* _net_output: a round
  row, seen, stage,  \* the row of the container job's runs: see RunRecord
  overtaken,  \* history: a run recorded itself between the read and the write of another
  readOld,    \* history: the clients whose scrape has read a record of runs that is
  shownOld,   \* gone with a migration, and those that were last shown such a one
  events      \* how much of MaxEvents is used up

scrape == <<pc, conn, up, blocks, errors, runs, left, waited, ran, due>>
checks == <<check, round, netOutput>>
recordVars == <<row, seen, stage, overtaken>>
old == <<readOld, shownOld>>
env == <<jobAt, servers, locked, recordVars>>
world == <<env, events>>
vars == <<scrape, open, shown, old, checks, world>>

Record == INSTANCE RunRecord WITH now <- 0

(* The blocks of collect_all that a failed collector leaves out, and the    *)
(* collector that each belongs to.                                         *)
Statements == <<"content", "servers", "jobs", "syncs", "scheduled", "runs", "manual">>
Block == {Statements[i] : i \in DOMAIN Statements} \union {"queues"}
Collector(b) == IF b = "syncs" THEN "jobs" ELSE b

JobState == {"none", "waiting", "taken", "running"}
Settings == "system_settings"
Logs == "logs"
NoRound == [of |-> {}, checked |-> {}]

Init ==
  /\ pc = [c \in Client |-> "idle"] /\ conn = [c \in Client |-> "none"]
  /\ up = [c \in Client |-> 0] /\ blocks = [c \in Client |-> {}]
  /\ errors = [c \in Client |-> 0] /\ left = [c \in Client |-> WorkerQueues]
  /\ runs = [c \in Client |-> Record!NoRow] /\ shown = [c \in Client |-> Record!NoRow]
  /\ waited = [c \in Client |-> {}] /\ ran = [c \in Client |-> {}]
  /\ due = [c \in Client |-> {}] /\ open = [c \in Client |-> {}]
  /\ jobAt \in [Job -> {"none", "running"}]
  /\ servers = Server /\ locked = {}
  /\ check = "sleep" /\ round = NoRound /\ netOutput = NoRound
  /\ Record!RunInit /\ overtaken = FALSE
  /\ readOld = {} /\ shownOld = {} /\ events = 0

Goto(c, step) == pc' = [pc EXCEPT ![c] = step]
Event == events < MaxEvents /\ events' = events + 1

-----------------------------------------------------------------------------
(* A scrape: _collect_db_metrics *)

(* GET /metrics, in a thread of its own. *)
Request(c) ==
  /\ pc[c] = "idle"
  /\ Goto(c, "connect")
  /\ UNCHANGED <<conn, up, blocks, errors, runs, left, waited, ran, due, open, shown, old, checks, world>>

Connect(c) ==
  /\ pc[c] = "connect"
  /\ conn' = [conn EXCEPT ![c] = "open"]
  /\ up' = [up EXCEPT ![c] = 1]
  /\ Goto(c, Statements[1])
  /\ UNCHANGED <<blocks, errors, runs, left, waited, ran, due, open, shown, old, checks, world>>

(* No connection within DB_TIMEOUT: misp_up 0 and one error. *)
ConnectFails(c) ==
  /\ pc[c] = "connect" /\ Event
  /\ errors' = [errors EXCEPT ![c] = 1]
  /\ Goto(c, "queues")
  /\ UNCHANGED <<conn, up, blocks, runs, left, waited, ran, due, open, shown, old, checks, env>>

(* The statements on the scrape's own connection, which autocommits, so one *)
(* that fails leaves the next ones possible.  manual_settings has its own.  *)
Own == Block \ {"manual", "queues"}
After(k) ==
  IF k = "manual" THEN "close"
  ELSE Statements[1 + CHOOSE i \in DOMAIN Statements : Statements[i] = k]

(* Mutant of AfterFailure: one try around all collectors. *)
AfterFailureNone(k) == "close"

(* The except of k's collector, which the two statements on jobs share. *)
AfterFailure(k) == IF k = "jobs" THEN After("syncs") ELSE After(k)

Collect(c) ==
  /\ pc[c] \in Own /\ conn[c] = "open" /\ ~(pc[c] = "runs" /\ Settings \in locked)
  /\ blocks' = [blocks EXCEPT ![c] = @ \union {pc[c]}]
  /\ runs' = IF pc[c] = "runs" THEN [runs EXCEPT ![c] = row] ELSE runs
  /\ Goto(c, After(pc[c]))
  /\ UNCHANGED <<conn, up, errors, left, waited, ran, due, open, shown, old, checks, world>>

(* Mutant of Fail: the record of runs that was not read is shown as empty. *)
FailAsEmpty(c, then) ==
  /\ blocks' = IF pc[c] = "runs" THEN [blocks EXCEPT ![c] = @ \union {"runs"}] ELSE blocks
  /\ errors' = [errors EXCEPT ![c] = @ + 1]
  /\ Goto(c, then)
  /\ UNCHANGED <<up, runs, left, waited, ran, due, open, shown, old, checks, env>>

Fail(c, then) ==
  /\ errors' = [errors EXCEPT ![c] = @ + 1]
  /\ Goto(c, then)
  /\ UNCHANGED <<up, blocks, runs, left, waited, ran, due, open, shown, old, checks, env>>

(* On a broken connection, or for statement_timeout behind the lock; the    *)
(* read's own timeout is as long, and leaves the connection unusable.       *)
TimeOut(c) ==
  /\ pc[c] \in Own
  /\ \/ conn[c] = "broken" /\ UNCHANGED conn
     \/ /\ conn[c] = "open" /\ pc[c] = "runs" /\ Settings \in locked
        /\ \E state \in {"open", "broken"} : conn' = [conn EXCEPT ![c] = state]
  /\ Fail(c, AfterFailure(pc[c]))
  /\ UNCHANGED events

(* Any other failure of a statement, or of the connection. *)
StatementFails(c) ==
  /\ pc[c] \in Own /\ conn[c] = "open" /\ Event
  /\ \E state \in {"open", "broken"} : conn' = [conn EXCEPT ![c] = state]
  /\ Fail(c, AfterFailure(pc[c]))

(* db.manual_settings, whose two statements have a connection of their own  *)
(* each, without any timeout: behind a lock on its table each waits.  The   *)
(* second asks MISP's log who changed the settings that the first found.    *)
Manual(c) ==
  /\ \/ pc[c] = "manual" /\ Settings \notin locked
     \/ pc[c] = "logs" /\ Logs \notin locked
  /\ \/ pc[c] = "manual" /\ Goto(c, "logs") /\ UNCHANGED blocks
     \/ Goto(c, "close") /\ blocks' = [blocks EXCEPT ![c] = @ \union {"manual"}]
  /\ UNCHANGED <<conn, up, errors, runs, left, waited, ran, due, open, shown, old, checks, world>>

ManualFails(c) ==
  /\ pc[c] \in {"manual", "logs"} /\ Event
  /\ Fail(c, "close")
  /\ UNCHANGED conn

(* finally: conn.close().  On a broken connection it may raise, and takes   *)
(* the whole text of the database with it: collect_all then says misp_up 0. *)
Close(c) ==
  /\ pc[c] = "close"
  /\ \/ UNCHANGED <<up, blocks, errors>>
     \/ /\ conn[c] = "broken"
        /\ up' = [up EXCEPT ![c] = 0]
        /\ blocks' = [blocks EXCEPT ![c] = {}]
        /\ errors' = [errors EXCEPT ![c] = 1]
  /\ conn' = [conn EXCEPT ![c] = "none"]
  /\ Goto(c, "queues")
  /\ UNCHANGED <<runs, left, waited, ran, due, open, shown, old, checks, world>>

-----------------------------------------------------------------------------
(* A scrape: _collect_queue_metrics, the partners and the answer *)

(* LLEN of the next queue. *)
Length(c) ==
  /\ pc[c] = "queues" /\ left[c] # <<>>
  /\ LET here == {j \in Job : QueueOf[j] = Head(left[c])}
     IN  /\ waited' = [waited EXCEPT ![c] = @ \union {j \in here : jobAt[j] = "waiting"}]
         /\ open' = [open EXCEPT ![c] = @ \union {j \in here : jobAt[j] \in {"waiting", "running"}}]
  /\ left' = [left EXCEPT ![c] = Tail(@)]
  /\ UNCHANGED <<pc, conn, up, blocks, errors, runs, ran, due, shown, old, checks, world>>

Scan(c) ==
  /\ pc[c] = "queues" /\ left[c] = <<>>
  /\ due' = [due EXCEPT ![c] = {j \in Job : jobAt[j] = "running"}]
  /\ Goto(c, "scan")
  /\ UNCHANGED <<conn, up, blocks, errors, runs, left, waited, ran, open, shown, old, checks, world>>

(* SCAN may return any running key, and returns one that is there from its  *)
(* beginning to its end.  How often it returns one is left out.             *)
ScanReturns(c, j) ==
  /\ pc[c] = "scan" /\ jobAt[j] = "running" /\ j \notin ran[c]
  /\ ran' = [ran EXCEPT ![c] = @ \union {j}]
  /\ UNCHANGED <<pc, conn, up, blocks, errors, runs, left, waited, due, open, shown, old, checks, world>>

(* Mutant of ScanEnds: one call of SCAN, whose cursor is not followed. *)
ScanEndsEarly(c) ==
  /\ pc[c] = "scan"
  /\ blocks' = [blocks EXCEPT ![c] = @ \union {"queues"}]
  /\ Goto(c, "net")
  /\ UNCHANGED <<conn, up, errors, runs, left, waited, ran, due, open, shown, old, checks, world>>

ScanEnds(c) ==
  /\ pc[c] = "scan" /\ due[c] \subseteq ran[c]
  /\ blocks' = [blocks EXCEPT ![c] = @ \union {"queues"}]
  /\ Goto(c, "net")
  /\ UNCHANGED <<conn, up, errors, runs, left, waited, ran, due, open, shown, old, checks, world>>

QueuesFail(c) ==
  /\ pc[c] \in {"queues", "scan"} /\ Event
  /\ Fail(c, "net")
  /\ UNCHANGED conn

(* Mutant of Net: the scrape waits for the round of checks that is under way. *)
NetAfterRound(c) ==
  /\ pc[c] = "net" /\ check = "sleep"
  /\ Goto(c, "answer")
  /\ UNCHANGED <<conn, up, blocks, errors, runs, left, waited, ran, due, open, shown, old, checks, world>>

(* network_metrics: the last round, under _net_lock. *)
Net(c) ==
  /\ pc[c] = "net" /\ check # "publish"
  /\ Goto(c, "answer")
  /\ UNCHANGED <<conn, up, blocks, errors, runs, left, waited, ran, due, open, shown, old, checks, world>>

(* The text goes to the client, or to one that has given up meanwhile. *)
Answer(c) ==
  /\ pc[c] = "answer"
  /\ \/ UNCHANGED <<shown, shownOld>>
     \/ /\ "runs" \in blocks[c]
        /\ shown' = [shown EXCEPT ![c] = runs[c]]
        /\ shownOld' = IF c \in readOld THEN shownOld \union {c} ELSE shownOld \ {c}
  /\ Goto(c, "idle")
  /\ up' = [up EXCEPT ![c] = 0] /\ blocks' = [blocks EXCEPT ![c] = {}]
  /\ errors' = [errors EXCEPT ![c] = 0] /\ runs' = [runs EXCEPT ![c] = Record!NoRow]
  /\ left' = [left EXCEPT ![c] = WorkerQueues] /\ waited' = [waited EXCEPT ![c] = {}]
  /\ ran' = [ran EXCEPT ![c] = {}] /\ due' = [due EXCEPT ![c] = {}] /\ open' = [open EXCEPT ![c] = {}]
  /\ readOld' = readOld \ {c}
  /\ UNCHANGED <<conn, checks, world>>

ScrapeStep(c) ==
  \/ Connect(c) \/ Collect(c) \/ TimeOut(c) \/ Manual(c) \/ Close(c)
  \/ Length(c) \/ Scan(c) \/ ScanEnds(c) \/ Net(c) \/ Answer(c)
  \/ \E j \in Job : ScanReturns(c, j)
ScrapeFault(c) == ConnectFails(c) \/ StatementFails(c) \/ ManualFails(c) \/ QueuesFail(c)

-----------------------------------------------------------------------------
(* The thread that checks the partners: run_network_checks *)

ReadServers ==
  /\ check = "sleep"
  /\ check' = "check"
  /\ round' = [of |-> servers, checked |-> {}]
  /\ UNCHANGED <<scrape, open, shown, old, netOutput, world>>

(* _check_partner takes as long as the partner likes: its timeout is for    *)
(* each read.  A failure of its connection is an answer as any other.       *)
CheckPartner(s) ==
  /\ check = "check" /\ s \in round.of \ round.checked
  /\ round' = [round EXCEPT !.checked = @ \union {s}]
  /\ UNCHANGED <<scrape, open, shown, old, check, netOutput, world>>

(* The servers cannot be read, or a URL has no valid port: "partner checks  *)
(* failed" is logged, and what the scrapes show stays.                      *)
RoundFails ==
  /\ check \in {"sleep", "check"} /\ Event
  /\ check' = "sleep" /\ round' = NoRound
  /\ UNCHANGED <<scrape, open, shown, old, netOutput, env>>

(* Mutant of TakeNetLock: each answer is published as it comes. *)
TakeNetLockEarly ==
  /\ check = "check"
  /\ check' = "publish"
  /\ UNCHANGED <<scrape, open, shown, old, round, netOutput, world>>

TakeNetLock ==
  /\ check = "check" /\ round.checked = round.of
  /\ check' = "publish"
  /\ UNCHANGED <<scrape, open, shown, old, round, netOutput, world>>

(* with _net_lock: _net_output = output *)
Publish ==
  /\ check = "publish"
  /\ netOutput' = round
  /\ check' = "sleep" /\ round' = NoRound
  /\ UNCHANGED <<scrape, open, shown, old, world>>

Check == ReadServers \/ (\E s \in Server : CheckPartner(s)) \/ RoundFails \/ TakeNetLock \/ Publish

-----------------------------------------------------------------------------
(* What others do meanwhile *)

(* MISP queues a job, a worker takes it from the list, sets its running     *)
(* key, and removes that when the job has ended.                            *)
MoveJob(j) ==
  /\ Event
  /\ jobAt' = [jobAt EXCEPT ![j] = CASE @ = "none" -> "waiting" [] @ = "waiting" -> "taken"
                                     [] @ = "taken" -> "running" [] @ = "running" -> "none"]
  /\ IF jobAt[j] = "running"
     THEN /\ due' = [c \in Client |-> due[c] \ {j}]
          /\ open' = [c \in Client |-> open[c] \ {j}]
     ELSE UNCHANGED <<due, open>>
  /\ UNCHANGED <<pc, conn, up, blocks, errors, runs, left, waited, ran, shown, old, checks,
                 servers, locked, recordVars>>

EditServers ==
  /\ Event
  /\ servers' \in SUBSET Server \ {servers}
  /\ UNCHANGED <<scrape, open, shown, old, checks, jobAt, locked, recordVars>>

(* A session takes a lock on a table, or releases its locks. *)
LockTable ==
  /\ Event
  /\ \/ \E table \in {Settings, Logs} \ locked : locked' = locked \union {table}
     \/ locked # {} /\ locked' = {}
  /\ UNCHANGED <<scrape, open, shown, old, checks, jobAt, servers, recordVars>>

(* migrate.drop_all, and a copy that leaves the row out (SKIP_ROWS): what   *)
(* was read and shown before is of a database that is gone.  Between the    *)
(* two, a statement fails.                                                  *)
Migrate ==
  /\ Event
  /\ Settings \notin locked
  /\ row' = Record!NoRow
  /\ readOld' = {c \in Client : "runs" \in blocks[c]}
  /\ shownOld' = {c \in Client : shown[c] # Record!NoRow}
  /\ UNCHANGED <<scrape, open, shown, checks, jobAt, servers, locked, seen, stage, overtaken>>

RecordRun(p) ==
  /\ Event
  /\ \/ Record!RunReads(p) /\ UNCHANGED overtaken
     \/ /\ \E status \in Record!Status : Record!RunWrites(p, status)
        /\ overtaken' = (overtaken \/ row # seen[p])
  /\ UNCHANGED <<scrape, open, shown, old, checks, jobAt, servers, locked>>

World ==
  \/ \E j \in Job : MoveJob(j)
  \/ EditServers \/ LockTable \/ Migrate
  \/ \E p \in Proc : RecordRun(p)

Next ==
  \/ \E c \in Client : Request(c) \/ ScrapeStep(c) \/ ScrapeFault(c)
  \/ Check \/ World

(* A thread goes on when it can, and gets a lock that is free again and     *)
(* again: a round of checks sleeps before the next.  A partner that is      *)
(* checked need never answer.                                               *)
Fairness ==
  /\ \A c \in Client : SF_vars(ScrapeStep(c))
  /\ WF_vars(Publish)

Spec == Init /\ [][Next]_vars /\ Fairness

-----------------------------------------------------------------------------
(* Properties *)

TypeOK ==
  /\ pc \in [Client -> Block \union {"idle", "connect", "logs", "close", "scan", "net", "answer"}]
  /\ conn \in [Client -> {"none", "open", "broken"}] /\ up \in [Client -> {0, 1}]
  /\ blocks \in [Client -> SUBSET Block] /\ errors \in [Client -> Nat]
  /\ runs \in [Client -> Record!Row] /\ shown \in [Client -> Record!Row]
  /\ left \in [Client -> Seq(Queue)]
  /\ \A jobs \in {waited, ran, due, open} : jobs \in [Client -> SUBSET Job]
  /\ jobAt \in [Job -> JobState] /\ servers \in SUBSET Server /\ locked \subseteq {Settings, Logs}
  /\ check \in {"sleep", "check", "publish"}
  /\ \A r \in {round, netOutput} : r.of \subseteq Server /\ r.checked \subseteq r.of
  /\ row \in Record!Row /\ readOld \subseteq Client /\ shownOld \subseteq Client
  /\ events \in 0 .. MaxEvents

(* What a scrape shows of the partners is one whole round: each server of   *)
(* the table as it was then, reached or not; so a partner never vanishes    *)
(* from the output because its check, or another's, failed.                 *)
RoundWhole == netOutput.checked = netOutput.of

(* The steps during which the scrape has its connection. *)
Connected == (Block \ {"queues"}) \union {"logs", "close"}

(* The types, that a connection is open between connect and close only, and *)
(* RoundWhole (refresh_network_metrics).                                    *)
ExporterInv ==
  /\ TypeOK
  /\ \A c \in Client : conn[c] # "none" <=> pc[c] \in Connected
  /\ RoundWhole

(* misp_scrape_errors tells what is missing: with the database up, it is    *)
(* the number of collectors that did not give all their blocks, so one that *)
(* fails takes no other with it; and a text without the database's blocks   *)
(* has misp_up 0 and an error, also when the close threw them away          *)
(* (_collect_db_metrics, collect_all).                                      *)
ErrorsTell ==
  \A c \in Client : pc[c] = "answer" =>
    LET missing == {Collector(b) : b \in Block \ blocks[c]}
    IN  IF up[c] = 1 THEN errors[c] = Cardinality(missing)
        ELSE blocks[c] \subseteq {"queues"} /\ errors[c] = 1 + Cardinality(missing \intersect {"queues"})

(* A job that waited or ran when the length of its queue was read, and has  *)
(* not ended, is counted, wherever it moved meanwhile: lengths first, then  *)
(* the running keys.  One that a worker had just taken may be missed.       *)
QueuesCounted ==
  \A c \in Client :
    pc[c] \in {"net", "answer"} /\ "queues" \in blocks[c] => open[c] \subseteq waited[c] \union ran[c]

(* The counter of runs that a client is shown falls only if some run's      *)
(* record came between another's read and write, or if what it was shown    *)
(* is of a database that a migration has replaced: no failure of a scrape,  *)
(* late answer or lock makes it fall (record_run, the "runs" collector).    *)
CounterFallsOnlyAfterOverlap ==
  [][\A c \in Client, s \in Record!Status :
       shown'[c].count[s] < shown[c].count[s] => overtaken \/ c \in shownOld]_vars

(* Every scrape ends, whatever a partner check does, unless it is held in   *)
(* manual_settings by a lock on system_settings or on logs.                 *)
Held(c) == \/ pc[c] = "manual" /\ Settings \in locked
           \/ pc[c] = "logs" /\ Logs \in locked
ScrapeEnds == \A c \in Client : []<>(pc[c] = "idle" \/ Held(c))
=============================================================================
