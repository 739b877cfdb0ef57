----------------------------- MODULE TaskRunner -----------------------------
(***************************************************************************)
(* A CronJob's pod (task.run): it waits for the database and the configure *)
(* run, then runs a console command of MISP, for a server task once per    *)
(* server, judges each by its exit, its output and the job row MISP wrote, *)
(* relays the log files after each, and stops at SIGTERM.                  *)
(*                                                                         *)
(* The console and the job rows are MISP's.  Others write rows too: the    *)
(* workers pull and push on a user's request.                              *)
(***************************************************************************)
EXTENDS Naturals, Sequences, FiniteSets

CONSTANTS
  Server,      \* the servers that have the task's column on
  Order,       \* the same, by priority
  Whole,       \* the one command of a task that is not a server task
  MaxForeign   \* bound: job rows that others write

(* The query of servers() returns each of their rows once.                  *)
ASSUME TaskAssumption ==
  /\ Whole \notin Server
  /\ Order \in Seq(Server) /\ \A s \in Server : \E i \in 1..Len(Order) : Order[i] = s
  /\ \A i, k \in 1..Len(Order) : Order[i] = Order[k] => i = k
  /\ MaxForeign \in Nat

VARIABLES
  kind,       \* "rows" (pull, push), "servers" (cache), or "single"
  pc,         \* the next step of run
  requested,  \* Stop.requested
  watched,    \* Stop.proc is the present command
  todo,       \* the commands still to run, in order
  results,    \* the results so far: all(results)
  before,     \* server_run's before: the latest job row before the command
  ok,         \* what console returned
  console,    \* the command: "none", "up" or "ended"
  fine,       \* the console exits 0 and prints no failure
  told,       \* it was sent SIGTERM
  jobs,       \* the job rows of this job_type, by id: whose they are, and their status
  mine,       \* the row of the present command, 0 when it has none
  lines,      \* a log file in the pod has lines that were not relayed
  code,       \* the exit code, 2 while the task runs
  done,       \* history: the commands that did what they should
  misled,     \* history: another's row was taken for the command's
  raised,     \* history: a query failed, and the task with it
  heard,      \* history: SIGTERM came while Stop.proc was the running command
  late        \* history: the commands that began after SIGTERM

stop == <<requested, watched>>
task == <<todo, results, before, ok>>
command == <<console, fine, told, mine>>
misp == <<jobs, lines>>
outcome == <<code, done, misled, raised, heard, late>>
vars == <<kind, pc, stop, task, command, misp, outcome>>

(* Earlier runs have left a row of each server. *)
Init ==
  /\ kind \in {"rows", "servers", "single"}
  /\ pc = "wait"
  /\ requested = FALSE /\ watched = FALSE
  /\ todo = <<>> /\ results = TRUE /\ before = 0 /\ ok = FALSE
  /\ console = "none" /\ fine = FALSE /\ told = FALSE /\ mine = 0
  /\ jobs = [i \in 1..Len(Order) |-> [server |-> Order[i], by |-> "earlier", status |-> "completed"]]
  /\ lines = FALSE
  /\ code = 2 /\ done = {} /\ misled = FALSE /\ raised = FALSE
  /\ heard = FALSE /\ late = 0

-----------------------------------------------------------------------------
(* run *)

(* prepare, the waits, and the servers of the task. *)
Ready ==
  /\ pc = "wait"
  /\ todo' = IF kind = "single" THEN <<Whole>> ELSE Order
  /\ pc' = "next"
  /\ UNCHANGED <<kind, stop, results, before, ok, command, misp, outcome>>

(* An exception: a query failed, or a wait gave up.  Nothing is relayed. *)
Raise ==
  /\ pc \in {"wait", "before", "rows"}
  /\ raised' = TRUE
  /\ code' = 1
  /\ pc' = "ended"
  /\ UNCHANGED <<kind, stop, task, command, misp, done, misled, heard, late>>

Return(exit) ==
  /\ code' = exit
  /\ pc' = "ended"
  /\ UNCHANGED <<kind, stop, task, command, misp, done, misled, raised, heard, late>>

(* Mutant of NextServer: the loop has no look at Stop.requested. *)
NextServerAlways ==
  /\ pc = "next"
  /\ \/ /\ todo # <<>>
        /\ pc' = IF kind = "rows" THEN "before" ELSE "popen"
        /\ UNCHANGED <<kind, stop, task, command, misp, outcome>>
     \/ /\ todo = <<>>
        /\ Return(IF results /\ (kind = "single" \/ ~requested) THEN 0 ELSE 1)

(* The head of the loop over the servers, and the return after it; the      *)
(* command of any other task is run whatever Stop.requested says.           *)
NextServer ==
  /\ pc = "next"
  /\ \/ /\ todo # <<>> /\ (kind = "single" \/ ~requested)
        /\ pc' = IF kind = "rows" THEN "before" ELSE "popen"
        /\ UNCHANGED <<kind, stop, task, command, misp, outcome>>
     \/ /\ todo = <<>> \/ (kind # "single" /\ requested)
        /\ Return(IF results /\ (kind = "single" \/ ~requested) THEN 0 ELSE 1)

(* Mutant of Before: every row of the server counts. *)
BeforeAll ==
  /\ pc = "before"
  /\ before' = 0
  /\ pc' = "popen"
  /\ UNCHANGED <<kind, stop, todo, results, ok, command, misp, outcome>>

(* The highest id of any job row. *)
Before ==
  /\ pc = "before"
  /\ before' = Len(jobs)
  /\ pc' = "popen"
  /\ UNCHANGED <<kind, stop, todo, results, ok, command, misp, outcome>>

(* Popen.  Stop.proc is still the command before this one. *)
Popen ==
  /\ pc = "popen"
  /\ console' = "up" /\ fine' = FALSE /\ told' = FALSE /\ mine' = 0
  /\ watched' = FALSE
  /\ late' = IF requested THEN late + 1 ELSE late
  /\ pc' = "assign"
  /\ UNCHANGED <<kind, requested, task, misp, code, done, misled, raised, heard>>

(* Stop.proc = proc *)
Assign ==
  /\ pc = "assign"
  /\ watched' = TRUE
  /\ pc' = "read"
  /\ UNCHANGED <<kind, requested, task, command, misp, outcome>>

(* The command has ended, and its output with it. *)
Read ==
  /\ pc = "read" /\ console = "ended"
  /\ ok' = fine
  /\ pc' = IF kind = "rows" THEN "rows" ELSE "judge"
  /\ UNCHANGED <<kind, stop, todo, results, before, command, misp, outcome>>

Found == {i \in before + 1 .. Len(jobs) : jobs[i].server = Head(todo)}
First(rows) == CHOOSE i \in rows : \A j \in rows : i <= j

(* The first row of the server after before has to be completed. *)
Rows ==
  /\ pc = "rows"
  /\ ok' = (ok /\ Found # {} /\ jobs[First(Found)].status = "completed")
  /\ misled' = (misled \/ (Found # {} /\ jobs[First(Found)].by = "another"))
  /\ pc' = "judge"
  /\ UNCHANGED <<kind, stop, todo, results, before, command, misp, code, done, raised, heard, late>>

(* Mutant of Judge: only a command that failed has its lines relayed. *)
JudgeRelaysFailures ==
  /\ pc = "judge"
  /\ results' = (results /\ ok)
  /\ todo' = Tail(todo)
  /\ lines' = (lines /\ ok)
  /\ pc' = "next"
  /\ UNCHANGED <<kind, stop, before, ok, command, jobs, outcome>>

(* results.append and relay.poll *)
Judge ==
  /\ pc = "judge"
  /\ results' = (results /\ ok)
  /\ todo' = Tail(todo)
  /\ lines' = FALSE
  /\ pc' = "next"
  /\ UNCHANGED <<kind, stop, before, ok, command, jobs, outcome>>

(* Mutant of Handle: it only leaves the flag. *)
HandleFlagOnly ==
  /\ ~requested /\ pc # "ended"
  /\ requested' = TRUE
  /\ heard' = (watched /\ console = "up")
  /\ UNCHANGED <<kind, pc, watched, task, command, misp, code, done, misled, raised, late>>

(* SIGTERM between any two steps: Stop.handle. *)
Handle ==
  /\ ~requested /\ pc # "ended"
  /\ requested' = TRUE
  /\ told' = (told \/ (watched /\ console = "up"))
  /\ heard' = (watched /\ console = "up")
  /\ UNCHANGED <<kind, pc, watched, task, console, fine, mine, misp, code, done, misled, raised, late>>

-----------------------------------------------------------------------------
(* MISP *)

(* Pull and push make their row when they begin. *)
WriteRow ==
  /\ console = "up" /\ kind = "rows" /\ mine = 0
  /\ jobs' = Append(jobs, [server |-> Head(todo), by |-> "console", status |-> "running"])
  /\ mine' = Len(jobs')
  /\ UNCHANGED <<kind, pc, stop, task, console, fine, told, lines, outcome>>

Logs ==
  /\ console = "up"
  /\ lines' = TRUE
  /\ UNCHANGED <<kind, pc, stop, task, command, jobs, outcome>>

(* The command ends, by itself or stopped, and says whether it did well; a  *)
(* push that fails says so in its row only.                                 *)
ConsoleEnds ==
  /\ console = "up"
  /\ console' = "ended"
  /\ fine' \in BOOLEAN
  /\ \E status \in {"running", "completed", "failed"} :
       /\ jobs' = IF mine = 0 THEN jobs ELSE [jobs EXCEPT ![mine].status = status]
       /\ done' = IF fine' /\ (kind # "rows" \/ (mine # 0 /\ status = "completed"))
                  THEN done \union {Head(todo)} ELSE done
  /\ UNCHANGED <<kind, pc, stop, task, told, mine, lines, code, misled, raised, heard, late>>

Foreign == {i \in 1..Len(jobs) : jobs[i].by = "another"}

(* A worker pulls or pushes one of the servers meanwhile. *)
AnotherRow ==
  /\ pc # "ended" /\ kind = "rows" /\ Cardinality(Foreign) < MaxForeign
  /\ \E s \in Server, status \in {"completed", "failed"} :
       jobs' = Append(jobs, [server |-> s, by |-> "another", status |-> status])
  /\ UNCHANGED <<kind, pc, stop, task, command, lines, outcome>>

Task == Ready \/ NextServer \/ Before \/ Popen \/ Assign \/ Read \/ Rows \/ Judge
Next == Task \/ Raise \/ Handle \/ WriteRow \/ Logs \/ ConsoleEnds \/ AnotherRow

(* The task's own steps go on, and a command that was told to ends. *)
Spec == Init /\ [][Next]_vars /\ WF_vars(Task) /\ WF_vars(told /\ ConsoleEnds)

-----------------------------------------------------------------------------
(* Properties *)

Commands == IF kind = "single" THEN {Whole} ELSE Server

TaskTypeOK ==
  /\ kind \in {"rows", "servers", "single"}
  /\ pc \in {"wait", "next", "before", "popen", "assign", "read", "rows", "judge", "ended"}
  /\ requested \in BOOLEAN /\ watched \in BOOLEAN /\ results \in BOOLEAN /\ ok \in BOOLEAN
  /\ todo \in Seq(Commands)
  /\ console \in {"none", "up", "ended"} /\ fine \in BOOLEAN /\ told \in BOOLEAN
  /\ before \in 0..Len(jobs) /\ mine \in 0..Len(jobs) /\ lines \in BOOLEAN
  /\ code \in 0..2 /\ done \subseteq Commands
  /\ misled \in BOOLEAN /\ raised \in BOOLEAN /\ heard \in BOOLEAN /\ late \in Nat

(* The types, and that two commands never run at once: the task has gone on *)
(* only when the command before has ended ("one after the other").  After   *)
(* SIGTERM one command at most still begins: the one that the loop had      *)
(* decided on.                                                              *)
TaskInv ==
  /\ TaskTypeOK
  /\ console = "up" => pc \in {"assign", "read"}
  /\ mine # 0 => jobs[mine].by = "console"
  /\ late <= 1

(* The exit code tells the truth about every server: with 0 each command    *)
(* did its work, also where MISP reports a failure in the row alone; with 1 *)
(* one did not, or the task was stopped.  Only a row that a worker wrote    *)
(* for the same server between the command's start and its own row, or a    *)
(* failed query, can make it say otherwise.                                 *)
ExitTells ==
  ~misled =>
    /\ code = 0 => done = Commands
    /\ code = 1 /\ ~raised => done # Commands \/ requested

(* "The log files MISP writes in the pod are relayed after each command":   *)
(* a task that returns has no line left behind, whatever its commands did.  *)
LinesRelayed == pc = "ended" /\ ~raised => ~lines

(* SIGTERM while a command runs ends the task, also when that command would *)
(* have run for ever.                                                       *)
StopEnds == heard ~> pc = "ended"
=============================================================================
