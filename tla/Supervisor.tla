----------------------------- MODULE Supervisor -----------------------------
(***************************************************************************)
(* The supervisor of a worker pod (worker.Supervisor): it starts MISP's    *)
(* queue workers and the log relay, restarts what exits, with a delay that *)
(* doubles while a program dies soon after its start, and on SIGTERM gives *)
(* the workers' running jobs a grace before it stops the relay.            *)
(*                                                                         *)
(* A worker runs its job in a child process of its own process group; it   *)
(* exits by itself only between two jobs, and after SIGTERM takes no new   *)
(* one, except that an idle worker still gets what its pending dequeue     *)
(* returns (patches/03).  Time is counted in polls of POLL seconds.        *)
(***************************************************************************)
EXTENDS Integers

CONSTANTS
  Worker,      \* one program per worker process of each queue
  Relay,       \* the log relay, the program with last=True
  RapidExit,   \* RAPID_EXIT, in polls
  MaxDelay,    \* MAX_DELAY, in polls; a delay of 1 is one poll
  Grace,       \* WORKER_STOP_GRACE, in polls
  RelayGrace,  \* RELAY_GRACE, in polls
  MaxFailures  \* bound: failures are counted up to it; 2^(MaxFailures - 1) >= MaxDelay

ASSUME SupervisorAssumption ==
  /\ Relay \notin Worker
  /\ RapidExit \in Nat \ {0} /\ MaxDelay \in Nat \ {0}
  /\ Grace \in Nat \ {0} /\ RelayGrace \in Nat \ {0}
  /\ MaxFailures \in Nat \ {0} /\ 2 ^ (MaxFailures - 1) >= MaxDelay

Program == Worker \union {Relay}

VARIABLES
  proc,      \* proc[p]: "none" (not started, or reaped), "up", or "exited"
  age,       \* age[p]: polls since its start, up to RapidExit
  wait,      \* wait[p]: polls until it is due
  failures,  \* failures[p]
  told,      \* the programs that SIGTERM was sent to
  job,       \* the workers with a running job
  pending,   \* the workers that SIGTERM met in a dequeue
  orphan,    \* a worker died under its job, which runs on for as long as it likes
  sup,       \* the supervisor: "loop", "workers" and "relay" while it stops them, "ended"
  stopping,  \* self.stopping
  left,      \* polls left of the grace
  lines,     \* a log file has lines that are not on stdout yet
  rapid,     \* history: rapid[p], the exits in a row that came soon after a start
  idle,      \* history: idle[p], polls since its process was reaped, up to one more than MaxDelay
  relayLost  \* history: no relay ran when the shutdown began, or it died in the shutdown

programs == <<proc, age, wait, failures>>
supervisor == <<told, sup, stopping, left>>
work == <<job, pending, orphan, lines>>
history == <<rapid, idle, relayLost>>
vars == <<programs, supervisor, work, history>>

Least(a, b) == IF a < b THEN a ELSE b
All(value) == [p \in Program |-> value]

Init ==
  /\ proc = All("none") /\ age = All(0) /\ wait = All(0) /\ failures = All(0)
  /\ told = {} /\ sup = "loop" /\ stopping = FALSE /\ left = 0
  /\ job = {} /\ pending = {} /\ orphan = FALSE /\ lines = FALSE
  /\ rapid = All(0) /\ idle = All(0) /\ relayLost = FALSE

-----------------------------------------------------------------------------
(* One turn of Supervisor.run: reap, start_due and the sleep *)

(* Mutant of Delay: the exponent is one too high. *)
DelayDoubled(n) == IF n = 0 THEN 0 ELSE Least(2 ^ n, MaxDelay)

(* min(2 ** (failures - 1), MAX_DELAY) if failures else 0 *)
Delay(n) == IF n = 0 THEN 0 ELSE Least(2 ^ (n - 1), MaxDelay)

(* The count of failures after p's process was reaped. *)
Counted(p) == IF age[p] < RapidExit THEN Least(failures[p] + 1, MaxFailures) ELSE 0

Reaped(p) == proc[p] = "exited"

(* Mutant of Due: a program that fails is given up. *)
DueWhileHealthy(p) == proc[p] = "none" /\ failures[p] = 0

(* start_due starts p in this turn: it has no process, and its time has come. *)
Due(p) == IF Reaped(p) THEN Delay(Counted(p)) = 0 ELSE proc[p] = "none" /\ wait[p] = 0

OnePollLess(n) == IF n = 0 THEN 0 ELSE n - 1

Loop ==
  /\ sup = "loop" /\ ~stopping
  /\ proc' = [p \in Program |-> IF Due(p) THEN "up" ELSE IF Reaped(p) THEN "none" ELSE proc[p]]
  /\ failures' = [p \in Program |-> IF Reaped(p) THEN Counted(p) ELSE failures[p]]
  /\ age' = [p \in Program |-> IF proc'[p] # "up" THEN 0
                               ELSE IF Due(p) THEN 1
                               ELSE Least(age[p] + 1, RapidExit)]
  /\ wait' = [p \in Program |-> IF proc'[p] = "up" THEN 0
                                ELSE IF Reaped(p) THEN OnePollLess(Delay(Counted(p)))
                                ELSE OnePollLess(wait[p])]
  /\ idle' = [p \in Program |-> IF proc'[p] = "up" THEN 0
                                ELSE IF Reaped(p) THEN 1 ELSE Least(idle[p] + 1, MaxDelay + 1)]
  /\ UNCHANGED <<supervisor, work, rapid, relayLost>>

-----------------------------------------------------------------------------
(* Shutdown *)

(* SIGTERM or SIGINT to the supervisor, at any moment. *)
AskToStop ==
  /\ ~stopping
  /\ stopping' = TRUE
  /\ UNCHANGED <<programs, told, sup, left, work, history>>

Up(set) == {p \in set : proc[p] = "up"}

(* Mutant of StopWorkers: one stop_all for all programs. *)
StopAllAtOnce ==
  /\ sup = "loop" /\ stopping
  /\ told' = Up(Program)
  /\ left' = Grace
  /\ sup' = "workers"
  /\ pending' = Up(Worker) \ job
  /\ relayLost' = (Up({Relay}) = {})
  /\ UNCHANGED <<programs, stopping, job, orphan, lines, rapid, idle>>

(* SIGTERM to the process of each worker that runs. *)
StopWorkers ==
  /\ sup = "loop" /\ stopping
  /\ told' = Up(Worker)
  /\ left' = Grace
  /\ sup' = "workers"
  /\ pending' = Up(Worker) \ job
  /\ relayLost' = (Up({Relay}) = {})
  /\ UNCHANGED <<programs, stopping, job, orphan, lines, rapid, idle>>

(* Mutant of WaitPoll: no deadline. *)
WaitPollForever ==
  /\ sup \in {"workers", "relay"}
  /\ Up(told) # {}
  /\ UNCHANGED vars

WaitPoll ==
  /\ sup \in {"workers", "relay"}
  /\ Up(told) # {} /\ left > 0
  /\ left' = left - 1
  /\ UNCHANGED <<programs, told, sup, stopping, work, history>>

(* Mutant of KillWorkers: SIGKILL to the worker process alone. *)
KillLeaders ==
  /\ sup = "workers"
  /\ Up(told) = {} \/ left = 0
  /\ proc' = [p \in Program |-> IF p \in Up(told) THEN "exited" ELSE proc[p]]
  /\ told' = told \union Up({Relay})
  /\ left' = RelayGrace
  /\ sup' = "relay"
  /\ UNCHANGED <<age, wait, failures, stopping, job, pending, orphan, lines, history>>

(* SIGKILL to the group of each worker that outlived the grace, then SIGTERM*)
(* to the relay, if it runs.                                                *)
KillWorkers ==
  /\ sup = "workers"
  /\ Up(told) = {} \/ left = 0
  /\ proc' = [p \in Program |-> IF p \in Up(told) THEN "exited" ELSE proc[p]]
  /\ job' = job \ Up(told)
  /\ told' = told \union Up({Relay})
  /\ left' = RelayGrace
  /\ sup' = "relay"
  /\ UNCHANGED <<age, wait, failures, stopping, pending, orphan, lines, history>>

(* SIGKILL to a relay that outlived its own, and the end: the container is  *)
(* gone with everything that still runs in it.                              *)
End ==
  /\ sup = "relay"
  /\ Up(told) = {} \/ left = 0
  /\ proc' = [p \in Program |-> IF p \in Up(told) THEN "exited" ELSE proc[p]]
  /\ relayLost' = (relayLost \/ Up({Relay}) # {})
  /\ sup' = "ended"
  /\ UNCHANGED <<age, wait, failures, told, stopping, left, work, rapid, idle>>

Shutdown == StopWorkers \/ WaitPoll \/ KillWorkers \/ End

-----------------------------------------------------------------------------
(* The programs *)

Running == sup # "ended"

(* p's process ends, after it was up for age[p] polls. *)
Exit(p) ==
  /\ proc' = [proc EXCEPT ![p] = "exited"]
  /\ rapid' = [rapid EXCEPT ![p] = IF age[p] < RapidExit THEN Least(@ + 1, MaxFailures) ELSE 0]
  /\ UNCHANGED <<age, wait, failures, supervisor, idle>>

TakeJob(p) ==
  /\ Running /\ proc[p] = "up" /\ p \notin job /\ p \notin told \ pending
  /\ job' = job \union {p}
  /\ pending' = pending \ {p}
  /\ UNCHANGED <<programs, supervisor, orphan, lines, history>>

FinishJob(p) ==
  /\ Running /\ p \in job
  /\ job' = job \ {p}
  /\ UNCHANGED <<programs, supervisor, pending, orphan, lines, history>>

(* Between two jobs: its maximum run time is over, or it was told to stop. *)
WorkerExits(p) ==
  /\ Running /\ proc[p] = "up" /\ p \notin job
  /\ Exit(p)
  /\ UNCHANGED <<work, relayLost>>

(* It is killed, out of memory for one: its job goes on without it. *)
WorkerDies(p) ==
  /\ Running /\ proc[p] = "up" /\ p \in job
  /\ Exit(p)
  /\ job' = job \ {p}
  /\ orphan' = TRUE
  /\ UNCHANGED <<pending, lines, relayLost>>

(* A job makes MISP write to a log file. *)
Logs ==
  /\ Running /\ (job # {} \/ orphan)
  /\ lines' = TRUE
  /\ UNCHANGED <<programs, supervisor, job, pending, orphan, history>>

(* A poll of the relay, and its last one after SIGTERM. *)
Relays ==
  /\ Running /\ proc[Relay] = "up" /\ Relay \notin told
  /\ lines /\ lines' = FALSE
  /\ UNCHANGED <<programs, supervisor, job, pending, orphan, history>>

RelayExits ==
  /\ Running /\ proc[Relay] = "up" /\ Relay \in told
  /\ Exit(Relay)
  /\ lines' = FALSE
  /\ UNCHANGED <<job, pending, orphan, relayLost>>

RelayDies ==
  /\ Running /\ proc[Relay] = "up"
  /\ Exit(Relay)
  /\ relayLost' = (relayLost \/ sup # "loop")
  /\ UNCHANGED work

Next ==
  \/ Loop \/ AskToStop \/ StopWorkers \/ WaitPoll \/ KillWorkers \/ End
  \/ \E p \in Worker : TakeJob(p) \/ FinishJob(p) \/ WorkerExits(p) \/ WorkerDies(p)
  \/ Logs \/ Relays \/ RelayExits \/ RelayDies

(* The supervisor's own loop goes on; a job may run for ever. *)
Spec == Init /\ [][Next]_vars /\ WF_vars(Loop) /\ WF_vars(Shutdown)

-----------------------------------------------------------------------------
(* Properties *)

SupervisorTypeOK ==
  /\ proc \in [Program -> {"none", "up", "exited"}]
  /\ age \in [Program -> 0..RapidExit] /\ wait \in [Program -> 0..MaxDelay]
  /\ failures \in [Program -> 0..MaxFailures]
  /\ told \subseteq Program /\ job \subseteq Worker /\ pending \subseteq told /\ orphan \in BOOLEAN
  /\ sup \in {"loop", "workers", "relay", "ended"}
  /\ stopping \in BOOLEAN /\ left \in 0..(Grace + RelayGrace) /\ lines \in BOOLEAN
  /\ rapid \in [Program -> 0..MaxFailures] /\ idle \in [Program -> 0..(MaxDelay + 1)]
  /\ relayLost \in BOOLEAN

(* The types; and when the supervisor ends, every program has ended, the    *)
(* ones it started in the turn in which SIGTERM came among them, and no     *)
(* worker's job runs on to be cut off with the container.                   *)
SupervisorInv ==
  /\ SupervisorTypeOK
  /\ \A p \in job : proc[p] = "up"
  /\ told # {} => stopping
  /\ sup = "ended" => Up(Program) = {} /\ job = {}

(* "A process that dies within RAPID_EXIT seconds of its start restarts     *)
(* after a delay that doubles up to MAX_DELAY", and any other at once: each *)
(* start comes as many polls after the reaping as the rapid exits in a row  *)
(* demand, never fewer and never more.                                      *)
BackoffExact ==
  [][\A p \in Program : proc[p] # "up" /\ proc'[p] = "up" =>
       idle[p] = IF rapid[p] = 0 THEN 0 ELSE Least(2 ^ (rapid[p] - 1), MaxDelay)]_vars

(* "The log relay stops after the workers, so it relays the lines of their  *)
(* last jobs": when the container ends, no line of a worker's job is left   *)
(* behind, unless the relay had died or a job had outlived its worker.      *)
LastLinesRelayed ==
  sup = "ended" => ~lines \/ relayLost \/ orphan

(* What exits is started again, however often, until SIGTERM. *)
Restarted ==
  \A p \in Program : proc[p] # "up" ~> proc[p] = "up" \/ stopping

(* SIGTERM ends the supervisor, also with a job that never ends. *)
Stops == stopping ~> sup = "ended"
=============================================================================
