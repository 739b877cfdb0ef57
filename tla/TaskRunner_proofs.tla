-------------------------- MODULE TaskRunner_proofs --------------------------
(***************************************************************************)
(* The task runner, for any servers in any order and any rows that others  *)
(* write: what is known at each step of the commands that have run         *)
(* (TaskOrderly) is inductive, and from it follow that the exit code tells *)
(* the truth, that every line is relayed, and that one command at most     *)
(* begins after SIGTERM.                                                   *)
(***************************************************************************)
EXTENDS TaskRunner, SequenceTheorems, WellFoundedInduction, TLAPS

JobRow == [server : Server, by : {"earlier", "console", "another"},
           status : {"running", "completed", "failed"}]

Distinct(s) == \A i, k \in 1..Len(s) : s[i] = s[k] => i = k
Elements(s) == {s[i] : i \in 1..Len(s)}

(* The steps at which a command is at hand, begun or not; has begun; and    *)
(* the judgement of one that has ended.                                     *)
Begun == {"assign", "read", "rows", "judge"}
AtCommand == {"before", "popen"} \union Begun

(* What the next steps go by: a command is at hand, a task that is not told *)
(* otherwise has its commands to run once each, and before SIGTERM none of  *)
(* them is one that began after it.                                         *)
InOrder ==
  /\ jobs \in Seq(JobRow)
  /\ Distinct(todo)
  /\ pc \in AtCommand => todo # <<>>
  /\ pc \in {"before", "rows"} => kind = "rows"
  /\ pc = "wait" => todo = <<>> /\ done = {} /\ results
  /\ kind = "single" /\ todo # <<>> => Tail(todo) = <<>>
  /\ pc \in {"rows", "judge"} => console = "ended"
  /\ late = 1 => /\ requested /\ pc \notin {"wait", "before", "popen"}
                 /\ pc = "next" /\ kind = "single" => todo = <<>>
  /\ lines => pc \in Begun \/ (pc = "ended" /\ raised)
  /\ pc # "ended" => code = 2

(* The row of the present command is the one that the console wrote since   *)
(* server_run looked, whatever rows others have written since.              *)
RowInOrder ==
  /\ kind = "rows" /\ pc = "popen" =>
       \A i \in before + 1 .. Len(jobs) : jobs[i].by = "another"
  /\ kind = "rows" /\ pc \in Begun =>
       /\ \A i \in before + 1 .. Len(jobs) : jobs[i].by = "another" \/ i = mine
       /\ mine # 0 => mine > before /\ jobs[mine].server = Head(todo)
  /\ kind # "rows" => mine = 0

(* Whether the present command did what it should.                          *)
DidWell ==
  fine /\ (kind # "rows" \/ (mine # 0 /\ jobs[mine].status = "completed"))

(* Of the commands that have run, the results say whether they are done; of *)
(* those still to run, the present one is done when it has ended well.      *)
ResultsInOrder ==
  /\ \A c \in Elements(todo) : c \in done =>
       pc = "ended" \/ (pc \in Begun /\ console = "ended" /\ c = Head(todo))
  /\ pc \in Begun /\ console = "ended" => (Head(todo) \in done <=> DidWell)
  /\ pc = "rows" => (ok <=> fine)
  /\ pc = "judge" /\ ~misled => (ok <=> Head(todo) \in done)
  /\ pc \notin {"wait", "ended"} /\ ~misled =>
       (results <=> Commands \ Elements(todo) \subseteq done)
  /\ pc = "ended" => ExitTells

(* The inductive invariant. *)
TaskOrderly == TaskInv /\ InOrder /\ RowInOrder /\ ResultsInOrder

-----------------------------------------------------------------------------
(* Sequences and rows *)

(* The head and the tail of the commands still to run. *)
LEMMA HeadAndTail ==
  ASSUME NEW S, NEW s \in Seq(S), s # <<>>
  PROVE  /\ Head(s) \in S /\ Tail(s) \in Seq(S) /\ Head(s) \in Elements(s)
         /\ Elements(s) = Elements(Tail(s)) \union {Head(s)}
         /\ Distinct(s) => Distinct(Tail(s)) /\ Head(s) \notin Elements(Tail(s))
<1>1. /\ Len(s) \in Nat \ {0} /\ Head(s) = s[1] /\ Head(s) \in S
  BY EmptySeq, HeadTailProperties
<1>2. /\ Tail(s) \in Seq(S) /\ Len(Tail(s)) = Len(s) - 1
      /\ \A i \in 1..Len(s) - 1 : Tail(s)[i] = s[i + 1]
  BY HeadTailProperties
<1>3. 1 \in 1..Len(s) /\ \A i \in 1..Len(s) - 1 : i + 1 \in 1..Len(s) /\ i + 1 # 1
  BY <1>1
<1>4. \A i \in 1..Len(s) : i # 1 => i - 1 \in 1..Len(s) - 1 /\ (i - 1) + 1 = i
  BY <1>1
<1>5. Head(s) \in Elements(s)
  BY <1>1, <1>3 DEF Elements
<1>6. Elements(Tail(s)) \subseteq Elements(s)
  BY <1>2, <1>3 DEF Elements
<1>7. Elements(s) \subseteq Elements(Tail(s)) \union {Head(s)}
  <2> SUFFICES ASSUME NEW i \in 1..Len(s), i # 1
               PROVE  s[i] \in Elements(Tail(s))
    BY <1>1 DEF Elements
  <2>1. i - 1 \in 1..Len(Tail(s)) /\ Tail(s)[i - 1] = s[i]
    BY <1>2, <1>4
  <2>2. QED
    BY <2>1 DEF Elements
<1>8. ASSUME Distinct(s)
      PROVE  Distinct(Tail(s)) /\ Head(s) \notin Elements(Tail(s))
  <2>1. ASSUME NEW i \in 1..Len(s) - 1, NEW k \in 1..Len(s) - 1, Tail(s)[i] = Tail(s)[k]
        PROVE  i = k
    <3>1. i + 1 = k + 1
      BY <1>2, <1>3, <1>8, <2>1 DEF Distinct
    <3>2. QED
      BY <1>1, <3>1
  <2>2. \A i \in 1..Len(s) - 1 : Tail(s)[i] # s[1]
    BY <1>2, <1>3, <1>8 DEF Distinct
  <2>3. QED
    BY <1>1, <1>2, <2>1, <2>2 DEF Distinct, Elements
<1>9. QED
  BY <1>1, <1>2, <1>5, <1>6, <1>7, <1>8

LEMMA NothingElse == \A S : Elements(<<>>) = {} /\ Distinct(<<>>) /\ <<>> \in Seq(S)
<1>1. Len(<<>>) = 0 /\ \A S : <<>> \in Seq(S)
  BY EmptySeq
<1>2. 1..0 = {}
  OBVIOUS
<1>3. QED
  BY <1>1, <1>2 DEF Elements, Distinct

(* Some row is the first of those that server_run finds. *)
LEMMA FirstRow ==
  ASSUME NEW T, T \subseteq Nat, T # {}
  PROVE  First(T) \in T /\ \A i \in T : First(T) <= i
<1> DEFINE R == OpToRel(<, Nat)
<1>1. IsWellFoundedOn(R, Nat)
  BY NatLessThanWellFounded
<1>2. \A i, k \in Nat : <<i, k>> \in R <=> i < k
  BY DEF OpToRel
<1> HIDE DEF R
<1>3. PICK k \in T : \A i \in T : ~ (<<i, k>> \in R)
  BY <1>1, WFMin
<1>4. \A i \in T : k <= i
  <2> TAKE i \in T
  <2>1. ~ (i < k) /\ i \in Nat /\ k \in Nat
    BY <1>2, <1>3
  <2>2. QED
    BY <2>1
<1>5. QED
  BY <1>4 DEF First

(* What a step does to the job rows: it may add one, and give the row of    *)
(* the running command another status.                                      *)
LEMMA RowsStep ==
  ASSUME TaskInv, InOrder, [Next]_vars
  PROVE  /\ jobs' \in Seq(JobRow) /\ Len(jobs) <= Len(jobs')
         /\ \A i \in 1..Len(jobs) :
              /\ jobs'[i].by = jobs[i].by /\ jobs'[i].server = jobs[i].server
              /\ jobs'[i] # jobs[i] => console = "up" /\ i = mine
<1>0. /\ jobs \in Seq(JobRow) /\ Len(jobs) \in Nat /\ mine \in 0..Len(jobs)
      /\ \A i \in 1..Len(jobs) : jobs[i] \in JobRow
  BY DEF InOrder, TaskInv, TaskTypeOK
<1>1. ASSUME NEW r \in JobRow, jobs' = Append(jobs, r)
      PROVE  /\ jobs' \in Seq(JobRow) /\ Len(jobs) <= Len(jobs')
             /\ \A i \in 1..Len(jobs) : jobs'[i] = jobs[i]
  BY <1>0, <1>1, AppendProperties
<1>2. CASE UNCHANGED jobs
  BY <1>0, <1>2
<1>3. CASE WriteRow
  <2>1. kind = "rows" /\ todo # <<>>
    BY <1>3 DEF WriteRow, TaskInv, InOrder, AtCommand, Begun
  <2>2. todo \in Seq(Server)
    BY <2>1 DEF TaskInv, TaskTypeOK, Commands
  <2>3. Head(todo) \in Server
    BY <2>1, <2>2, HeadAndTail
  <2> DEFINE r == [server |-> Head(todo), by |-> "console", status |-> "running"]
  <2>4. r \in JobRow /\ jobs' = Append(jobs, r)
    BY <1>3, <2>3 DEF WriteRow, JobRow
  <2>5. QED
    BY <1>1, <2>4
<1>4. CASE AnotherRow
  <2>1. PICK s \in Server, status \in {"completed", "failed"} :
          jobs' = Append(jobs, [server |-> s, by |-> "another", status |-> status])
    BY <1>4 DEF AnotherRow
  <2> DEFINE r == [server |-> s, by |-> "another", status |-> status]
  <2>2. r \in JobRow /\ jobs' = Append(jobs, r)
    BY <2>1 DEF JobRow
  <2>3. QED
    BY <1>1, <2>2
<1>5. CASE ConsoleEnds
  <2>1. PICK status \in {"running", "completed", "failed"} :
          jobs' = IF mine = 0 THEN jobs ELSE [jobs EXCEPT ![mine].status = status]
    BY <1>5 DEF ConsoleEnds
  <2>2. CASE mine = 0
    BY <1>2, <2>1, <2>2
  <2>3. CASE mine # 0
    <3>1. mine \in 1..Len(jobs)
      BY <1>0, <2>3
    <3> DEFINE r == [jobs[mine] EXCEPT !.status = status]
    <3>2. /\ r \in JobRow /\ r.by = jobs[mine].by /\ r.server = jobs[mine].server
      BY <1>0, <3>1 DEF JobRow
    <3>3. jobs' = [jobs EXCEPT ![mine] = r]
      BY <2>1, <2>3
    <3> HIDE DEF r
    <3>4. /\ jobs' \in Seq(JobRow) /\ Len(jobs') = Len(jobs)
          /\ \A i \in 1..Len(jobs) : jobs'[i] = IF i = mine THEN r ELSE jobs[i]
      BY <1>0, <3>1, <3>2, <3>3, ExceptSeq
    <3>5. console = "up"
      BY <1>5 DEF ConsoleEnds
    <3>6. QED
      BY <1>0, <3>2, <3>4, <3>5
  <2>4. QED
    BY <2>2, <2>3
<1>6. CASE \/ Ready \/ NextServer \/ Before \/ Popen \/ Assign \/ Read \/ Rows \/ Judge
           \/ Raise \/ Handle \/ Logs \/ UNCHANGED vars
  BY <1>2, <1>6 DEF Ready, NextServer, Return, Before, Popen, Assign, Read, Rows, Judge, Raise,
     Handle, Logs, vars, misp
<1>7. QED
  BY <1>3, <1>4, <1>5, <1>6 DEF Next, Task

-----------------------------------------------------------------------------
(* Types, and one command at a time *)

LEMMA InitOrderly == Init => TaskOrderly
<1> SUFFICES ASSUME Init PROVE TaskOrderly
  OBVIOUS
<1> USE DEF Init
<1>1. Order \in Seq(Server) /\ Len(Order) \in Nat /\ \A i \in 1..Len(Order) : Order[i] \in Server
  BY TaskAssumption
<1>2. jobs \in [1..Len(Order) -> JobRow]
  BY <1>1 DEF JobRow
<1>3. jobs \in Seq(JobRow) /\ Len(jobs) \in Nat
  <2>1. [1..Len(Order) -> JobRow] \in {[1..n -> JobRow] : n \in Nat}
    BY <1>1
  <2>2. jobs \in Seq(JobRow)
    BY <1>2, <2>1, SeqDef
  <2>3. QED
    BY <2>2, LenProperties
<1>4. TaskInv
  <2>1. todo \in Seq(Commands)
    BY NothingElse
  <2>2. before \in 0..Len(jobs) /\ mine \in 0..Len(jobs)
    BY <1>3
  <2>3. /\ requested \in BOOLEAN /\ watched \in BOOLEAN /\ results \in BOOLEAN /\ ok \in BOOLEAN
        /\ fine \in BOOLEAN /\ told \in BOOLEAN /\ lines \in BOOLEAN
        /\ misled \in BOOLEAN /\ raised \in BOOLEAN /\ heard \in BOOLEAN
    OBVIOUS
  <2>4. TaskTypeOK
    BY <2>1, <2>2, <2>3 DEF TaskTypeOK
  <2>5. QED
    BY <2>4 DEF TaskInv
<1>5. InOrder
  BY <1>3, NothingElse DEF InOrder, AtCommand, Begun
<1>6. RowInOrder
  BY DEF RowInOrder, Begun
<1>7. ResultsInOrder
  BY NothingElse DEF ResultsInOrder, Begun
<1>8. QED
  BY <1>4, <1>5, <1>6, <1>7 DEF TaskOrderly

LEMMA TypeStep == TaskInv /\ InOrder /\ [Next]_vars => TaskInv'
<1> SUFFICES ASSUME TaskInv, InOrder, [Next]_vars PROVE TaskInv'
  OBVIOUS
<1>0. /\ TaskTypeOK /\ Len(jobs) \in Nat /\ Len(jobs') \in Nat /\ Len(jobs) <= Len(jobs')
      /\ \A i \in 1..Len(jobs) : jobs'[i].by = jobs[i].by
  <2>1. jobs \in Seq(JobRow) /\ jobs' \in Seq(JobRow)
    BY RowsStep DEF TaskInv, InOrder
  <2>2. QED
    BY <2>1, RowsStep, LenProperties DEF TaskInv
<1>a. UNCHANGED kind => Commands' = Commands
  BY DEF Commands
<1>b. 0..Len(jobs) \subseteq 0..Len(jobs') /\ Len(jobs') \in 0..Len(jobs')
  BY <1>0
<1> USE <1>0, <1>a, <1>b DEF TaskInv, TaskTypeOK, stop, task, command, misp, outcome
<1>1. CASE Ready
  <2>1. todo' \in Seq(Commands)
    <3>1. CASE kind = "single"
      <4>1. todo' = <<Whole>> /\ Commands = {Whole}
        BY <1>1, <3>1 DEF Ready, Commands
      <4>2. QED
        BY <4>1
    <3>2. CASE kind # "single"
      BY <1>1, <3>2, TaskAssumption DEF Ready, Commands
    <3>3. QED
      BY <3>1, <3>2
  <2>2. QED
    BY <1>1, <2>1 DEF Ready
<1>2. CASE NextServer
  BY <1>2 DEF NextServer, Return
<1>3. CASE Before
  BY <1>3 DEF Before
<1>4. CASE Popen
  <2>1. late = 0
    BY <1>4 DEF Popen, InOrder
  <2>2. late' \in Nat /\ late' <= 1
    BY <1>4, <2>1 DEF Popen
  <2>3. /\ console' = "up" /\ fine' \in BOOLEAN /\ told' \in BOOLEAN
        /\ watched' \in BOOLEAN /\ pc' = "assign" /\ mine' = 0
    BY <1>4 DEF Popen
  <2>4. TaskTypeOK'
    BY <1>4, <2>2, <2>3 DEF Popen
  <2>5. QED
    BY <2>2, <2>3, <2>4
<1>5. CASE Assign
  BY <1>5 DEF Assign
<1>6. CASE Read
  BY <1>6 DEF Read
<1>7. CASE Rows
  BY <1>7 DEF Rows
<1>8. CASE Judge
  <2>1. Tail(todo) \in Seq(Commands)
    BY <1>8, HeadAndTail DEF Judge, InOrder, AtCommand, Begun
  <2>2. results' \in BOOLEAN /\ lines' \in BOOLEAN /\ pc' = "next" /\ todo' \in Seq(Commands)
    BY <1>8, <2>1 DEF Judge
  <2>3. UNCHANGED <<kind, stop, before, ok, command, jobs, outcome>>
    BY <1>8 DEF Judge
  <2>4. TaskTypeOK'
    BY <2>2, <2>3
  <2>5. console' # "up"
    BY <1>8, <2>3 DEF Judge
  <2>6. QED
    BY <2>3, <2>4, <2>5
<1>9. CASE Raise
  BY <1>9 DEF Raise
<1>10. CASE Handle
  BY <1>10 DEF Handle
<1>11. CASE WriteRow
  BY <1>11 DEF WriteRow
<1>12. CASE Logs
  BY <1>12 DEF Logs
<1>13. CASE ConsoleEnds
  <2>1. Head(todo) \in Commands
    BY <1>13, HeadAndTail DEF ConsoleEnds, InOrder, AtCommand, Begun
  <2>2. done' \subseteq Commands
    BY <1>13, <2>1 DEF ConsoleEnds
  <2>3. mine # 0 => mine \in 1..Len(jobs) /\ jobs'[mine].by = "console"
    BY <1>13 DEF ConsoleEnds
  <2>4. mine \in 0..Len(jobs') /\ before \in 0..Len(jobs')
    OBVIOUS
  <2>5. QED
    BY <1>13, <2>2, <2>3, <2>4 DEF ConsoleEnds
<1>14. CASE AnotherRow
  BY <1>14 DEF AnotherRow
<1>15. CASE UNCHANGED vars
  BY <1>15 DEF vars
<1>16. QED
  BY <1>1, <1>2, <1>3, <1>4, <1>5, <1>6, <1>7, <1>8, <1>9, <1>10, <1>11, <1>12, <1>13, <1>14, <1>15
  DEF Next, Task

-----------------------------------------------------------------------------
(* The order of the task's steps *)

LEMMA OrderStep == TaskInv /\ InOrder /\ [Next]_vars => InOrder'
<1> SUFFICES ASSUME TaskInv, InOrder, [Next]_vars PROVE InOrder'
  OBVIOUS
<1>0. /\ TaskTypeOK /\ jobs' \in Seq(JobRow)
      /\ console = "up" => pc \in {"assign", "read"}
  BY RowsStep DEF TaskInv
<1> USE <1>0 DEF InOrder, AtCommand, Begun, stop, task, command, misp, outcome
<1>1. CASE Ready
  <2>1. late # 1
    BY <1>1 DEF Ready
  <2>2. Distinct(todo') /\ (kind = "single" => Tail(todo') = <<>>)
    <3>1. CASE kind = "single"
      <4>1. todo' = <<Whole>>
        BY <1>1, <3>1 DEF Ready
      <4>2. Len(todo') = 1 /\ Tail(todo') = <<>>
        BY <4>1
      <4>3. QED
        BY <4>2 DEF Distinct
    <3>2. CASE kind # "single"
      BY <1>1, <3>2, TaskAssumption DEF Ready, Distinct
    <3>3. QED
      BY <3>1, <3>2
  <2>3. QED
    BY <1>1, <2>1, <2>2 DEF Ready
<1>2. CASE NextServer
  BY <1>2 DEF NextServer, Return
<1>3. CASE Before
  BY <1>3 DEF Before
<1>4. CASE Popen
  BY <1>4 DEF Popen
<1>5. CASE Assign
  BY <1>5 DEF Assign
<1>6. CASE Read
  BY <1>6 DEF Read
<1>7. CASE Rows
  BY <1>7 DEF Rows
<1>8. CASE Judge
  <2>1. Distinct(todo')
    BY <1>8, HeadAndTail DEF Judge, TaskTypeOK
  <2>2. kind = "single" => todo' = <<>>
    BY <1>8 DEF Judge
  <2>3. pc' = "next" /\ lines' = FALSE /\ UNCHANGED <<kind, console, outcome, requested>>
    BY <1>8 DEF Judge
  <2>4. QED
    BY <1>8, <2>1, <2>2, <2>3 DEF Judge
<1>9. CASE Raise
  BY <1>9 DEF Raise
<1>10. CASE Handle
  BY <1>10 DEF Handle
<1>11. CASE WriteRow
  BY <1>11 DEF WriteRow
<1>12. CASE Logs
  BY <1>12 DEF Logs
<1>13. CASE ConsoleEnds
  BY <1>13 DEF ConsoleEnds
<1>14. CASE AnotherRow
  BY <1>14 DEF AnotherRow
<1>15. CASE UNCHANGED vars
  BY <1>15 DEF vars
<1>16. QED
  BY <1>1, <1>2, <1>3, <1>4, <1>5, <1>6, <1>7, <1>8, <1>9, <1>10, <1>11, <1>12, <1>13,
     <1>14, <1>15 DEF Next, Task

-----------------------------------------------------------------------------
(* The row of the present command *)

LEMMA RowStep == TaskInv /\ InOrder /\ RowInOrder /\ [Next]_vars => RowInOrder'
<1> SUFFICES ASSUME TaskInv, InOrder, RowInOrder, [Next]_vars PROVE RowInOrder'
  OBVIOUS
<1>0. /\ TaskTypeOK /\ Len(jobs) \in Nat /\ Len(jobs') \in Nat /\ Len(jobs) <= Len(jobs')
      /\ \A i \in 1..Len(jobs) : jobs'[i].by = jobs[i].by /\ jobs'[i].server = jobs[i].server
      /\ before \in 0..Len(jobs) /\ mine \in 0..Len(jobs)
      /\ jobs \in Seq(JobRow)
  <2>1. jobs \in Seq(JobRow) /\ jobs' \in Seq(JobRow)
    BY RowsStep DEF InOrder
  <2>2. QED
    BY <2>1, RowsStep, LenProperties DEF TaskInv, TaskTypeOK
<1>a. \A i \in before + 1 .. Len(jobs) : i \in 1..Len(jobs) /\ i # 0
  BY <1>0
<1> USE <1>0 DEF stop, task, command, misp, outcome
<1>1. CASE Ready \/ NextServer \/ Judge \/ Raise
  BY <1>1 DEF Ready, NextServer, Return, Judge, Raise, RowInOrder, Begun
<1>2. CASE Before
  <2>1. /\ pc' = "popen" /\ before' = Len(jobs) /\ jobs' = jobs /\ kind' = kind /\ mine' = mine
    BY <1>2 DEF Before
  <2>2. before' + 1 .. Len(jobs') = {}
    BY <2>1
  <2>3. QED
    BY <2>1, <2>2 DEF RowInOrder, Begun
<1>3. CASE Popen
  BY <1>3 DEF Popen, RowInOrder, Begun
<1>4. CASE Assign
  BY <1>4 DEF Assign, RowInOrder, Begun
<1>5. CASE Read
  BY <1>5 DEF Read, RowInOrder, Begun
<1>6. CASE Rows
  BY <1>6 DEF Rows, RowInOrder, Begun
<1>7. CASE Handle \/ Logs
  BY <1>7 DEF Handle, Logs, RowInOrder
<1>8. CASE WriteRow
  <2> DEFINE r == [server |-> Head(todo), by |-> "console", status |-> "running"]
  <2>1. /\ mine = 0 /\ kind = "rows" /\ pc \in Begun
        /\ jobs' = Append(jobs, r) /\ mine' = Len(jobs')
        /\ UNCHANGED <<kind, pc, todo, before>>
    BY <1>8 DEF WriteRow, TaskInv, Begun
  <2>2. /\ Len(jobs') = Len(jobs) + 1 /\ jobs'[Len(jobs) + 1] = r
        /\ \A i \in 1..Len(jobs) : jobs'[i] = jobs[i]
    BY <2>1
  <2>3. \A i \in before + 1 .. Len(jobs) : jobs[i].by = "another"
    BY <1>a, <2>1 DEF RowInOrder
  <2>4. \A i \in before + 1 .. Len(jobs') : i = mine' \/ i \in before + 1 .. Len(jobs)
    BY <2>1, <2>2
  <2>5. mine' > before' /\ jobs'[mine'].server = Head(todo')
    BY <2>1, <2>2
  <2>6. \A i \in before' + 1 .. Len(jobs') : jobs'[i].by = "another" \/ i = mine'
    BY <1>a, <2>1, <2>2, <2>3, <2>4
  <2>7. QED
    BY <2>1, <2>5, <2>6 DEF RowInOrder, Begun
<1>9. CASE ConsoleEnds
  <2>1. Len(jobs') = Len(jobs) /\ UNCHANGED <<kind, pc, todo, before, mine>>
    <3>1. PICK status \in {"running", "completed", "failed"} :
            jobs' = IF mine = 0 THEN jobs ELSE [jobs EXCEPT ![mine].status = status]
      BY <1>9 DEF ConsoleEnds
    <3>2. DOMAIN jobs' = DOMAIN jobs
      BY <3>1
    <3>3. jobs' \in Seq(JobRow)
      BY RowsStep
    <3>4. Len(jobs') = Len(jobs)
      BY <3>2, <3>3
    <3>5. QED
      BY <1>9, <3>4 DEF ConsoleEnds
  <2>2. \A i \in before + 1 .. Len(jobs) : jobs'[i].by = jobs[i].by
    BY <1>a
  <2>3. mine # 0 => jobs'[mine].server = jobs[mine].server
    BY <1>0
  <2>4. QED
    BY <2>1, <2>2, <2>3 DEF RowInOrder
<1>10. CASE AnotherRow
  <2>1. PICK s \in Server, status \in {"completed", "failed"} :
          jobs' = Append(jobs, [server |-> s, by |-> "another", status |-> status])
    BY <1>10 DEF AnotherRow
  <2>2. UNCHANGED <<kind, pc, todo, before, mine>>
    BY <1>10 DEF AnotherRow
  <2>3. /\ Len(jobs') = Len(jobs) + 1 /\ jobs'[Len(jobs) + 1].by = "another"
        /\ \A i \in 1..Len(jobs) : jobs'[i] = jobs[i]
    BY <2>1
  <2>4. \A i \in before + 1 .. Len(jobs') : i = Len(jobs) + 1 \/ i \in before + 1 .. Len(jobs)
    BY <2>3
  <2>5. mine # 0 => jobs'[mine].server = jobs[mine].server
    BY <1>0
  <2>6. QED
    BY <1>a, <2>2, <2>3, <2>4, <2>5 DEF RowInOrder
<1>11. CASE UNCHANGED vars
  BY <1>11 DEF vars, RowInOrder
<1>12. QED
  BY <1>1, <1>2, <1>3, <1>4, <1>5, <1>6, <1>7, <1>8, <1>9, <1>10, <1>11 DEF Next, Task

-----------------------------------------------------------------------------
(* What the results say of the commands that have run *)

(* A command that has ended has its row for good. *)
LEMMA WellStays ==
  ASSUME TaskInv, InOrder, [Next]_vars, console # "up", UNCHANGED <<kind, fine, mine>>
  PROVE  DidWell' <=> DidWell
<1>1. /\ jobs \in Seq(JobRow) /\ Len(jobs) \in Nat /\ mine \in 0..Len(jobs)
      /\ \A i \in 1..Len(jobs) : jobs'[i] = jobs[i]
  BY RowsStep DEF InOrder, TaskInv, TaskTypeOK
<1>2. mine # 0 => jobs'[mine] = jobs[mine]
  BY <1>1
<1>3. QED
  BY <1>2 DEF DidWell

LEMMA ResultsStep == TaskOrderly /\ [Next]_vars => ResultsInOrder'
<1> SUFFICES ASSUME TaskOrderly, [Next]_vars PROVE ResultsInOrder'
  OBVIOUS
<1>0. TaskInv /\ TaskTypeOK /\ InOrder /\ RowInOrder /\ ResultsInOrder
  BY DEF TaskOrderly, TaskInv
<1>a. UNCHANGED kind => Commands' = Commands
  BY DEF Commands
<1>b. UNCHANGED todo => Elements(todo') = Elements(todo)
  OBVIOUS
<1>c. console = "up" => pc \in {"assign", "read"}
  BY <1>0 DEF TaskInv
<1>d. UNCHANGED <<kind, fine, mine>> /\ console # "up" => (DidWell' <=> DidWell)
  BY <1>0, WellStays
<1>1. CASE Ready
  <2>1. /\ pc' = "next" /\ done' = {} /\ kind' = kind /\ results' = TRUE
        /\ todo' = IF kind = "single" THEN <<Whole>> ELSE Order
    <3>1. pc = "wait" /\ pc' = "next" /\ UNCHANGED <<kind, results, done>>
          /\ todo' = IF kind = "single" THEN <<Whole>> ELSE Order
      BY <1>1 DEF Ready, outcome
    <3>2. results = TRUE /\ done = {}
      BY <1>0, <3>1 DEF InOrder, TaskTypeOK
    <3>3. QED
      BY <3>1, <3>2
  <2>2. Commands' \subseteq Elements(todo')
    <3>1. CASE kind = "single"
      <4>1. todo' = <<Whole>> /\ Commands' = {Whole}
        BY <2>1, <3>1 DEF Commands
      <4>2. 1 \in 1..Len(todo') /\ todo'[1] = Whole
        BY <4>1
      <4>3. QED
        BY <4>1, <4>2 DEF Elements
    <3>2. CASE kind # "single"
      BY <2>1, <3>2, TaskAssumption DEF Commands, Elements
    <3>3. QED
      BY <3>1, <3>2
  <2>3. QED
    BY <2>1, <2>2 DEF ResultsInOrder, Begun
<1>2. CASE NextServer
  <2>1. CASE pc' \in {"before", "popen"} /\ UNCHANGED <<kind, todo, results, done, misled>>
    BY <1>0, <1>2, <1>a, <1>b, <2>1 DEF NextServer, ResultsInOrder, Begun
  <2>2. CASE /\ todo = <<>> \/ (kind # "single" /\ requested)
             /\ Return(IF results /\ (kind = "single" \/ ~requested) THEN 0 ELSE 1)
    <3>1. /\ pc' = "ended" /\ UNCHANGED <<kind, done, misled, raised, requested>>
          /\ code' = IF results /\ (kind = "single" \/ ~requested) THEN 0 ELSE 1
      BY <2>2 DEF Return, stop
    <3>2. pc = "next"
      BY <1>2 DEF NextServer
    <3>3. ~misled => (results <=> Commands \ Elements(todo) \subseteq done)
      BY <1>0, <3>2 DEF ResultsInOrder
    <3>4. done \subseteq Commands /\ Commands' = Commands
      BY <1>0, <1>a, <3>1 DEF TaskTypeOK
    <3>5. ASSUME ~misled, code' = 0
          PROVE  done = Commands
      <4>1. results /\ todo = <<>>
        BY <2>2, <3>1, <3>5
      <4>2. QED
        BY <3>3, <3>4, <3>5, <4>1, NothingElse
    <3>6. ASSUME ~misled, code' = 1
          PROVE  done # Commands \/ requested
      <4>1. ~results \/ requested
        BY <3>1, <3>6
      <4>2. QED
        BY <3>3, <3>4, <3>6, <4>1
    <3>7. ExitTells'
      BY <3>1, <3>4, <3>5, <3>6 DEF ExitTells
    <3>8. QED
      BY <3>1, <3>7 DEF ResultsInOrder, Begun
  <2>3. QED
    BY <1>2, <2>1, <2>2 DEF NextServer, task, outcome
<1>3. CASE Before \/ Popen
  <2>1. pc \in {"before", "popen"} /\ pc' \in {"popen", "assign"}
        /\ (pc' = "assign" => console' = "up")
        /\ UNCHANGED <<kind, todo, results, done, misled>>
    BY <1>3 DEF Before, Popen, task, outcome
  <2>2. QED
    BY <1>0, <1>a, <1>b, <2>1 DEF ResultsInOrder, Begun
<1>4. CASE Assign
  <2>1. pc = "assign" /\ pc' = "read"
        /\ UNCHANGED <<kind, todo, results, done, misled, console, fine, mine>>
    BY <1>4 DEF Assign, task, command, outcome
  <2>2. QED
    BY <1>0, <1>a, <1>b, <1>d, <2>1 DEF ResultsInOrder, Begun
<1>5. CASE Read
  <2>1. /\ pc = "read" /\ pc' = (IF kind = "rows" THEN "rows" ELSE "judge")
        /\ console = "ended" /\ ok' = fine
        /\ UNCHANGED <<kind, todo, results, done, misled, console, fine, mine>>
    BY <1>5 DEF Read, task, command, outcome
  <2>2. Head(todo) \in done <=> DidWell
    BY <1>0, <2>1 DEF ResultsInOrder, Begun
  <2>3. pc' = "judge" => (ok' <=> Head(todo) \in done)
    BY <2>1, <2>2 DEF DidWell
  <2>4. QED
    BY <1>0, <1>a, <1>b, <1>d, <2>1, <2>2, <2>3 DEF ResultsInOrder, Begun
<1>6. CASE Rows
  <2>1. /\ pc = "rows" /\ pc' = "judge"
        /\ UNCHANGED <<kind, todo, results, done, console, fine, mine>>
        /\ ok' = (ok /\ Found # {} /\ jobs[First(Found)].status = "completed")
        /\ misled' = (misled \/ (Found # {} /\ jobs[First(Found)].by = "another"))
    BY <1>6 DEF Rows, command
  <2>2. /\ kind = "rows" /\ console = "ended" /\ Len(jobs) \in Nat
        /\ before \in 0..Len(jobs) /\ mine \in 0..Len(jobs)
    BY <1>0, <2>1 DEF InOrder, TaskTypeOK
  <2>3. ok <=> fine
    BY <1>0, <2>1 DEF ResultsInOrder
  <2>4. Head(todo) \in done <=> fine /\ mine # 0 /\ jobs[mine].status = "completed"
    BY <1>0, <2>1, <2>2 DEF ResultsInOrder, Begun, DidWell
  <2>5. ~misled' => (ok' <=> Head(todo) \in done)
    <3>1. CASE Found = {}
      <4>1. mine = 0
        <5>1. mine # 0 => mine \in Found
          BY <1>0, <2>1, <2>2 DEF RowInOrder, Begun, Found
        <5>2. QED
          BY <3>1, <5>1
      <4>2. QED
        BY <2>1, <2>4, <3>1, <4>1
    <3>2. CASE Found # {}
      <4>1. Found \subseteq Nat /\ Found \subseteq before + 1 .. Len(jobs)
        BY <2>2 DEF Found
      <4>2. First(Found) \in before + 1 .. Len(jobs) /\ First(Found) # 0
        <5>1. First(Found) \in Found
          BY <3>2, <4>1, FirstRow
        <5>2. First(Found) \in before + 1 .. Len(jobs)
          BY <4>1, <5>1
        <5>3. QED
          BY <2>2, <5>2
      <4>3. jobs[First(Found)].by = "another" \/ First(Found) = mine
        BY <1>0, <2>1, <2>2, <4>2 DEF RowInOrder, Begun
      <4>4. ~misled' => First(Found) = mine
        BY <2>1, <3>2, <4>3
      <4>5. QED
        BY <2>1, <2>3, <2>4, <3>2, <4>2, <4>4
    <3>3. QED
      BY <3>1, <3>2
  <2>6. ~misled' => ~misled
    BY <2>1
  <2>7. QED
    BY <1>0, <1>a, <1>b, <1>d, <2>1, <2>2, <2>5, <2>6 DEF ResultsInOrder, Begun
<1>7. CASE Judge
  <2>1. /\ pc = "judge" /\ pc' = "next" /\ todo' = Tail(todo) /\ results' = (results /\ ok)
        /\ UNCHANGED <<kind, done, misled>>
    BY <1>7 DEF Judge, outcome
  <2>2. /\ todo \in Seq(Commands) /\ todo # <<>> /\ Distinct(todo)
    BY <1>0, <2>1 DEF TaskTypeOK, InOrder, AtCommand, Begun
  <2>3. /\ Elements(todo) = Elements(todo') \union {Head(todo)}
        /\ Head(todo) \notin Elements(todo') /\ Head(todo) \in Commands
    BY <2>1, <2>2, HeadAndTail
  <2>4. \A c \in Elements(todo') : c \notin done
    BY <1>0, <2>1, <2>3 DEF ResultsInOrder
  <2>5. ~misled => (results' <=> Commands \ Elements(todo') \subseteq done)
    <3>1. ~misled => /\ ok <=> Head(todo) \in done
                     /\ results <=> Commands \ Elements(todo) \subseteq done
      BY <1>0, <2>1 DEF ResultsInOrder
    <3>2. Commands \ Elements(todo') = (Commands \ Elements(todo)) \union {Head(todo)}
      BY <2>3
    <3>3. QED
      BY <2>1, <3>1, <3>2
  <2>6. QED
    BY <1>a, <2>1, <2>4, <2>5 DEF ResultsInOrder, Begun
<1>8. CASE Raise
  <2>1. pc' = "ended" /\ code' = 1 /\ raised' = TRUE
    BY <1>8 DEF Raise
  <2>2. QED
    BY <2>1 DEF ResultsInOrder, ExitTells, Begun
<1>9. CASE Handle
  <2>1. pc # "ended" /\ UNCHANGED <<kind, pc, todo, results, ok, done, misled, console, fine, mine, jobs>>
    BY <1>9 DEF Handle, task, misp
  <2>2. DidWell' <=> DidWell
    BY <2>1 DEF DidWell
  <2>3. QED
    BY <1>0, <1>a, <1>b, <2>1, <2>2 DEF ResultsInOrder
<1>10. CASE WriteRow \/ Logs
  <2>1. console = "up" /\ UNCHANGED <<kind, pc, todo, results, ok, done, misled, console>>
    BY <1>10 DEF WriteRow, Logs, task, command, outcome
  <2>2. QED
    BY <1>0, <1>a, <1>b, <1>c, <2>1 DEF ResultsInOrder, Begun
<1>11. CASE ConsoleEnds
  <2>1. PICK status \in {"running", "completed", "failed"} :
          /\ jobs' = IF mine = 0 THEN jobs ELSE [jobs EXCEPT ![mine].status = status]
          /\ done' = IF fine' /\ (kind # "rows" \/ (mine # 0 /\ status = "completed"))
                     THEN done \union {Head(todo)} ELSE done
    BY <1>11 DEF ConsoleEnds
  <2>2. /\ console = "up" /\ console' = "ended" /\ pc \in {"assign", "read"}
        /\ UNCHANGED <<kind, pc, todo, results, misled, mine>>
    BY <1>11, <1>c DEF ConsoleEnds, task
  <2>3. /\ todo \in Seq(Commands) /\ todo # <<>> /\ mine \in 0..Len(jobs)
        /\ jobs \in Seq(JobRow) /\ Len(jobs) \in Nat
    BY <1>0, <2>2 DEF TaskTypeOK, InOrder, AtCommand, Begun
  <2>4. Head(todo) \in Elements(todo)
    BY <2>3, HeadAndTail
  <2>5. \A c \in Elements(todo) : c \notin done
    BY <1>0, <2>2 DEF ResultsInOrder
  <2>6. mine # 0 => jobs'[mine].status = status
    <3>1. mine # 0 => mine \in DOMAIN jobs /\ jobs[mine] \in JobRow
      BY <2>3
    <3>2. QED
      BY <2>1, <3>1 DEF JobRow
  <2>7. Head(todo) \in done' <=> DidWell'
    BY <2>1, <2>2, <2>4, <2>5, <2>6 DEF DidWell
  <2>8. \A c \in Elements(todo) : c \in done' => c = Head(todo)
    BY <2>1, <2>5
  <2>9. Commands \ Elements(todo) \subseteq done' <=> Commands \ Elements(todo) \subseteq done
    BY <2>1, <2>4
  <2>10. ~misled => (results <=> Commands \ Elements(todo) \subseteq done)
    BY <1>0, <2>2 DEF ResultsInOrder
  <2>11. QED
    BY <1>a, <1>b, <2>2, <2>7, <2>8, <2>9, <2>10 DEF ResultsInOrder, Begun
<1>12. CASE AnotherRow
  <2>1. pc # "ended" /\ UNCHANGED <<kind, pc, todo, results, ok, done, misled, console, fine, mine>>
    BY <1>12 DEF AnotherRow, task, command, outcome
  <2>2. QED
    BY <1>0, <1>a, <1>b, <1>d, <2>1 DEF ResultsInOrder
<1>13. CASE UNCHANGED vars
  <2>1. UNCHANGED <<kind, pc, todo, results, ok, done, misled, console, fine, mine, jobs, code,
                    raised, requested>>
    BY <1>13 DEF vars, stop, task, command, misp, outcome
  <2>2. (DidWell' <=> DidWell) /\ (ExitTells' <=> ExitTells)
    BY <1>a, <2>1 DEF DidWell, ExitTells
  <2>3. QED
    BY <1>0, <1>a, <1>b, <2>1, <2>2 DEF ResultsInOrder
<1>14. QED
  BY <1>1, <1>2, <1>3, <1>4, <1>5, <1>6, <1>7, <1>8, <1>9, <1>10, <1>11, <1>12, <1>13
  DEF Next, Task

-----------------------------------------------------------------------------
(* What follows *)

LEMMA TaskRunOrderly == Spec => []TaskOrderly
<1>1. TaskOrderly /\ [Next]_vars => TaskOrderly'
  BY TypeStep, OrderStep, RowStep, ResultsStep DEF TaskOrderly
<1>2. QED
  BY InitOrderly, <1>1, PTL DEF Spec

(* For any servers and any rows that others write: two commands never run   *)
(* at once, and one at most begins after SIGTERM.                           *)
THEOREM TaskInvariant == Spec => []TaskInv
<1>1. TaskOrderly => TaskInv
  BY DEF TaskOrderly
<1>2. QED
  BY TaskRunOrderly, <1>1, PTL

(* The exit code of a CronJob's task (task.py: server_run, run) tells the   *)
(* truth about every one of its servers, unless a worker's row was taken    *)
(* for the command's or a query failed.                                     *)
THEOREM ExitIsTrue == Spec => []ExitTells
<1>1. TaskOrderly => ExitTells
  <2>1. SUFFICES ASSUME TaskOrderly, pc # "ended" PROVE ExitTells
    BY DEF TaskOrderly, ResultsInOrder
  <2>2. code = 2
    BY <2>1 DEF TaskOrderly, InOrder
  <2>3. QED
    BY <2>2 DEF ExitTells
<1>2. QED
  BY TaskRunOrderly, <1>1, PTL

(* A task that returns, also one that SIGTERM stopped between two servers,  *)
(* leaves no line of MISP's log files unrelayed.                            *)
THEOREM AllRelayed == Spec => []LinesRelayed
<1>1. TaskOrderly => LinesRelayed
  BY DEF TaskOrderly, InOrder, LinesRelayed, Begun
<1>2. QED
  BY TaskRunOrderly, <1>1, PTL
=============================================================================
