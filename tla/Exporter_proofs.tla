--------------------------- MODULE Exporter_proofs ---------------------------
(***************************************************************************)
(* The metrics exporter, for any clients, jobs and partners: what a scrape *)
(* has counted at each of its steps, and what holds between the queues it  *)
(* has read and the jobs that move meanwhile, are inductive.               *)
(***************************************************************************)
EXTENDS Exporter, FiniteSetTheorems, SequenceTheorems, TLAPS

(* The blocks whose turn has come before a step of the scrape, and the      *)
(* collectors that have not given theirs.                                   *)
Passed(step) ==
  IF step \in {"idle", "connect"} THEN {}
  ELSE IF step \in {"close", "queues", "scan"} THEN Block \ {"queues"}
  ELSE IF step \in {"net", "answer"} THEN Block
  ELSE IF step = "logs" THEN Block \ {"manual", "queues"}
  ELSE {Statements[i] : i \in {i \in 1..7 : \A k \in 1..i : Statements[k] # step}}
Lacking(step, got) == {Collector(b) : b \in Passed(step) \ got}
Missing(c) == Lacking(pc[c], blocks[c])

(* The errors so far are the collectors that are missing so far.            *)
ErrorsOf(c) ==
  /\ blocks[c] \subseteq Passed(pc[c])
  /\ pc[c] \in {"idle", "connect"} => up[c] = 0 /\ errors[c] = 0
  /\ pc[c] \in Connected => up[c] = 1
  /\ pc[c] = "syncs" => "jobs" \in blocks[c]
  /\ up[c] = 1 => errors[c] = Cardinality(Missing(c))
  /\ up[c] = 0 /\ pc[c] \notin {"idle", "connect"} =>
       /\ blocks[c] \subseteq {"queues"}
       /\ errors[c] = 1 + Cardinality(Missing(c) \intersect {"queues"})
ErrorsInOrder == \A c \in Client : ErrorsOf(c)

(* A job that was met and has not ended was counted with its queue, or runs *)
(* until SCAN has returned it.                                              *)
QueuesOf(c) ==
  /\ pc[c] \notin {"queues", "scan", "net", "answer"} => open[c] = {}
  /\ pc[c] = "queues" => open[c] \subseteq waited[c] \union {j \in Job : jobAt[j] = "running"}
  /\ pc[c] = "scan" => open[c] \subseteq waited[c] \union due[c]
  /\ "queues" \in blocks[c] => open[c] \subseteq waited[c] \union ran[c]
QueuesInOrder == \A c \in Client : QueuesOf(c)

(* While no run has come between another's read and write, no count that a  *)
(* scrape has read or shown is above the record's, and what a scrape is to  *)
(* show is not below what was shown before it; but for the counts that were *)
(* read or shown before a migration.                                        *)
CountersOf(c, s) ==
  /\ c \notin shownOld => shown[c].count[s] <= row.count[s]
  /\ c \notin readOld /\ "runs" \in blocks[c] => runs[c].count[s] <= row.count[s]
  /\ c \notin shownOld /\ "runs" \in blocks[c] => shown[c].count[s] <= runs[c].count[s]
CountersInOrder == ~overtaken => \A c \in Client, s \in Record!Status : CountersOf(c, s)

(* Only a whole round comes to be published. *)
RoundInOrder == RoundWhole /\ (check = "publish" => round.checked = round.of)

(* A scrape has its connection from the first statement to the close.       *)
ConnectionsInOrder ==
  \A c \in Client : conn[c] # "none" <=> pc[c] \in Connected

(* The inductive invariant. *)
ScrapesOrderly ==
  /\ TypeOK /\ seen \in [Proc -> Record!Row] /\ ConnectionsInOrder
  /\ RoundInOrder /\ ErrorsInOrder /\ QueuesInOrder /\ CountersInOrder

-----------------------------------------------------------------------------
(* The order of the collectors *)

LEMMA StatementList ==
  /\ DOMAIN Statements = 1..7
  /\ Statements[1] = "content" /\ Statements[2] = "servers" /\ Statements[3] = "jobs"
  /\ Statements[4] = "syncs" /\ Statements[5] = "scheduled" /\ Statements[6] = "runs"
  /\ Statements[7] = "manual"
  /\ Block = {"content", "servers", "jobs", "syncs", "scheduled", "runs", "manual", "queues"}
  /\ Own = {"content", "servers", "jobs", "syncs", "scheduled", "runs"}
<1>1. DOMAIN Statements = 1..7
  BY DEF Statements
<1>2. /\ Statements[1] = "content" /\ Statements[2] = "servers" /\ Statements[3] = "jobs"
      /\ Statements[4] = "syncs" /\ Statements[5] = "scheduled" /\ Statements[6] = "runs"
      /\ Statements[7] = "manual"
  BY DEF Statements
<1>3. \A i \in 1..7 : i = 1 \/ i = 2 \/ i = 3 \/ i = 4 \/ i = 5 \/ i = 6 \/ i = 7
  OBVIOUS
<1>4. {Statements[i] : i \in 1..7} =
        {"content", "servers", "jobs", "syncs", "scheduled", "runs", "manual"}
  BY <1>2, <1>3
<1>5. Block = {"content", "servers", "jobs", "syncs", "scheduled", "runs", "manual", "queues"}
  BY <1>1, <1>4 DEF Block
<1>6. QED
  BY <1>1, <1>2, <1>5 DEF Own

LEMMA AfterEach ==
  /\ After("content") = "servers" /\ After("servers") = "jobs" /\ After("jobs") = "syncs"
  /\ After("syncs") = "scheduled" /\ After("scheduled") = "runs" /\ After("runs") = "manual"
<1>1. \A i, k \in 1..7 : Statements[i] = Statements[k] => i = k
  <2>1. \A i \in 1..7 : i = 1 \/ i = 2 \/ i = 3 \/ i = 4 \/ i = 5 \/ i = 6 \/ i = 7
    OBVIOUS
  <2>2. QED
    BY <2>1, StatementList
<1>2. ASSUME NEW i \in 1..6, Statements[i] # "manual"
      PROVE  After(Statements[i]) = Statements[1 + i]
  <2>1. i \in DOMAIN Statements /\ \A k \in DOMAIN Statements : Statements[k] = Statements[i] => k = i
    BY <1>1, StatementList
  <2>2. (CHOOSE k \in DOMAIN Statements : Statements[k] = Statements[i]) = i
    BY <2>1
  <2>3. QED
    BY <1>2, <2>2 DEF After
<1>3. 1 \in 1..6 /\ 2 \in 1..6 /\ 3 \in 1..6 /\ 4 \in 1..6 /\ 5 \in 1..6 /\ 6 \in 1..6
  OBVIOUS
<1>4. 1 + 1 = 2 /\ 1 + 2 = 3 /\ 1 + 3 = 4 /\ 1 + 4 = 5 /\ 1 + 5 = 6 /\ 1 + 6 = 7
  OBVIOUS
<1>5. /\ After("content") = Statements[1 + 1] /\ After("servers") = Statements[1 + 2]
      /\ After("jobs") = Statements[1 + 3] /\ After("syncs") = Statements[1 + 4]
      /\ After("scheduled") = Statements[1 + 5] /\ After("runs") = Statements[1 + 6]
  BY <1>2, <1>3, StatementList
<1>6. QED
  BY <1>4, <1>5, StatementList

LEMMA PassedAt ==
  /\ Passed("idle") = {} /\ Passed("connect") = {} /\ Passed("content") = {}
  /\ Passed("servers") = {"content"} /\ Passed("jobs") = {"content", "servers"}
  /\ Passed("syncs") = {"content", "servers", "jobs"}
  /\ Passed("scheduled") = {"content", "servers", "jobs", "syncs"}
  /\ Passed("runs") = {"content", "servers", "jobs", "syncs", "scheduled"}
  /\ Passed("manual") = {"content", "servers", "jobs", "syncs", "scheduled", "runs"}
  /\ Passed("logs") = Passed("manual")
  /\ Passed("close") = Block \ {"queues"} /\ Passed("queues") = Block \ {"queues"}
  /\ Passed("scan") = Block \ {"queues"}
  /\ Passed("net") = Block /\ Passed("answer") = Block
<1> DEFINE Earlier(step) == {i \in 1..7 : \A k \in 1..i : Statements[k] # step}
<1>1. \A i \in 1..7 : i = 1 \/ i = 2 \/ i = 3 \/ i = 4 \/ i = 5 \/ i = 6 \/ i = 7
  OBVIOUS
<1>2. ASSUME NEW m \in 1..7
      PROVE  Earlier(Statements[m]) = 1..m - 1
  <2>1. \A i \in 1..7 : Statements[i] = Statements[m] => i = m
    BY <1>1, StatementList
  <2>2. \A i \in 1..7 : i > m - 1 => m \in 1..i
    OBVIOUS
  <2>3. \A i \in 1..m - 1 : i \in 1..7 /\ \A k \in 1..i : k \in 1..7 /\ k # m
    OBVIOUS
  <2>4. QED
    BY <2>1, <2>2, <2>3
<1>3. /\ Earlier("content") = 1..0 /\ Earlier("servers") = 1..1 /\ Earlier("jobs") = 1..2
      /\ Earlier("syncs") = 1..3 /\ Earlier("scheduled") = 1..4 /\ Earlier("runs") = 1..5
      /\ Earlier("manual") = 1..6
  <2>1. \A m \in 1..7 : Earlier(Statements[m]) = 1..m - 1
    BY <1>2
  <2> HIDE DEF Earlier
  <2>2. /\ 1 \in 1..7 /\ 2 \in 1..7 /\ 3 \in 1..7 /\ 4 \in 1..7 /\ 5 \in 1..7 /\ 6 \in 1..7 /\ 7 \in 1..7
        /\ 1 - 1 = 0 /\ 2 - 1 = 1 /\ 3 - 1 = 2 /\ 4 - 1 = 3 /\ 5 - 1 = 4 /\ 6 - 1 = 5 /\ 7 - 1 = 6
    OBVIOUS
  <2>3. QED
    BY <2>1, <2>2, StatementList
<1>4. \A step \in (Block \ {"queues"}) : Passed(step) = {Statements[i] : i \in Earlier(step)}
  BY StatementList DEF Passed
<1> HIDE DEF Earlier
<1>5. /\ 1..0 = {} /\ 1..1 = {1} /\ 1..2 = {1, 2} /\ 1..3 = {1, 2, 3} /\ 1..4 = {1, 2, 3, 4}
      /\ 1..5 = {1, 2, 3, 4, 5} /\ 1..6 = {1, 2, 3, 4, 5, 6}
  OBVIOUS
<1>6. Passed("content") = {} /\ Passed("servers") = {"content"}
  BY <1>3, <1>4, <1>5, StatementList
<1>7. Passed("jobs") = {"content", "servers"}
  BY <1>3, <1>4, <1>5, StatementList
<1>8. Passed("syncs") = {"content", "servers", "jobs"}
  BY <1>3, <1>4, <1>5, StatementList
<1>9. Passed("scheduled") = {"content", "servers", "jobs", "syncs"}
  BY <1>3, <1>4, <1>5, StatementList
<1>10. Passed("runs") = {"content", "servers", "jobs", "syncs", "scheduled"}
  BY <1>3, <1>4, <1>5, StatementList
<1>11. Passed("manual") = {"content", "servers", "jobs", "syncs", "scheduled", "runs"}
  BY <1>3, <1>4, <1>5, StatementList
<1>12. Passed("logs") = {"content", "servers", "jobs", "syncs", "scheduled", "runs"}
  BY StatementList DEF Passed
<1>13. QED
  BY <1>6, <1>7, <1>8, <1>9, <1>10, <1>11, <1>12 DEF Passed

-----------------------------------------------------------------------------
(* Types *)

Step == Block \union {"idle", "connect", "logs", "close", "scan", "net", "answer"}
JobSets == [Client -> SUBSET Job]

(* TypeOK, of what the scrapes have and of the rest.                        *)
ScrapeTypes ==
  /\ pc \in [Client -> Step] /\ conn \in [Client -> {"none", "open", "broken"}]
  /\ up \in [Client -> {0, 1}] /\ blocks \in [Client -> SUBSET Block]
  /\ errors \in [Client -> Nat] /\ left \in [Client -> Seq(Queue)]
  /\ runs \in [Client -> Record!Row] /\ shown \in [Client -> Record!Row]
  /\ waited \in JobSets /\ ran \in JobSets /\ due \in JobSets /\ open \in JobSets
WorldTypes ==
  /\ jobAt \in [Job -> JobState] /\ servers \in SUBSET Server /\ locked \subseteq {Settings, Logs}
  /\ check \in {"sleep", "check", "publish"}
  /\ round.of \subseteq Server /\ round.checked \subseteq round.of
  /\ netOutput.of \subseteq Server /\ netOutput.checked \subseteq netOutput.of
  /\ row \in Record!Row /\ events \in 0 .. MaxEvents
OldTypes == readOld \subseteq Client /\ shownOld \subseteq Client
Types == ScrapeTypes /\ WorldTypes /\ OldTypes

LEMMA TypeParts == (TypeOK <=> Types) /\ (TypeOK' <=> Types')
<1>1. TypeOK <=> Types
  BY DEF TypeOK, Types, ScrapeTypes, WorldTypes, OldTypes, Step, JobSets
<1>2. TypeOK' <=> Types'
  BY DEF TypeOK, Types, ScrapeTypes, WorldTypes, OldTypes, Step, JobSets
<1>3. QED
  BY <1>1, <1>2

LEMMA StepsOn ==
  /\ \A k \in Own : After(k) \in Step /\ AfterFailure(k) \in Step
  /\ {"idle", "connect", "content", "manual", "logs", "close", "queues", "scan", "net", "answer"} \subseteq Step
<1>1. \A k \in Own : After(k) \in Block \/ After(k) = "close"
  BY AfterEach, StatementList
<1>2. \A k \in Own : AfterFailure(k) \in Block \/ AfterFailure(k) = "close"
  BY <1>1, StatementList DEF AfterFailure
<1>3. QED
  BY <1>1, <1>2, StatementList DEF Step

LEMMA RowMade ==
  /\ Record!NoRow \in Record!Row
  /\ \A s \in Record!Status : Record!NoRow.count[s] = 0
  /\ \A r \in Record!Row, s \in Record!Status : r.count[s] \in Nat
  /\ \A p \in Proc, status \in Record!Status :
       seen \in [Proc -> Record!Row] /\ row \in Record!Row /\ Record!Write(p, status) =>
         /\ row' \in Record!Row /\ seen' \in [Proc -> Record!Row]
         /\ \A s \in Record!Status : row'.count[s] >= seen[p].count[s]
<1>1. Record!NoRow \in Record!Row /\ \A s \in Record!Status : Record!NoRow.count[s] = 0
  BY DEF Record!NoRow, Record!Row
<1>2. \A r \in Record!Row, s \in Record!Status : r.count[s] \in Nat
  BY DEF Record!Row
<1>3. ASSUME NEW p \in Proc, NEW status \in Record!Status,
             seen \in [Proc -> Record!Row], row \in Record!Row, Record!Write(p, status)
      PROVE  /\ row' \in Record!Row /\ seen' \in [Proc -> Record!Row]
             /\ \A s \in Record!Status : row'.count[s] >= seen[p].count[s]
  <2>1. /\ seen[p].count \in [Record!Status -> Nat] /\ seen[p].last \in [Record!Status -> Nat]
    BY <1>3 DEF Record!Row
  <2> DEFINE count == [seen[p].count EXCEPT ![status] = @ + 1]
             last == [seen[p].last EXCEPT ![status] = 0]
  <2>2. row' = [count |-> count, last |-> last] /\ seen' = [seen EXCEPT ![p] = Record!NoRow]
    BY <1>3 DEF Record!Write
  <2>3. count \in [Record!Status -> Nat] /\ last \in [Record!Status -> Nat]
    BY <2>1
  <2>4. \A s \in Record!Status : count[s] >= seen[p].count[s]
    BY <2>1
  <2> HIDE DEF count, last
  <2>5. row' \in Record!Row
    BY <2>2, <2>3 DEF Record!Row
  <2>6. QED
    BY <1>1, <1>3, <2>2, <2>4, <2>5
<1>4. QED
  BY <1>1, <1>2, <1>3

(* What the check thread and the others change.                             *)
LEMMA WorldType ==
  ASSUME Types, seen \in [Proc -> Record!Row], RoundInOrder, Check \/ World
  PROVE  Types' /\ seen' \in [Proc -> Record!Row] /\ RoundInOrder'
<1> USE DEF Types, ScrapeTypes, WorldTypes, OldTypes, RoundInOrder, RoundWhole, scrape, world, old, env,
            checks, recordVars
<1>1. Event => events' \in 0 .. MaxEvents
  BY ExporterAssumption DEF Event
<1>2. CASE ReadServers
  BY <1>2 DEF ReadServers
<1>3. ASSUME NEW s \in Server, CheckPartner(s)
      PROVE  Types' /\ seen' \in [Proc -> Record!Row] /\ RoundInOrder'
  <2>1. round'.of = round.of /\ round'.checked \subseteq round.of
    BY <1>3 DEF CheckPartner
  <2>2. QED
    BY <1>3, <2>1 DEF CheckPartner
<1>4. CASE RoundFails
  BY <1>1, <1>4 DEF RoundFails, NoRound
<1>5. CASE TakeNetLock
  BY <1>5 DEF TakeNetLock
<1>6. CASE Publish
  BY <1>6 DEF Publish, NoRound
<1>7. ASSUME NEW j \in Job, MoveJob(j)
      PROVE  Types' /\ seen' \in [Proc -> Record!Row] /\ RoundInOrder'
  BY <1>1, <1>7 DEF MoveJob, JobState, JobSets
<1>8. CASE EditServers
  BY <1>1, <1>8 DEF EditServers
<1>9. CASE LockTable
  BY <1>1, <1>9 DEF LockTable
<1>a. CASE Migrate
  <2>1. row' \in Record!Row /\ readOld' \subseteq Client /\ shownOld' \subseteq Client
    BY <1>a, RowMade DEF Migrate
  <2>2. QED
    BY <1>1, <1>a, <2>1 DEF Migrate
<1>10. ASSUME NEW p \in Proc, RecordRun(p)
       PROVE  Types' /\ seen' \in [Proc -> Record!Row] /\ RoundInOrder'
  <2>1. row' \in Record!Row /\ seen' \in [Proc -> Record!Row]
    <3>1. CASE Record!RunReads(p)
      BY <3>1 DEF Record!RunReads, Record!Read
    <3>2. CASE \E status \in Record!Status : Record!RunWrites(p, status)
      BY <3>2, RowMade DEF Record!RunWrites
    <3>3. QED
      BY <1>10, <3>1, <3>2 DEF RecordRun
  <2>2. QED
    BY <1>1, <1>10, <2>1 DEF RecordRun
<1>11. QED
  BY <1>2, <1>3, <1>4, <1>5, <1>6, <1>7, <1>8, <1>9, <1>a, <1>10 DEF Check, World

ScrapeOf(c) == Request(c) \/ ScrapeStep(c) \/ ScrapeFault(c)

(* What a scrape leaves alone: the others, and all that is not a scrape's.  *)
LEMMA OneScrape ==
  ASSUME Types, NEW c \in Client, ScrapeOf(c)
  PROVE  /\ UNCHANGED <<checks, env>>
         /\ \A d \in Client \ {c} :
              /\ pc'[d] = pc[d] /\ conn'[d] = conn[d] /\ up'[d] = up[d] /\ blocks'[d] = blocks[d]
              /\ errors'[d] = errors[d] /\ runs'[d] = runs[d] /\ waited'[d] = waited[d]
              /\ ran'[d] = ran[d] /\ due'[d] = due[d] /\ open'[d] = open[d] /\ shown'[d] = shown[d]
              /\ (d \in readOld' <=> d \in readOld) /\ (d \in shownOld' <=> d \in shownOld)
<1> USE DEF Types, ScrapeTypes, JobSets, Goto, Fail, world, old
<1>1. CASE Request(c) \/ Connect(c) \/ Collect(c) \/ TimeOut(c) \/ Manual(c) \/ Close(c)
  BY <1>1 DEF Request, Connect, Collect, TimeOut, Manual, Close
<1>2. CASE Length(c) \/ Scan(c) \/ ScanEnds(c) \/ Net(c) \/ Answer(c)
  BY <1>2 DEF Length, Scan, ScanEnds, Net, Answer
<1>3. CASE \E j \in Job : ScanReturns(c, j)
  BY <1>3 DEF ScanReturns
<1>4. CASE ScrapeFault(c)
  BY <1>4 DEF ScrapeFault, ConnectFails, StatementFails, ManualFails, QueuesFail
<1>5. QED
  BY <1>1, <1>2, <1>3, <1>4 DEF ScrapeOf, ScrapeStep

LEMMA ScrapeType ==
  ASSUME Types, NEW c \in Client, ScrapeOf(c)
  PROVE  Types'
<1>1. Event => events' \in 0 .. MaxEvents
  BY ExporterAssumption DEF Event, Types, WorldTypes
<1>2. Record!NoRow \in Record!Row /\ WorkerQueues \in Seq(Queue)
  BY RowMade, ExporterAssumption
<1>a. ScrapeTypes
  BY DEF Types
<1>b. WorldTypes'
  <2>1. events' = events \/ Event
    BY DEF ScrapeOf, ScrapeStep, ScrapeFault, Request, Connect, Collect, TimeOut, Manual, Close,
       Length, Scan, ScanReturns, ScanEnds, Net, Answer, ConnectFails, StatementFails, ManualFails,
       QueuesFail, world
  <2>2. events' \in 0 .. MaxEvents
    BY <1>1, <2>1 DEF Types, WorldTypes
  <2>3. UNCHANGED <<checks, env>>
    BY OneScrape
  <2>4. QED
    BY <2>2, <2>3 DEF Types, WorldTypes, checks, env, recordVars
<1>o. OldTypes'
  <2>1. \/ UNCHANGED old
        \/ /\ readOld' = readOld \ {c}
           /\ shownOld' \in {shownOld, shownOld \union {c}, shownOld \ {c}}
    <3> USE DEF old, Fail
    <3>1. CASE Answer(c)
      BY <3>1 DEF Answer
    <3>2. CASE ~ Answer(c)
      BY <3>2 DEF ScrapeOf, ScrapeStep, ScrapeFault, Request, Connect, Collect, TimeOut, Manual, Close,
         Length, Scan, ScanReturns, ScanEnds, Net, ConnectFails, StatementFails, ManualFails, QueuesFail
    <3>3. QED
      BY <3>1, <3>2
  <2>2. QED
    BY <2>1 DEF Types, OldTypes, old
<1>c. SUFFICES ScrapeTypes'
  BY <1>b, <1>o DEF Types
<1> USE <1>a, StepsOn DEF ScrapeTypes, JobSets, Goto, Fail
<1>3. CASE Request(c)
  BY <1>3 DEF Request
<1>4. CASE Connect(c)
  <2>1. pc' \in [Client -> Step] /\ conn' \in [Client -> {"none", "open", "broken"}]
    BY <1>4, StatementList DEF Connect
  <2>2. up' \in [Client -> {0, 1}]
    BY <1>4 DEF Connect
  <2>3. QED
    BY <1>4, <2>1, <2>2 DEF Connect
<1>5. CASE ConnectFails(c)
  BY <1>1, <1>5 DEF ConnectFails
<1>6. CASE Collect(c)
  <2>1. pc[c] \in Own /\ pc' = [pc EXCEPT ![c] = After(pc[c])]
    BY <1>6 DEF Collect
  <2>2. pc' \in [Client -> Step]
    BY <2>1
  <2>3. blocks' \in [Client -> SUBSET Block]
    BY <1>6 DEF Collect, Own
  <2>4. runs' \in [Client -> Record!Row]
    <3>1. row \in Record!Row
      BY DEF Types, WorldTypes
    <3>2. QED
      BY <1>6, <3>1 DEF Collect
  <2>5. QED
    BY <1>6, <2>2, <2>3, <2>4 DEF Collect
<1>7. CASE TimeOut(c) \/ StatementFails(c)
  <2>1. /\ pc[c] \in Own /\ pc' = [pc EXCEPT ![c] = AfterFailure(pc[c])]
        /\ UNCHANGED conn \/ \E state \in {"open", "broken"} : conn' = [conn EXCEPT ![c] = state]
        /\ errors' = [errors EXCEPT ![c] = @ + 1]
        /\ UNCHANGED <<up, blocks, runs, left, waited, ran, due, open, shown>>
    BY <1>7 DEF TimeOut, StatementFails
  <2>2. pc' \in [Client -> Step] /\ errors' \in [Client -> Nat]
    BY <2>1
  <2>3. conn' \in [Client -> {"none", "open", "broken"}]
    <3>1. CASE UNCHANGED conn
      BY <3>1
    <3>2. ASSUME NEW state \in {"open", "broken"}, conn' = [conn EXCEPT ![c] = state]
          PROVE  conn' \in [Client -> {"none", "open", "broken"}]
      BY <3>2
    <3>3. QED
      BY <2>1, <3>1, <3>2
  <2>4. QED
    BY <2>1, <2>2, <2>3
<1>8. CASE Manual(c)
  <2>1. blocks' \in [Client -> SUBSET Block]
    <3>1. UNCHANGED blocks \/ blocks' = [blocks EXCEPT ![c] = @ \union {"manual"}]
      BY <1>8 DEF Manual
    <3>2. "manual" \in Block
      BY StatementList
    <3>3. CASE blocks' = [blocks EXCEPT ![c] = @ \union {"manual"}]
      BY <3>2, <3>3
    <3>4. QED
      BY <3>1, <3>3
  <2>2. pc' \in [Client -> Step]
    <3>1. pc' = [pc EXCEPT ![c] = "logs"] \/ pc' = [pc EXCEPT ![c] = "close"]
      BY <1>8 DEF Manual
    <3>2. QED
      BY <3>1
  <2>3. QED
    BY <1>8, <2>1, <2>2 DEF Manual
<1>9. CASE ManualFails(c) \/ QueuesFail(c)
  <2>1. /\ errors' = [errors EXCEPT ![c] = @ + 1]
        /\ pc' = [pc EXCEPT ![c] = "close"] \/ pc' = [pc EXCEPT ![c] = "net"]
        /\ UNCHANGED <<conn, up, blocks, runs, left, waited, ran, due, open, shown>>
    <3> HIDE <1>a, StepsOn DEF ScrapeTypes, JobSets
    <3>1. QED
      BY <1>9 DEF ManualFails, QueuesFail
  <2>2. errors' \in [Client -> Nat]
    BY <2>1
  <2>3. QED
    BY <2>1, <2>2
<1>10. CASE Close(c)
  <2>1. conn' \in [Client -> {"none", "open", "broken"}] /\ pc' \in [Client -> Step]
    BY <1>10 DEF Close
  <2>2. up' \in [Client -> {0, 1}]
    BY <1>10 DEF Close
  <2>3. blocks' \in [Client -> SUBSET Block]
    BY <1>10 DEF Close
  <2>4. errors' \in [Client -> Nat]
    <3>1. UNCHANGED errors \/ errors' = [errors EXCEPT ![c] = 1]
      BY <1>10 DEF Close
    <3>2. QED
      BY <3>1
  <2>5. QED
    BY <1>10, <2>1, <2>2, <2>3, <2>4 DEF Close
<1>11. CASE Length(c)
  <2>1. left' \in [Client -> Seq(Queue)]
    <3>1. left[c] \in Seq(Queue) /\ left[c] # <<>> /\ left' = [left EXCEPT ![c] = Tail(@)]
      BY <1>11 DEF Length
    <3>2. Tail(left[c]) \in Seq(Queue)
      BY <3>1, HeadTailProperties
    <3>3. QED
      BY <3>1, <3>2
  <2>2. waited' \in JobSets /\ open' \in JobSets
    BY <1>11 DEF Length
  <2>3. QED
    BY <1>11, <2>1, <2>2 DEF Length
<1>12. CASE Scan(c)
  <2>1. due' \in JobSets
    BY <1>12 DEF Scan
  <2>2. QED
    BY <1>12, <2>1 DEF Scan
<1>13. CASE \E j \in Job : ScanReturns(c, j)
  <2>1. ran' \in JobSets
    BY <1>13 DEF ScanReturns
  <2>2. QED
    BY <1>13, <2>1 DEF ScanReturns
<1>14. CASE ScanEnds(c)
  <2>1. blocks' \in [Client -> SUBSET Block]
    BY <1>14, StatementList DEF ScanEnds
  <2>2. QED
    BY <1>14, <2>1 DEF ScanEnds
<1>15. CASE Net(c)
  BY <1>15 DEF Net
<1>16. CASE Answer(c)
  <2>1. /\ up' \in [Client -> {0, 1}] /\ blocks' \in [Client -> SUBSET Block]
        /\ errors' \in [Client -> Nat] /\ pc' \in [Client -> Step]
    BY <1>16 DEF Answer
  <2>2. runs' \in [Client -> Record!Row] /\ left' \in [Client -> Seq(Queue)]
    BY <1>2, <1>16 DEF Answer
  <2>3. waited' \in JobSets /\ ran' \in JobSets /\ due' \in JobSets /\ open' \in JobSets
    BY <1>16 DEF Answer
  <2>4. shown' \in [Client -> Record!Row]
    BY <1>16 DEF Answer
  <2>5. QED
    BY <1>16, <2>1, <2>2, <2>3, <2>4 DEF Answer
<1>17. QED
  BY <1>3, <1>4, <1>5, <1>6, <1>7, <1>8, <1>9, <1>10, <1>11, <1>12, <1>13, <1>14, <1>15, <1>16
  DEF ScrapeOf, ScrapeStep, ScrapeFault

LEMMA ConnectionStep ==
  ASSUME Types, ConnectionsInOrder, NEW c \in Client, ScrapeOf(c)
  PROVE  ConnectionsInOrder'
<1>0. /\ conn[c] # "none" <=> pc[c] \in Connected
      /\ pc \in [Client -> Step] /\ conn \in [Client -> {"none", "open", "broken"}]
  BY DEF ConnectionsInOrder, Connected, Types, ScrapeTypes
<1>1. /\ {"content", "manual", "logs", "close"} \subseteq Connected /\ Own \subseteq Connected
      /\ {"idle", "connect", "queues", "scan", "net", "answer"} \intersect Connected = {}
      /\ \A k \in Own : After(k) \in Connected /\ AfterFailure(k) \in Connected
  BY StatementList, AfterEach DEF Connected, AfterFailure
<1>2. conn'[c] # "none" <=> pc'[c] \in Connected
  <2> USE <1>0, <1>1 DEF Goto
  <2> HIDE DEF Connected
  <2>1. CASE Request(c) \/ ConnectFails(c)
    BY <2>1 DEF Request, ConnectFails
  <2>2. CASE Connect(c)
    BY <2>2, StatementList DEF Connect
  <2>3. CASE Collect(c)
    BY <2>3 DEF Collect
  <2>4. CASE TimeOut(c) \/ StatementFails(c)
    <3>1. /\ pc[c] \in Own /\ pc'[c] = AfterFailure(pc[c])
          /\ conn'[c] = conn[c] \/ conn'[c] = "open" \/ conn'[c] = "broken"
      BY <2>4 DEF TimeOut, StatementFails, Fail
    <3>2. QED
      BY <3>1
  <2>5. CASE Manual(c) \/ ManualFails(c)
    BY <2>5 DEF Manual, ManualFails, Fail
  <2>6. CASE Close(c)
    BY <2>6 DEF Close
  <2>7. CASE Length(c) \/ \E j \in Job : ScanReturns(c, j)
    BY <2>7 DEF Length, ScanReturns
  <2>8. CASE Scan(c) \/ ScanEnds(c) \/ QueuesFail(c) \/ Net(c) \/ Answer(c)
    BY <2>8 DEF Scan, ScanEnds, QueuesFail, Fail, Net, Answer
  <2>9. QED
    BY <2>1, <2>2, <2>3, <2>4, <2>5, <2>6, <2>7, <2>8 DEF ScrapeOf, ScrapeStep, ScrapeFault
<1>3. \A d \in Client \ {c} : pc'[d] = pc[d] /\ conn'[d] = conn[d]
  BY OneScrape
<1>4. QED
  BY <1>2, <1>3 DEF ConnectionsInOrder, Connected

-----------------------------------------------------------------------------
(* The errors of a scrape *)

LEMMA LackingFinite ==
  \A step, got : IsFiniteSet(Lacking(step, got)) /\ Cardinality(Lacking(step, got)) \in Nat
<1>1. IsFiniteSet(Block)
  <2>1. IsFiniteSet({}) /\ \A S, x : IsFiniteSet(S) => IsFiniteSet(S \union {x})
    BY FS_EmptySet, FS_AddElement
  <2>2. IsFiniteSet({} \union {"content"} \union {"servers"} \union {"jobs"} \union {"syncs"}
                    \union {"scheduled"} \union {"runs"} \union {"manual"} \union {"queues"})
    BY <2>1, Zenon
  <2>3. Block = {} \union {"content"} \union {"servers"} \union {"jobs"} \union {"syncs"}
                   \union {"scheduled"} \union {"runs"} \union {"manual"} \union {"queues"}
    BY StatementList
  <2>4. QED
    BY <2>2, <2>3
<1>2. ASSUME NEW step, NEW got
      PROVE  Lacking(step, got) \subseteq Block
  <2>1. Passed(step) \subseteq Block
    BY StatementList DEF Passed, Block
  <2>2. \A b \in Block : Collector(b) \in Block
    BY StatementList DEF Collector
  <2>3. QED
    BY <2>1, <2>2 DEF Lacking
<1>3. QED
  BY <1>1, <1>2, FS_Subset, FS_CardinalityType

LEMMA PassedAfter ==
  /\ \A k \in Own \union {"manual"} :
       /\ Passed(After(k)) = Passed(k) \union {k} /\ k \notin Passed(k)
       /\ k # "jobs" => AfterFailure(k) = After(k)
       /\ After(k) = "syncs" => k = "jobs"
  /\ Passed(AfterFailure("jobs")) = Passed("jobs") \union {"jobs", "syncs"}
  /\ "syncs" \notin Passed("jobs") /\ AfterFailure("jobs") # "syncs"
<1>1. Passed(After("manual")) = Passed("manual") \union {"manual"} /\ After("manual") # "syncs"
  BY PassedAt, StatementList DEF After
<1>2. \A k \in Own : Passed(After(k)) = Passed(k) \union {k} /\ (After(k) = "syncs" => k = "jobs")
  BY AfterEach, PassedAt, StatementList
<1>3. \A k \in Own \union {"manual"} : k \notin Passed(k)
  BY PassedAt, StatementList
<1>4. AfterFailure("jobs") = "scheduled"
  BY AfterEach DEF AfterFailure
<1>5. QED
  BY <1>1, <1>2, <1>3, <1>4, PassedAt DEF AfterFailure

(* A collector that gives its block adds nothing to what is lacking, one    *)
(* that fails adds itself.                                                  *)
LEMMA LackingAfter ==
  ASSUME NEW k \in Own \union {"manual"}, NEW got, got \subseteq Passed(k),
         k = "syncs" => "jobs" \in got
  PROVE  /\ Lacking(After(k), got \union {k}) = Lacking(k, got)
         /\ got \union {k} \subseteq Passed(After(k)) /\ got \subseteq Passed(AfterFailure(k))
         /\ Lacking(AfterFailure(k), got) = Lacking(k, got) \union {Collector(k)}
         /\ Collector(k) \notin Lacking(k, got)
<1>1. /\ Passed(After(k)) = Passed(k) \union {k} /\ k \notin Passed(k)
      /\ k # "jobs" => AfterFailure(k) = After(k)
  BY PassedAfter
<1>2. Passed(After(k)) \ (got \union {k}) = Passed(k) \ got
  BY <1>1
<1>3. CASE k # "jobs"
  <2>1. Passed(AfterFailure(k)) \ got = (Passed(k) \ got) \union {k}
    BY <1>1, <1>3
  <2>2. \A b \in Passed(k) \ got : Collector(b) # Collector(k)
    <3>1. CASE k = "syncs"
      BY <3>1, PassedAt DEF Collector
    <3>2. CASE k # "syncs"
      BY <1>1, <1>3, <3>2 DEF Collector
    <3>3. QED
      BY <3>1, <3>2
  <2>3. QED
    BY <1>1, <1>2, <1>3, <2>1, <2>2 DEF Lacking
<1>4. CASE k = "jobs"
  <2>1. Passed(AfterFailure(k)) \ got = (Passed(k) \ got) \union {"jobs", "syncs"}
    BY <1>1, <1>4, PassedAfter
  <2>2. Collector("jobs") = "jobs" /\ Collector("syncs") = "jobs"
    BY DEF Collector
  <2>3. \A b \in Passed(k) \ got : Collector(b) # "jobs"
    BY <1>4, PassedAt DEF Collector
  <2>4. QED
    BY <1>1, <1>2, <1>4, <2>1, <2>2, <2>3, PassedAfter DEF Lacking
<1>5. QED
  BY <1>3, <1>4

LEMMA LackingQueues ==
  ASSUME NEW got
  PROVE  /\ Lacking("queues", got) = Lacking("close", got)
         /\ Lacking("scan", got) = Lacking("queues", got)
         /\ Lacking("answer", got) = Lacking("net", got)
         /\ Lacking("net", got \union {"queues"}) = Lacking("scan", got)
         /\ "queues" \notin Lacking("scan", got)
         /\ "queues" \notin got => Lacking("net", got) = Lacking("scan", got) \union {"queues"}
<1>1. /\ Passed("close") = Block \ {"queues"} /\ Passed("queues") = Block \ {"queues"}
      /\ Passed("scan") = Block \ {"queues"} /\ Passed("net") = Block /\ Passed("answer") = Block
      /\ "queues" \in Block
  BY PassedAt, StatementList
<1>2. Block \ (got \union {"queues"}) = (Block \ {"queues"}) \ got
  OBVIOUS
<1>3. "queues" \notin got => Block \ got = ((Block \ {"queues"}) \ got) \union {"queues"}
  BY <1>1
<1>4. Collector("queues") = "queues" /\ \A b : b # "queues" => Collector(b) # "queues"
  BY DEF Collector
<1>5. QED
  BY <1>1, <1>2, <1>3, <1>4 DEF Lacking

LEMMA ErrorsStep ==
  ASSUME Types, ErrorsInOrder, NEW c \in Client, ScrapeOf(c)
  PROVE  ErrorsInOrder'
<1>0. /\ ErrorsOf(c) /\ up[c] \in {0, 1} /\ errors[c] \in Nat
      /\ pc \in [Client -> Step] /\ up \in [Client -> {0, 1}] /\ errors \in [Client -> Nat]
      /\ blocks \in [Client -> SUBSET Block]
  BY DEF ErrorsInOrder, Types, ScrapeTypes
<1>1. /\ Block = {"content", "servers", "jobs", "syncs", "scheduled", "runs", "manual", "queues"}
      /\ Own = {"content", "servers", "jobs", "syncs", "scheduled", "runs"}
  BY StatementList
(* A scrape that goes on with nothing collected, because the database, or the close, failed. *)
<1>2. ASSUME pc'[c] = "queues", up'[c] = 0, blocks'[c] = {}, errors'[c] = 1
      PROVE  ErrorsOf(c)'
  <2>1. "queues" \notin Lacking("queues", {})
    BY LackingQueues
  <2>2. Cardinality(Lacking("queues", {}) \intersect {"queues"}) = 0
    BY <2>1, FS_EmptySet
  <2>3. QED
    BY <1>1, <1>2, <2>2 DEF ErrorsOf, Connected, Missing
(* A collector of the database that has given its block. *)
<1>k. ASSUME NEW k \in Own \union {"manual"}, pc[c] = k \/ (k = "manual" /\ pc[c] = "logs")
      PROVE  /\ up[c] = 1 /\ errors[c] = Cardinality(Missing(c)) /\ blocks[c] \subseteq Passed(k)
             /\ Missing(c) = Lacking(k, blocks[c]) /\ (k = "syncs" => "jobs" \in blocks[c])
  <2>1. up[c] = 1
    BY <1>0, <1>1, <1>k DEF ErrorsOf, Connected
  <2>2. Passed(pc[c]) = Passed(k)
    BY <1>k, PassedAt
  <2>3. QED
    BY <1>0, <1>k, <2>1, <2>2 DEF ErrorsOf, Missing, Lacking
<1>3. ASSUME NEW k \in Own \union {"manual"}, pc[c] = k \/ (k = "manual" /\ pc[c] = "logs"),
             pc'[c] = After(k), up'[c] = up[c], errors'[c] = errors[c], blocks'[c] = blocks[c] \union {k}
      PROVE  ErrorsOf(c)'
  <2>1. /\ up[c] = 1 /\ errors[c] = Cardinality(Missing(c)) /\ blocks[c] \subseteq Passed(k)
        /\ Missing(c) = Lacking(k, blocks[c]) /\ (k = "syncs" => "jobs" \in blocks[c])
    BY <1>3, <1>k
  <2>2. /\ Lacking(After(k), blocks'[c]) = Missing(c)
        /\ blocks'[c] \subseteq Passed(pc'[c])
    BY <1>3, <2>1, LackingAfter
  <2>3. pc'[c] \notin {"idle", "connect"} /\ (pc'[c] = "syncs" => "jobs" \in blocks'[c])
    <3>1. After("manual") = "close"
      BY DEF After
    <3>2. QED
      BY <1>1, <1>3, <3>1, AfterEach
  <2>4. QED
    BY <1>3, <2>1, <2>2, <2>3 DEF ErrorsOf, Missing
(* One that has failed. *)
<1>4. ASSUME NEW k \in Own \union {"manual"}, pc[c] = k \/ (k = "manual" /\ pc[c] = "logs"),
             pc'[c] = AfterFailure(k), up'[c] = up[c], errors'[c] = errors[c] + 1, blocks'[c] = blocks[c]
      PROVE  ErrorsOf(c)'
  <2>1. /\ up[c] = 1 /\ errors[c] = Cardinality(Missing(c)) /\ blocks[c] \subseteq Passed(k)
        /\ Missing(c) = Lacking(k, blocks[c]) /\ (k = "syncs" => "jobs" \in blocks[c])
    BY <1>4, <1>k
  <2>2. /\ Lacking(AfterFailure(k), blocks[c]) = Missing(c) \union {Collector(k)}
        /\ Collector(k) \notin Missing(c)
        /\ blocks[c] \subseteq Passed(AfterFailure(k))
    BY <2>1, LackingAfter
  <2>3. Cardinality(Missing(c) \union {Collector(k)}) = Cardinality(Missing(c)) + 1
    BY <2>2, LackingFinite, FS_AddElement DEF Missing
  <2>4. pc'[c] \notin {"idle", "connect", "syncs"}
    <3>1. After("manual") = "close"
      BY DEF After
    <3>2. QED
      BY <1>1, <1>4, <3>1, AfterEach DEF AfterFailure
  <2>5. /\ Missing(c)' = Missing(c) \union {Collector(k)}
        /\ errors'[c] = Cardinality(Missing(c)')
    BY <1>4, <2>1, <2>2, <2>3 DEF Missing
  <2>6. QED
    BY <1>4, <2>1, <2>2, <2>4, <2>5 DEF ErrorsOf
<1>5. ErrorsOf(c)'
  <2> USE DEF Goto
  <2>1. CASE Request(c)
    <3>1. pc[c] = "idle" /\ pc'[c] = "connect" /\ UNCHANGED <<up, blocks, errors>>
      BY <1>0, <2>1 DEF Request
    <3>2. blocks[c] = {} /\ up[c] = 0 /\ errors[c] = 0
      BY <1>0, <3>1, PassedAt DEF ErrorsOf, Connected
    <3>3. QED
      BY <1>1, <3>1, <3>2 DEF ErrorsOf, Connected
  <2>2. CASE Connect(c) \/ ConnectFails(c)
    <3>1. pc[c] = "connect"
      BY <2>2 DEF Connect, ConnectFails
    <3>2. blocks[c] = {} /\ up[c] = 0 /\ errors[c] = 0
      BY <1>0, <3>1, PassedAt DEF ErrorsOf, Connected
    <3>3. CASE Connect(c)
      <4>1. pc'[c] = "content" /\ up'[c] = 1 /\ blocks'[c] = {} /\ errors'[c] = 0
        BY <1>0, <3>2, <3>3, StatementList DEF Connect
      <4>2. Lacking("content", {}) = {}
        BY PassedAt DEF Lacking
      <4>3. QED
        BY <4>1, <4>2, FS_EmptySet DEF ErrorsOf, Missing
    <3>4. CASE ConnectFails(c)
      <4>1. pc'[c] = "queues" /\ up'[c] = 0 /\ blocks'[c] = {} /\ errors'[c] = 1
        BY <1>0, <3>2, <3>4 DEF ConnectFails
      <4>2. QED
        BY <1>2, <4>1
    <3>5. QED
      BY <2>2, <3>3, <3>4
  <2>3. CASE Collect(c)
    BY <1>0, <1>3, <2>3 DEF Collect
  <2>4. CASE TimeOut(c) \/ StatementFails(c)
    BY <1>0, <1>4, <2>4 DEF TimeOut, StatementFails, Fail
  <2>5. CASE Manual(c)
    <3>1. /\ pc[c] \in {"manual", "logs"} /\ up'[c] = up[c] /\ errors'[c] = errors[c]
          /\ \/ pc[c] = "manual" /\ pc'[c] = "logs" /\ blocks'[c] = blocks[c]
             \/ pc'[c] = "close" /\ blocks'[c] = blocks[c] \union {"manual"}
      BY <1>0, <2>5 DEF Manual
    <3>2. CASE pc[c] = "manual" /\ pc'[c] = "logs" /\ blocks'[c] = blocks[c]
      <4>1. up[c] = 1 /\ errors[c] = Cardinality(Missing(c)) /\ blocks[c] \subseteq Passed("manual")
        BY <1>k, <3>2
      <4>2. Missing(c)' = Missing(c) /\ Passed("logs") = Passed("manual")
        BY <3>2, PassedAt DEF Missing, Lacking
      <4>3. QED
        BY <3>1, <3>2, <4>1, <4>2 DEF ErrorsOf
    <3>3. CASE pc'[c] = "close" /\ blocks'[c] = blocks[c] \union {"manual"}
      <4>1. After("manual") = "close"
        BY DEF After
      <4>2. QED
        BY <1>3, <3>1, <3>3, <4>1
    <3>4. QED
      BY <3>1, <3>2, <3>3
  <2>6. CASE ManualFails(c)
    <3>1. /\ pc[c] \in {"manual", "logs"} /\ pc'[c] = "close" /\ up'[c] = up[c]
          /\ errors'[c] = errors[c] + 1 /\ blocks'[c] = blocks[c]
      BY <1>0, <2>6 DEF ManualFails, Fail
    <3>2. AfterFailure("manual") = "close"
      BY DEF After, AfterFailure
    <3>3. QED
      BY <1>4, <3>1, <3>2
  <2>7. CASE Close(c)
    <3>1. pc[c] = "close" /\ pc'[c] = "queues"
      BY <1>0, <2>7 DEF Close
    <3>2. CASE UNCHANGED <<up, blocks, errors>>
      <4>1. Passed("close") = Passed("queues") /\ up[c] = 1
        BY <1>0, <3>1, PassedAt DEF ErrorsOf, Connected
      <4>2. QED
        BY <1>0, <3>1, <3>2, <4>1, LackingQueues DEF ErrorsOf, Missing
    <3>3. CASE ~ UNCHANGED <<up, blocks, errors>>
      BY <1>0, <1>2, <2>7, <3>1, <3>3 DEF Close
    <3>4. QED
      BY <3>2, <3>3
  <2>8. CASE Length(c) \/ \E j \in Job : ScanReturns(c, j)
    <3>1. UNCHANGED <<pc, up, blocks, errors>>
      BY <2>8 DEF Length, ScanReturns
    <3>2. QED
      BY <1>0, <3>1 DEF ErrorsOf, Missing
  <2>9. CASE Scan(c)
    <3>1. pc[c] = "queues" /\ pc'[c] = "scan" /\ UNCHANGED <<up, blocks, errors>>
      BY <1>0, <2>9 DEF Scan
    <3>2. Passed("queues") = Passed("scan")
      BY PassedAt
    <3>3. QED
      BY <1>0, <1>1, <3>1, <3>2, LackingQueues DEF ErrorsOf, Connected, Missing
  <2>10. CASE ScanEnds(c)
    <3>1. /\ pc[c] = "scan" /\ pc'[c] = "net" /\ blocks'[c] = blocks[c] \union {"queues"}
          /\ UNCHANGED <<up, errors>>
      BY <1>0, <2>10 DEF ScanEnds
    <3>2. blocks'[c] \subseteq Passed("net")
      BY <1>0, <1>1, <3>1, PassedAt DEF ErrorsOf
    <3>3. QED
      BY <1>0, <1>1, <3>1, <3>2, LackingQueues DEF ErrorsOf, Connected, Missing
  <2>11. CASE QueuesFail(c)
    <3>1. /\ pc[c] \in {"queues", "scan"} /\ pc'[c] = "net" /\ errors'[c] = errors[c] + 1
          /\ UNCHANGED <<up, blocks>>
      BY <1>0, <2>11 DEF QueuesFail, Fail
    <3>2. /\ Passed(pc[c]) = Block \ {"queues"} /\ "queues" \notin blocks[c]
          /\ blocks[c] \subseteq Passed("net")
      BY <1>0, <3>1, PassedAt DEF ErrorsOf, Connected
    <3>3. "queues" \notin Missing(c) /\ Missing(c)' = Missing(c) \union {"queues"}
      BY <3>1, <3>2, LackingQueues DEF Missing
    <3>4. CASE up[c] = 1
      <4>1. Cardinality(Missing(c) \union {"queues"}) = Cardinality(Missing(c)) + 1
        BY <3>3, LackingFinite, FS_AddElement DEF Missing
      <4>2. errors'[c] = Cardinality(Missing(c)')
        BY <1>0, <3>1, <3>3, <3>4, <4>1 DEF ErrorsOf
      <4>3. QED
        BY <3>1, <3>2, <3>4, <4>2 DEF ErrorsOf
    <3>5. CASE up[c] = 0
      <4>1. Missing(c) \intersect {"queues"} = {} /\ Missing(c)' \intersect {"queues"} = {"queues"}
        BY <3>3
      <4>2. errors[c] = 1 + 0 /\ blocks[c] \subseteq {"queues"}
        BY <1>0, <3>1, <3>5, <4>1, FS_EmptySet DEF ErrorsOf
      <4>3. Cardinality(Missing(c)' \intersect {"queues"}) = 1
        BY <4>1, FS_Singleton
      <4>4. errors'[c] = 1 + Cardinality(Missing(c)' \intersect {"queues"})
        BY <3>1, <4>2, <4>3
      <4>5. QED
        BY <1>1, <3>1, <3>2, <3>5, <4>2, <4>4 DEF ErrorsOf, Connected
    <3>6. QED
      BY <1>0, <3>4, <3>5
  <2>12. CASE Net(c)
    <3>1. pc[c] = "net" /\ pc'[c] = "answer" /\ UNCHANGED <<up, blocks, errors>>
      BY <1>0, <2>12 DEF Net
    <3>2. Passed("net") = Passed("answer")
      BY PassedAt
    <3>3. QED
      BY <1>0, <1>1, <3>1, <3>2, LackingQueues DEF ErrorsOf, Connected, Missing
  <2>13. CASE Answer(c)
    <3>1. pc'[c] = "idle" /\ up'[c] = 0 /\ blocks'[c] = {} /\ errors'[c] = 0
      BY <1>0, <2>13 DEF Answer
    <3>2. QED
      BY <1>1, <3>1 DEF ErrorsOf, Connected
  <2>14. QED
    BY <2>1, <2>2, <2>3, <2>4, <2>5, <2>6, <2>7, <2>8, <2>9, <2>10, <2>11, <2>12, <2>13
    DEF ScrapeOf, ScrapeStep, ScrapeFault
<1>6. ASSUME NEW d \in Client \ {c}
      PROVE  ErrorsOf(d)'
  <2>1. pc'[d] = pc[d] /\ up'[d] = up[d] /\ blocks'[d] = blocks[d] /\ errors'[d] = errors[d]
    BY OneScrape
  <2>2. ErrorsOf(d)
    BY DEF ErrorsInOrder
  <2>3. QED
    BY <2>1, <2>2 DEF ErrorsOf, Missing
<1>7. QED
  BY <1>5, <1>6 DEF ErrorsInOrder

-----------------------------------------------------------------------------
(* The jobs in the queues *)

(* The block of the queues comes after all others. *)
LEMMA QueuesLast ==
  ASSUME ErrorsInOrder, NEW c \in Client, pc[c] \in Step, "queues" \in blocks[c]
  PROVE  pc[c] \in {"net", "answer"}
<1>1. "queues" \in Passed(pc[c])
  BY DEF ErrorsInOrder, ErrorsOf
<1>2. QED
  BY <1>1, PassedAt, StatementList DEF Step

LEMMA QueuesStep ==
  ASSUME Types, ErrorsInOrder, QueuesInOrder, NEW c \in Client, ScrapeOf(c)
  PROVE  QueuesInOrder'
<1>0. /\ QueuesOf(c) /\ pc[c] \in Step
      /\ pc \in [Client -> Step] /\ blocks \in [Client -> SUBSET Block]
      /\ waited \in JobSets /\ ran \in JobSets /\ due \in JobSets /\ open \in JobSets
      /\ jobAt' = jobAt
  BY OneScrape DEF QueuesInOrder, Types, ScrapeTypes, env
<1>1. /\ Own = {"content", "servers", "jobs", "syncs", "scheduled", "runs"}
      /\ "queues" \in blocks[c] => pc[c] \in {"net", "answer"}
  BY <1>0, StatementList, QueuesLast
<1>2. ASSUME pc[c] \notin {"queues", "scan", "net", "answer"}, UNCHANGED <<open, waited>>,
             pc'[c] \notin {"scan", "net", "answer"}, "queues" \notin blocks'[c]
      PROVE  QueuesOf(c)'
  BY <1>0, <1>2 DEF QueuesOf
<1>3. QueuesOf(c)'
  <2> USE <1>0, <1>1 DEF Goto, JobSets
  <2>1. CASE Request(c) \/ Connect(c) \/ ConnectFails(c)
    BY <1>2, <2>1, StatementList DEF Request, Connect, ConnectFails
  <2>2. CASE Collect(c) \/ TimeOut(c) \/ StatementFails(c)
    <3>1. /\ pc[c] \in Own /\ pc'[c] \in {After(pc[c]), AfterFailure(pc[c])}
          /\ UNCHANGED <<open, waited>> /\ blocks'[c] \subseteq blocks[c] \union {pc[c]}
      BY <2>2 DEF Collect, TimeOut, StatementFails, Fail
    <3>2. pc'[c] \notin {"scan", "net", "answer"}
      BY <3>1, AfterEach DEF AfterFailure
    <3>3. QED
      BY <1>2, <3>1, <3>2
  <2>3. CASE Manual(c) \/ ManualFails(c) \/ Close(c)
    BY <1>2, <2>3 DEF Manual, ManualFails, Close, Fail
  <2>4. CASE Length(c)
    <3> DEFINE here == {j \in Job : QueueOf[j] = Head(left[c])}
    <3>1. /\ pc[c] = "queues" /\ UNCHANGED <<pc, blocks>>
          /\ waited'[c] = waited[c] \union {j \in here : jobAt[j] = "waiting"}
          /\ open'[c] = open[c] \union {j \in here : jobAt[j] \in {"waiting", "running"}}
      BY <2>4 DEF Length
    <3>2. QED
      BY <3>1 DEF QueuesOf
  <2>5. CASE Scan(c)
    <3>1. /\ pc[c] = "queues" /\ pc'[c] = "scan" /\ UNCHANGED <<open, waited, blocks>>
          /\ due'[c] = {j \in Job : jobAt[j] = "running"}
      BY <2>5 DEF Scan
    <3>2. QED
      BY <3>1 DEF QueuesOf
  <2>6. CASE \E j \in Job : ScanReturns(c, j)
    <3>1. pc[c] = "scan" /\ UNCHANGED <<pc, open, waited, due, blocks>>
      BY <2>6 DEF ScanReturns
    <3>2. QED
      BY <3>1 DEF QueuesOf
  <2>7. CASE ScanEnds(c)
    <3>1. /\ pc[c] = "scan" /\ pc'[c] = "net" /\ due[c] \subseteq ran[c]
          /\ UNCHANGED <<open, waited, ran>>
      BY <2>7 DEF ScanEnds
    <3>2. QED
      BY <3>1 DEF QueuesOf
  <2>8. CASE QueuesFail(c)
    <3>1. pc[c] \in {"queues", "scan"} /\ pc'[c] = "net" /\ UNCHANGED blocks
      BY <2>8 DEF QueuesFail, Fail
    <3>2. QED
      BY <3>1 DEF QueuesOf
  <2>9. CASE Net(c)
    <3>1. pc[c] = "net" /\ pc'[c] = "answer" /\ UNCHANGED <<open, waited, ran, blocks>>
      BY <2>9 DEF Net
    <3>2. QED
      BY <3>1 DEF QueuesOf
  <2>10. CASE Answer(c)
    <3>1. pc'[c] = "idle" /\ open'[c] = {} /\ blocks'[c] = {}
      BY <2>10 DEF Answer, Types, ScrapeTypes
    <3>2. QED
      BY <3>1 DEF QueuesOf
  <2>11. QED
    BY <2>1, <2>2, <2>3, <2>4, <2>5, <2>6, <2>7, <2>8, <2>9, <2>10
    DEF ScrapeOf, ScrapeStep, ScrapeFault
<1>4. ASSUME NEW d \in Client \ {c}
      PROVE  QueuesOf(d)'
  <2>1. /\ pc'[d] = pc[d] /\ waited'[d] = waited[d] /\ blocks'[d] = blocks[d]
        /\ ran'[d] = ran[d] /\ due'[d] = due[d] /\ open'[d] = open[d]
    BY OneScrape
  <2>2. QueuesOf(d)
    BY DEF QueuesInOrder
  <2>3. QED
    BY <1>0, <2>1, <2>2 DEF QueuesOf
<1>5. QED
  BY <1>3, <1>4 DEF QueuesInOrder

-----------------------------------------------------------------------------
(* The counter of runs *)

(* What falls for c, and what may.                                          *)
Falls(c, s) == shown'[c].count[s] < shown[c].count[s]
MayFall(c) == overtaken \/ c \in shownOld

LEMMA CountersStep ==
  ASSUME Types, CountersInOrder, NEW c \in Client, ScrapeOf(c)
  PROVE  /\ CountersInOrder'
         /\ \A d \in Client, s \in Record!Status : Falls(d, s) => MayFall(d)
<1>0. /\ row \in Record!Row /\ \A d \in Client : shown[d] \in Record!Row /\ runs[d] \in Record!Row
      /\ blocks \in [Client -> SUBSET Block] /\ runs \in [Client -> Record!Row]
      /\ shown \in [Client -> Record!Row]
      /\ row' = row /\ overtaken' = overtaken
  BY OneScrape DEF Types, ScrapeTypes, WorldTypes, env, recordVars
<1>1. ASSUME NEW s \in Record!Status
      PROVE  /\ row.count[s] \in Nat /\ Record!NoRow.count[s] = 0
             /\ \A d \in Client : shown[d].count[s] \in Nat /\ runs[d].count[s] \in Nat
  BY <1>0, RowMade
<1> DEFINE Keeps == /\ UNCHANGED <<shown, old>> /\ runs'[c] = runs[c]
                    /\ "runs" \in blocks'[c] => "runs" \in blocks[c]
           Reads == UNCHANGED <<shown, old>> /\ runs'[c] = row
           Tells == /\ runs'[c] = Record!NoRow /\ blocks'[c] = {}
                    /\ \/ UNCHANGED <<shown, shownOld>>
                       \/ /\ "runs" \in blocks[c] /\ shown'[c] = runs[c]
                          /\ shownOld' = IF c \in readOld THEN shownOld \union {c} ELSE shownOld \ {c}
<1>2. Keeps \/ Reads \/ Tells
  <2> USE <1>0 DEF Fail
  <2>1. CASE Request(c) \/ Connect(c) \/ TimeOut(c) \/ Close(c)
    <3>1. Keeps
      BY <2>1 DEF Request, Connect, TimeOut, Close
    <3>2. QED
      BY <3>1
  <2>2. CASE Collect(c)
    <3>1. CASE pc[c] = "runs"
      BY <2>2, <3>1 DEF Collect
    <3>2. CASE pc[c] # "runs"
      BY <2>2, <3>2 DEF Collect
    <3>3. QED
      BY <3>1, <3>2
  <2>3. CASE Length(c) \/ Scan(c) \/ ScanEnds(c) \/ Net(c) \/ Manual(c) \/ \E j \in Job : ScanReturns(c, j)
    <3>1. Keeps
      BY <2>3 DEF Length, Scan, ScanEnds, Net, ScanReturns, Manual
    <3>2. QED
      BY <3>1
  <2>4. CASE Answer(c)
    <3>1. Tells
      BY <2>4 DEF Answer
    <3>2. QED
      BY <3>1
  <2>5. CASE ScrapeFault(c)
    <3>1. Keeps
      BY <2>5 DEF ScrapeFault, ConnectFails, StatementFails, ManualFails, QueuesFail
    <3>2. QED
      BY <3>1
  <2>6. QED
    BY <2>1, <2>2, <2>3, <2>4, <2>5 DEF ScrapeOf, ScrapeStep
<1>3. \A d \in Client \ {c} :
        /\ shown'[d] = shown[d] /\ runs'[d] = runs[d] /\ blocks'[d] = blocks[d]
        /\ (d \in readOld' <=> d \in readOld) /\ (d \in shownOld' <=> d \in shownOld)
  BY OneScrape
<1>4. ASSUME ~overtaken, NEW d \in Client, NEW s \in Record!Status
      PROVE  CountersOf(d, s)' /\ (d \notin shownOld => shown'[d].count[s] >= shown[d].count[s])
  <2>1. /\ CountersOf(d, s) /\ row' = row
        /\ row.count[s] \in Nat /\ shown[d].count[s] \in Nat /\ runs[d].count[s] \in Nat
    BY <1>0, <1>1, <1>4 DEF CountersInOrder
  <2>2. CASE d # c
    BY <1>3, <2>1, <2>2 DEF CountersOf
  <2>3. CASE d = c
    <3>1. CASE Keeps
      BY <2>1, <2>3, <3>1 DEF CountersOf, old
    <3>2. CASE Reads
      BY <2>1, <2>3, <3>2 DEF CountersOf, old
    <3>3. CASE Tells
      <4>1. "runs" \notin blocks'[c] /\ runs'[c].count[s] = 0
        BY <1>1, <3>3
      <4>2. CASE UNCHANGED <<shown, shownOld>>
        BY <2>1, <2>3, <4>1, <4>2 DEF CountersOf
      <4>3. CASE /\ "runs" \in blocks[c] /\ shown'[c] = runs[c]
                 /\ shownOld' = IF c \in readOld THEN shownOld \union {c} ELSE shownOld \ {c}
        <5>1. c \notin shownOld' => c \notin readOld
          BY <4>3
        <5>2. QED
          BY <2>1, <2>3, <4>1, <4>3, <5>1 DEF CountersOf
      <4>4. QED
        BY <3>3, <4>2, <4>3
    <3>4. QED
      BY <1>2, <3>1, <3>2, <3>3
  <2>4. QED
    BY <2>2, <2>3
<1>5. CountersInOrder'
  BY <1>0, <1>4 DEF CountersInOrder
<1>6. ASSUME ~overtaken, NEW d \in Client, d \notin shownOld, NEW s \in Record!Status
      PROVE  ~ (shown'[d].count[s] < shown[d].count[s])
  <2>1. shown'[d].count[s] >= shown[d].count[s]
    BY <1>4, <1>6
  <2>2. shown'[d].count[s] \in Nat /\ shown[d].count[s] \in Nat
    <3>1. shown'[d] \in Record!Row
      BY ScrapeType DEF Types, ScrapeTypes
    <3>2. QED
      BY <1>1, <3>1, RowMade
  <2>3. QED
    BY <2>1, <2>2
<1>7. QED
  BY <1>5, <1>6 DEF Falls, MayFall

-----------------------------------------------------------------------------
(* What others do *)

LEMMA WorldStep ==
  ASSUME Types, seen \in [Proc -> Record!Row], ConnectionsInOrder, ErrorsInOrder, QueuesInOrder,
         CountersInOrder, Check \/ World
  PROVE  ConnectionsInOrder' /\ ErrorsInOrder' /\ QueuesInOrder' /\ CountersInOrder' /\ UNCHANGED shown
<1>1. /\ UNCHANGED <<pc, conn, up, blocks, errors, runs, waited, ran, shown>>
      /\ \/ UNCHANGED <<due, open, jobAt>>
         \/ \E j \in Job : MoveJob(j)
      /\ \/ UNCHANGED <<row, overtaken, old>>
         \/ Migrate
         \/ \E p \in Proc : RecordRun(p)
  <2> USE DEF scrape, world, env, recordVars
  <2>1. CASE Check
    BY <2>1 DEF Check, ReadServers, CheckPartner, RoundFails, TakeNetLock, Publish
  <2>2. CASE EditServers \/ LockTable
    BY <2>2 DEF EditServers, LockTable
  <2>m. CASE Migrate
    BY <2>m DEF Migrate
  <2>3. ASSUME NEW j \in Job, MoveJob(j)
        PROVE  UNCHANGED <<pc, conn, up, blocks, errors, runs, waited, ran, shown, row, overtaken, old>>
    BY <2>3 DEF MoveJob
  <2>4. ASSUME NEW p \in Proc, RecordRun(p)
        PROVE  UNCHANGED <<pc, conn, up, blocks, errors, runs, waited, ran, shown, due, open, jobAt>>
    BY <2>4 DEF RecordRun
  <2>5. QED
    BY <2>1, <2>2, <2>m, <2>3, <2>4 DEF World
<1>2. ConnectionsInOrder'
  BY <1>1 DEF ConnectionsInOrder
<1>3. ErrorsInOrder'
  BY <1>1 DEF ErrorsInOrder, ErrorsOf, Missing
<1>4. QueuesInOrder'
  <2>1. CASE UNCHANGED <<due, open, jobAt>>
    BY <1>1, <2>1 DEF QueuesInOrder, QueuesOf
  <2>2. ASSUME NEW j \in Job, MoveJob(j)
        PROVE  QueuesInOrder'
    <3>1. jobAt \in [Job -> JobState] /\ due \in JobSets /\ open \in JobSets
      BY DEF Types, ScrapeTypes, WorldTypes
    <3>2. \A k \in Job \ {j} : jobAt'[k] = jobAt[k]
      BY <2>2, <3>1 DEF MoveJob
    <3>3. CASE jobAt[j] = "running"
      <4>1. \A c \in Client : due'[c] = due[c] \ {j} /\ open'[c] = open[c] \ {j}
        BY <2>2, <3>3 DEF MoveJob
      <4>2. QED
        BY <1>1, <3>1, <3>2, <4>1 DEF QueuesInOrder, QueuesOf, JobSets
    <3>4. CASE jobAt[j] # "running"
      <4>1. UNCHANGED <<due, open>>
        BY <2>2, <3>4 DEF MoveJob
      <4>2. {k \in Job : jobAt[k] = "running"} \subseteq {k \in Job : jobAt'[k] = "running"}
        BY <3>2, <3>4
      <4>3. QED
        BY <1>1, <4>1, <4>2 DEF QueuesInOrder, QueuesOf
    <3>5. QED
      BY <3>3, <3>4
  <2>3. QED
    BY <1>1, <2>1, <2>2
<1>5. CountersInOrder'
  <2>1. CASE UNCHANGED <<row, overtaken, old>>
    BY <1>1, <2>1 DEF CountersInOrder, CountersOf, old
  <2>m. CASE Migrate
    <3> SUFFICES ASSUME ~overtaken, NEW c \in Client, NEW s \in Record!Status PROVE CountersOf(c, s)'
      BY <1>1, <2>m DEF CountersInOrder, Migrate
    <3>1. row'.count[s] = 0 /\ shown[c].count[s] \in Nat /\ runs[c].count[s] \in Nat
      BY <2>m, RowMade DEF Migrate, Types, ScrapeTypes
    <3>2. c \notin shownOld' => shown[c].count[s] = 0
      BY <2>m, RowMade DEF Migrate
    <3>3. c \notin readOld' => "runs" \notin blocks[c]
      BY <2>m DEF Migrate
    <3>4. QED
      BY <1>1, <3>1, <3>2, <3>3 DEF CountersOf
  <2>2. ASSUME NEW p \in Proc, RecordRun(p)
        PROVE  CountersInOrder'
    <3>0. UNCHANGED old
      BY <2>2 DEF RecordRun
    <3>1. CASE Record!RunReads(p) /\ UNCHANGED overtaken
      BY <1>1, <2>1, <3>0, <3>1 DEF Record!RunReads, Record!Read
    <3>2. ASSUME NEW status \in Record!Status, Record!RunWrites(p, status),
                 overtaken' = (overtaken \/ row # seen[p])
          PROVE  CountersInOrder'
      <4>1. row \in Record!Row /\ row' \in Record!Row
            /\ \A s \in Record!Status : row'.count[s] >= seen[p].count[s]
        BY <3>2, RowMade DEF Types, WorldTypes, Record!RunWrites
      <4>2. SUFFICES ASSUME ~overtaken', NEW c \in Client, NEW s \in Record!Status
                     PROVE  CountersOf(c, s)'
        BY DEF CountersInOrder
      <4>3. ~overtaken /\ row = seen[p]
        BY <3>2, <4>2
      <4>4. CountersOf(c, s)
        BY <4>3 DEF CountersInOrder
      <4>5. /\ row.count[s] \in Nat /\ row'.count[s] \in Nat
            /\ shown[c].count[s] \in Nat /\ runs[c].count[s] \in Nat
        BY <4>1, RowMade DEF Types, ScrapeTypes
      <4>6. row'.count[s] >= row.count[s]
        BY <4>1, <4>3
      <4>7. QED
        BY <1>1, <3>0, <4>4, <4>5, <4>6 DEF CountersOf, old
    <3>3. QED
      BY <2>2, <3>1, <3>2 DEF RecordRun
  <2>3. QED
    BY <1>1, <2>1, <2>m, <2>2
<1>6. QED
  BY <1>1, <1>2, <1>3, <1>4, <1>5

-----------------------------------------------------------------------------
(* What follows *)

LEMMA InitOrderly == Init => ScrapesOrderly
<1> SUFFICES ASSUME Init PROVE ScrapesOrderly
  OBVIOUS
<1>1. Types
  <2>1. ScrapeTypes
    BY RowMade, StepsOn, ExporterAssumption DEF Init, ScrapeTypes, JobSets
  <2>2. WorldTypes
    <3>1. row \in Record!Row
      BY RowMade DEF Init, Record!RunInit
    <3>2. locked \subseteq {Settings, Logs}
      BY DEF Init
    <3>3. events \in 0 .. MaxEvents
      BY ExporterAssumption DEF Init
    <3>4. jobAt \in [Job -> JobState]
      BY DEF Init, JobState
    <3>5. QED
      BY <3>1, <3>2, <3>3, <3>4 DEF Init, WorldTypes, NoRound
  <2>3. QED
    BY <2>1, <2>2 DEF Init, Types, OldTypes
<1>2. seen \in [Proc -> Record!Row]
  BY RowMade DEF Init, Record!RunInit
<1>3. ConnectionsInOrder /\ RoundInOrder
  <2>1. \A c \in Client : pc[c] = "idle" /\ conn[c] = "none"
    BY DEF Init
  <2>2. ConnectionsInOrder
    BY <2>1, StatementList DEF ConnectionsInOrder, Connected
  <2>3. RoundInOrder
    BY DEF Init, NoRound, RoundInOrder, RoundWhole
  <2>4. QED
    BY <2>2, <2>3
<1>4. ErrorsInOrder
  BY StatementList DEF Init, ErrorsInOrder, ErrorsOf, Connected
<1>5. QueuesInOrder
  BY DEF Init, QueuesInOrder, QueuesOf
<1>6. CountersInOrder
  <2>1. \A c \in Client : shown[c] = Record!NoRow /\ runs[c] = Record!NoRow /\ blocks[c] = {}
    BY DEF Init
  <2>2. row = Record!NoRow
    BY DEF Init, Record!RunInit
  <2>3. QED
    BY <2>1, <2>2, RowMade DEF CountersInOrder, CountersOf
<1>7. QED
  BY <1>1, <1>2, <1>3, <1>4, <1>5, <1>6, TypeParts DEF ScrapesOrderly

LEMMA OrderlyStep ==
  ASSUME ScrapesOrderly, [Next]_vars
  PROVE  ScrapesOrderly' /\ \A c \in Client, s \in Record!Status : Falls(c, s) => MayFall(c)
<1>1. /\ Types /\ seen \in [Proc -> Record!Row] /\ ConnectionsInOrder /\ RoundInOrder
      /\ ErrorsInOrder /\ QueuesInOrder /\ CountersInOrder
  BY TypeParts DEF ScrapesOrderly
<1>a. \A c \in Client, s \in Record!Status : shown[c].count[s] \in Nat
  BY <1>1, RowMade DEF Types, ScrapeTypes
<1>2. ASSUME NEW c \in Client, ScrapeOf(c)
      PROVE  ScrapesOrderly'
  <2>1. Types' /\ ConnectionsInOrder' /\ ErrorsInOrder' /\ QueuesInOrder' /\ CountersInOrder'
    BY <1>1, <1>2, ScrapeType, ConnectionStep, ErrorsStep, QueuesStep, CountersStep
  <2>2. UNCHANGED <<checks, env>>
    BY <1>1, <1>2, OneScrape
  <2>3. RoundInOrder' /\ seen' \in [Proc -> Record!Row]
    BY <1>1, <2>2 DEF checks, env, recordVars, RoundInOrder, RoundWhole
  <2>4. QED
    BY <2>1, <2>3, TypeParts DEF ScrapesOrderly
<1>3. CASE Check \/ World
  <2>1. Types' /\ seen' \in [Proc -> Record!Row] /\ RoundInOrder'
    BY <1>1, <1>3, WorldType
  <2>2. ConnectionsInOrder' /\ ErrorsInOrder' /\ QueuesInOrder' /\ CountersInOrder' /\ UNCHANGED shown
    BY <1>1, <1>3, WorldStep
  <2>3. ScrapesOrderly'
    BY <2>1, <2>2, TypeParts DEF ScrapesOrderly
  <2>4. QED
    BY <1>a, <2>2, <2>3 DEF Falls
<1>4. CASE UNCHANGED vars
  <2> USE <1>4 DEF vars, scrape, checks, world, env, old, recordVars
  <2>1. Types' /\ seen' \in [Proc -> Record!Row]
    BY <1>1 DEF Types, ScrapeTypes, WorldTypes, OldTypes
  <2>2. ConnectionsInOrder' /\ RoundInOrder'
    BY <1>1 DEF ConnectionsInOrder, RoundInOrder, RoundWhole
  <2>3. ErrorsInOrder'
    BY <1>1 DEF ErrorsInOrder, ErrorsOf, Missing
  <2>4. QueuesInOrder' /\ CountersInOrder'
    BY <1>1 DEF QueuesInOrder, QueuesOf, CountersInOrder, CountersOf
  <2>5. ScrapesOrderly'
    BY <2>1, <2>2, <2>3, <2>4, TypeParts DEF ScrapesOrderly
  <2>6. QED
    BY <1>a, <2>5 DEF Falls
<1>5. QED
  BY <1>1, <1>2, <1>3, <1>4, CountersStep DEF Next, ScrapeOf

LEMMA ScrapesInOrder == Spec => []ScrapesOrderly
<1>1. ScrapesOrderly /\ [Next]_vars => ScrapesOrderly'
  BY OrderlyStep
<1>2. QED
  BY InitOrderly, <1>1, PTL DEF Spec

(* For any clients, jobs, queues and partners: a round of partner checks is *)
(* shown as a whole, and every scrape closes its connection                 *)
(* (refresh_network_metrics, _collect_db_metrics).                          *)
THEOREM ExporterInvariant == Spec => []ExporterInv
<1>1. ScrapesOrderly => ExporterInv
  BY DEF ScrapesOrderly, ExporterInv, ConnectionsInOrder, RoundInOrder
<1>2. QED
  BY ScrapesInOrder, <1>1, PTL

(* misp_scrape_errors is the number of collectors whose blocks an answer    *)
(* lacks, whatever failed in which order (collect_all).                     *)
THEOREM ErrorsAreTold == Spec => []ErrorsTell
<1>1. ScrapesOrderly => ErrorsTell
  <2> SUFFICES ASSUME ScrapesOrderly, NEW c \in Client, pc[c] = "answer"
               PROVE  LET missing == {Collector(b) : b \in Block \ blocks[c]}
                      IN  IF up[c] = 1 THEN errors[c] = Cardinality(missing)
                          ELSE /\ blocks[c] \subseteq {"queues"}
                               /\ errors[c] = 1 + Cardinality(missing \intersect {"queues"})
    BY DEF ErrorsTell
  <2>1. ErrorsOf(c) /\ up[c] \in {0, 1}
    BY TypeParts DEF ScrapesOrderly, ErrorsInOrder, Types, ScrapeTypes
  <2>2. Missing(c) = {Collector(b) : b \in Block \ blocks[c]}
    BY PassedAt DEF Missing, Lacking
  <2>3. QED
    BY <2>1, <2>2 DEF ErrorsOf
<1>2. QED
  BY ScrapesInOrder, <1>1, PTL

(* No job that waits or runs from the read of its queue's length to the end *)
(* of the SCAN escapes the two figures, wherever the workers move it        *)
(* (_collect_queue_metrics).                                                *)
THEOREM NoJobEscapes == Spec => []QueuesCounted
<1>1. ScrapesOrderly => QueuesCounted
  BY DEF ScrapesOrderly, QueuesInOrder, QueuesOf, QueuesCounted
<1>2. QED
  BY ScrapesInOrder, <1>1, PTL

(* The counter of a job's runs falls for a client only after two runs have  *)
(* overlapped between record_run's read and write, or when what it was      *)
(* shown before went with a migration.                                      *)
THEOREM CounterFallsAfterOverlap == Spec => CounterFallsOnlyAfterOverlap
<1>1. ScrapesOrderly /\ [Next]_vars =>
        [\A c \in Client, s \in Record!Status :
           shown'[c].count[s] < shown[c].count[s] => overtaken \/ c \in shownOld]_vars
  BY OrderlyStep DEF Falls, MayFall
<1>2. QED
  BY ScrapesInOrder, <1>1, PTL DEF Spec, CounterFallsOnlyAfterOverlap
=============================================================================
