---------------------------- MODULE Migrate_proofs ----------------------------
(***************************************************************************)
(* The migration, for any set of attempts, tables and settings: what an    *)
(* attempt may rely on while it has the lock (Orderly) is inductive, and   *)
(* from it follow that a record of a copy tells the truth, that pods wait  *)
(* for the configure run of the copy, and that Migrate implements          *)
(* MigrationPromise, by which an instance or a copy goes only to an        *)
(* attempt that was told so.                                               *)
(***************************************************************************)
EXTENDS Migrate, TLAPS

Alive(a) == client[a] # "gone"

(* Which attempt has the lock. *)
LockHeld ==
  /\ Lock!HolderSession
  /\ \A a \in Attempt : Alive(a) => (pc[a] \in UnderLock <=> client[a] = "held")

(* What the attempt that has the lock knows of the tables at each step, and *)
(* that the record of a copy stands for one.  It drops what is there, all   *)
(* of it, only with the flags for it; it copies into what it made itself,   *)
(* each table once; and while it copies no copy is on record.               *)
CopyInOrder ==
  /\ \A a \in Attempt : Alive(a) =>
       /\ pc[a] = "drop" =>
            /\ todo[a] = Existing /\ "force" \in flags[a]
            /\ "success" \in copyRun => "replace" \in flags[a]
       /\ pc[a] = "baseline" => Existing = {}
       /\ pc[a] \in {"truncate", "fill"} =>
            /\ "success" \notin copyRun
            /\ \A t \in Table : /\ table[t] \in {"base", "part", "copy"}
                                /\ t \in todo[a] <=> t \in Copied /\ table[t] # "copy"
       /\ pc[a] = "record" => Whole
  /\ "success" \in copyRun => Whole \/ torn

(* A copy on record that was made with a source of attachments has them, or *)
(* a record that they failed, or an attempt is at them; the attempt that    *)
(* made the copy knows whether it has such a source; and no attempt that    *)
(* has one gets to its end without the attachments.                         *)
FilesInOrder ==
  /\ "success" \in copyRun /\ filesRun # "error" =>
       \/ files = "copied" \/ silent \/ bare
       \/ \E a \in Attempt : Alive(a) /\ pc[a] \in {"clear", "files", "files failed"}
  /\ \A a \in Attempt : Alive(a) =>
       /\ pc[a] \in {"clear", "files"} => withFiles[a] \/ bare \/ filesRun = "error"
       /\ pc[a] = "release" /\ withFiles[a] => files = "copied" \/ silent \/ bare

(* The inductive invariant.  Two attempts work at once only after one lost  *)
(* its lock session, and then nothing is certain of their tables.           *)
Orderly ==
  /\ TypeOK /\ LockHeld /\ PodsWait
  /\ table[Settings] = "none" => copyRun = {}
  /\ \A a \in Attempt : pc[a] = "files copied" => files = "copied"
  /\ lost = {} => CopyInOrder /\ FilesInOrder

-----------------------------------------------------------------------------
(* Types *)

LEMMA InitOrderly == Init => Orderly
<1> SUFFICES ASSUME Init PROVE Orderly
  OBVIOUS
<1> USE MigrateAssumption DEF Init, Lock!LockInit
<1>1. PICK content \in {"none", "other", "copy"} :
        /\ table = [t \in Table |->
                     IF content = "copy" /\ t \in Kept THEN "base" ELSE content]
        /\ copyRun = IF content = "copy" THEN {"success"} ELSE {}
        /\ filesRun = IF content = "copy" /\ ~bare THEN "success" ELSE "none"
        /\ configured = (content # "none")
        /\ files = IF content = "copy" /\ ~bare THEN "copied" ELSE "none"
        /\ upgraded = (content = "copy")
  OBVIOUS
<1>2. table[Settings] = content /\ (content = "copy" => Whole) /\ (Whole => content = "copy")
  BY <1>1 DEF Whole, Copied
<1>3. TypeOK
  <2>1. copyRun \subseteq {"success", "error"} /\ filesRun \in {"none", "success", "error"}
    BY <1>1
  <2>2. configured \in BOOLEAN /\ upgraded \in BOOLEAN /\ files \in {"none", "part", "copied"}
    BY <1>1
  <2>3. table \in [Table -> {"none", "other", "base", "part", "copy"}]
    BY <1>1
  <2>4. QED
    BY <2>1, <2>2, <2>3 DEF TypeOK, Lock!LockTypeOK, AttemptPC
<1>4. LockHeld
  BY DEF LockHeld, Lock!HolderSession, Lock!Holds, UnderLock, AttemptPC
<1>5. PodsWait
  BY <1>1, <1>2 DEF PodsWait
<1>6. table[Settings] = "none" => copyRun = {}
  BY <1>1, <1>2
<1>7. CopyInOrder
  BY <1>1, <1>2 DEF CopyInOrder
<1>8. FilesInOrder
  BY <1>1 DEF FilesInOrder
<1>9. QED
  BY <1>3, <1>4, <1>5, <1>6, <1>7, <1>8 DEF Orderly

(* A table gets other rows, and with system_settings its run records.       *)
LEMMA ReplaceType ==
  ASSUME TypeOK, NEW t \in Table, NEW content \in {"none", "other", "base", "part", "copy"},
         NEW record \in BOOLEAN, Replace(t, content, record)
  PROVE  /\ table' \in [Table -> {"none", "other", "base", "part", "copy"}]
         /\ copyRun' \subseteq {"success", "error"}
         /\ filesRun' \in {"none", "success", "error"}
         /\ configured' \in BOOLEAN
         /\ table' = [table EXCEPT ![t] = content]
BY DEF TypeOK, Replace, rows

LEMMA TypeStep == TypeOK /\ [Next]_vars => TypeOK'
<1> SUFFICES ASSUME TypeOK, [Next]_vars PROVE TypeOK'
  OBVIOUS
<1> USE DEF Goto, lockVars, inputs, rows, history
<1>1. ASSUME NEW a \in Attempt, Start(a) \/ Refuse(a) \/ TakeLock(a) \/ GiveUpLock(a) \/ ReleaseLock(a)
      PROVE  TypeOK'
  <2>1. CASE Start(a)
    BY <2>1 DEF TypeOK, AttemptPC, Start, Lock!LockTypeOK, Lock!Connect
  <2>2. CASE Refuse(a)
    BY <2>2 DEF TypeOK, AttemptPC, Refuse, Lock!LockTypeOK
  <2>3. CASE TakeLock(a)
    BY <2>3 DEF TypeOK, AttemptPC, TakeLock, Lock!LockTypeOK, Lock!TryLock
  <2>4. CASE GiveUpLock(a)
    BY <2>4 DEF TypeOK, AttemptPC, GiveUpLock, Lock!LockTypeOK, Lock!TimeOut, Lock!PollFails
  <2>5. CASE ReleaseLock(a)
    <3>1. pc' \in [Attempt -> AttemptPC]
      BY <2>5 DEF TypeOK, AttemptPC, ReleaseLock
    <3>2. Lock!LockTypeOK'
      BY <2>5 DEF TypeOK, ReleaseLock, Lock!LockTypeOK, Lock!Release, Lock!HolderWithout
    <3>3. QED
      BY <2>5, <3>1, <3>2 DEF TypeOK, ReleaseLock
  <2>6. QED
    BY <1>1, <2>1, <2>2, <2>3, <2>4, <2>5
<1>2. ASSUME NEW a \in Attempt, Die(a) \/ SessionEnds(a)
      PROVE  TypeOK'
  <2>1. CASE Die(a)
    <3>1. silent' \in BOOLEAN
      BY <2>1 DEF Die
    <3>2. QED
      BY <2>1, <3>1 DEF TypeOK, Die, Lock!LockTypeOK, Lock!Die
  <2>2. CASE SessionEnds(a)
    BY <2>2 DEF TypeOK, SessionEnds, Lock!LockTypeOK, Lock!SessionEnds, Lock!HolderWithout
  <2>3. QED
    BY <1>2, <2>1, <2>2
<1>3. ASSUME NEW a \in Attempt, Plan(a)
      PROVE  TypeOK'
  <2>1. pc' \in [Attempt -> AttemptPC]
    BY <1>3 DEF Plan, TypeOK, AttemptPC
  <2>2. todo' \in [Attempt -> SUBSET Table]
    BY <1>3 DEF Plan, TypeOK, Existing
  <2>3. QED
    BY <1>3, <2>1, <2>2 DEF Plan, TypeOK, Lock!LockTypeOK
<1>4. ASSUME NEW a \in Attempt, Drop(a)
      PROVE  TypeOK'
  <2>1. PICK t \in todo[a] : /\ Replace(t, "none", FALSE)
                             /\ todo' = [todo EXCEPT ![a] = @ \ {t}]
                             /\ Goto(a, IF todo[a] = {t} THEN "baseline" ELSE "drop")
    BY <1>4 DEF Drop
  <2>2. t \in Table /\ torn' = TRUE /\ upgraded' = FALSE
        /\ UNCHANGED <<lockVars, inputs, files, silent, bare>>
    BY <1>4 DEF Drop, TypeOK
  <2>3. QED
    BY <2>1, <2>2, ReplaceType DEF TypeOK, AttemptPC, Lock!LockTypeOK
<1>5. ASSUME NEW a \in Attempt, Baseline(a)
      PROVE  TypeOK'
  <2>1. /\ table' \in [Table -> {"none", "other", "base", "part", "copy"}]
        /\ copyRun' \subseteq {"success", "error"}
        /\ filesRun' \in {"none", "success", "error"}
        /\ configured' \in BOOLEAN
    BY <1>5 DEF Baseline, TypeOK
  <2>2. QED
    BY <1>5, <2>1 DEF Baseline, TypeOK, AttemptPC, Lock!LockTypeOK, Copied
<1>6. ASSUME NEW a \in Attempt, Truncate(a)
      PROVE  TypeOK'
  <2>1. PICK t \in todo[a] : Replace(t, "part", FALSE)
    BY <1>6 DEF Truncate
  <2>2. t \in Table
    BY DEF TypeOK
  <2>3. QED
    BY <1>6, <2>1, <2>2, ReplaceType DEF Truncate, TypeOK, AttemptPC, Lock!LockTypeOK
<1>7. ASSUME NEW a \in Attempt, Fill(a)
      PROVE  TypeOK'
  <2>1. PICK t \in todo[a] : /\ \E record \in BOOLEAN : Replace(t, "copy", record)
                             /\ todo' = [todo EXCEPT ![a] = @ \ {t}]
                             /\ Goto(a, IF todo[a] = {t} THEN "record" ELSE "truncate")
    BY <1>7 DEF Fill
  <2>2. t \in Table /\ UNCHANGED <<lockVars, inputs, files, history>>
    BY <1>7 DEF Fill, TypeOK
  <2>3. PICK record \in BOOLEAN : Replace(t, "copy", record)
    BY <2>1
  <2>4. QED
    BY <2>1, <2>2, <2>3, ReplaceType DEF TypeOK, AttemptPC, Lock!LockTypeOK
<1>8. ASSUME NEW a \in Attempt, Raises(a) \/ RecordError(a) \/ RecordCopy(a)
      PROVE  TypeOK'
  <2>1. CASE Raises(a)
    <3>1. pc' \in [Attempt -> AttemptPC]
      BY <2>1 DEF Raises, TypeOK, AttemptPC
    <3>2. QED
      BY <2>1, <3>1 DEF Raises, TypeOK, Lock!LockTypeOK
  <2>2. CASE RecordError(a)
    <3>1. pc' \in [Attempt -> AttemptPC]
      BY <2>2 DEF RecordError, TypeOK, AttemptPC
    <3>2. QED
      BY <2>2, <3>1 DEF RecordError, TypeOK, Lock!LockTypeOK
  <2>3. CASE RecordCopy(a)
    <3>1. pc' \in [Attempt -> AttemptPC]
      BY <2>3 DEF RecordCopy, TypeOK, AttemptPC
    <3>2. QED
      BY <2>3, <3>1 DEF RecordCopy, TypeOK, Lock!LockTypeOK
  <2>4. QED
    BY <1>8, <2>1, <2>2, <2>3
<1>9. ASSUME NEW a \in Attempt, ClearConfigured(a) \/ CopyFiles(a) \/ RecordFiles(a)
      PROVE  TypeOK'
  <2>1. CASE ClearConfigured(a)
    <3>1. pc' \in [Attempt -> AttemptPC]
      BY <2>1 DEF ClearConfigured, TypeOK, AttemptPC
    <3>2. QED
      BY <2>1, <3>1 DEF ClearConfigured, TypeOK, Lock!LockTypeOK
  <2>2. CASE CopyFiles(a)
    <3>1. pc' \in [Attempt -> AttemptPC]
      BY <2>2 DEF CopyFiles, TypeOK, AttemptPC
    <3>2. QED
      BY <2>2, <3>1 DEF CopyFiles, TypeOK, Lock!LockTypeOK
  <2>3. CASE RecordFiles(a)
    <3>1. pc' \in [Attempt -> AttemptPC]
      BY <2>3 DEF RecordFiles, TypeOK, AttemptPC
    <3>2. QED
      BY <2>3, <3>1 DEF RecordFiles, TypeOK, Lock!LockTypeOK
  <2>4. QED
    BY <1>9, <2>1, <2>2, <2>3
<1>10. ASSUME NEW a \in Attempt, Configure(a)
      PROVE  TypeOK'
  BY <1>10 DEF TypeOK, AttemptPC, Configure, Lock!LockTypeOK
<1>11. CASE UNCHANGED vars
  BY <1>11 DEF TypeOK, vars, Lock!LockTypeOK
<1>12. QED
  BY <1>1, <1>2, <1>3, <1>4, <1>5, <1>6, <1>7, <1>8, <1>9, <1>10, <1>11 DEF Next

-----------------------------------------------------------------------------
(* The lock *)

LEMMA LockKept ==
  ASSUME TypeOK, LockHeld, UNCHANGED lockVars, NEW a \in Attempt, NEW step, Goto(a, step),
         step \in UnderLock <=> pc[a] \in UnderLock
  PROVE  LockHeld'
<1>1. \A b \in Attempt : pc'[b] = IF b = a THEN step ELSE pc[b]
  BY DEF Goto, TypeOK
<1>2. QED
  BY <1>1 DEF lockVars, LockHeld, Alive, Lock!HolderSession, Lock!Holds

LEMMA LockStep == TypeOK /\ LockHeld /\ [Next]_vars => LockHeld'
<1> SUFFICES ASSUME TypeOK, LockHeld, [Next]_vars PROVE LockHeld'
  OBVIOUS
<1>0. /\ client \in [Attempt -> {"out", "polling", "held", "gone"}]
      /\ backend \subseteq Attempt /\ holder \in Attempt \union {None} /\ lost \subseteq Attempt
      /\ pc \in [Attempt -> AttemptPC] /\ None \notin Attempt
  BY MigrateAssumption DEF TypeOK, Lock!LockTypeOK
<1> USE <1>0
<1>1. ASSUME NEW a \in Attempt, Start(a)
      PROVE  LockHeld'
  BY <1>1 DEF Start, Lock!Connect, LockHeld, Alive, Goto, UnderLock, AttemptPC,
     Lock!HolderSession, Lock!Holds
<1>2. ASSUME NEW a \in Attempt, Refuse(a)
      PROVE  LockHeld'
  <2>1. pc[a] = "start" /\ UNCHANGED lockVars /\ Goto(a, "failed")
    BY <1>2 DEF Refuse, At
  <2>2. QED
    BY <2>1, LockKept DEF UnderLock
<1>3. ASSUME NEW a \in Attempt, TakeLock(a)
      PROVE  LockHeld'
  BY <1>3 DEF TakeLock, Lock!TryLock, LockHeld, Alive, Goto, UnderLock, AttemptPC,
     Lock!HolderSession, Lock!Holds
<1>4. ASSUME NEW a \in Attempt, GiveUpLock(a)
      PROVE  LockHeld'
  <2>1. CASE Lock!TimeOut(a)
    BY <1>4, <2>1 DEF GiveUpLock, Lock!TimeOut, LockHeld, Alive, Goto, UnderLock, AttemptPC,
       Lock!HolderSession, Lock!Holds
  <2>2. CASE Lock!PollFails(a)
    BY <1>4, <2>2 DEF GiveUpLock, Lock!PollFails, LockHeld, Alive, Goto, UnderLock, AttemptPC,
       Lock!HolderSession, Lock!Holds
  <2>3. QED
    BY <1>4, <2>1, <2>2 DEF GiveUpLock
<1>5. ASSUME NEW a \in Attempt,
             \/ Plan(a) \/ Drop(a) \/ Baseline(a) \/ Truncate(a) \/ Fill(a) \/ Raises(a)
             \/ RecordError(a) \/ RecordCopy(a) \/ ClearConfigured(a) \/ RecordFiles(a)
      PROVE  LockHeld'
  <2>1. /\ pc[a] \in UnderLock /\ UNCHANGED lockVars
        /\ \E step \in UnderLock : Goto(a, step)
    BY <1>5 DEF Plan, Drop, Baseline, Truncate, Fill, Raises, RecordError, RecordCopy,
       ClearConfigured, RecordFiles, At, UnderLock, AttemptPC
  <2>2. QED
    BY <2>1, LockKept
<1>6. ASSUME NEW a \in Attempt, CopyFiles(a)
      PROVE  LockHeld'
  <2>1. /\ pc[a] = "files" /\ UNCHANGED lockVars
        /\ \/ UNCHANGED pc
           \/ Goto(a, "files copied") \/ Goto(a, "files failed")
           \/ Goto(a, "release failed") \/ Goto(a, "release")
    BY <1>6 DEF CopyFiles, At
  <2>2. CASE UNCHANGED pc
    BY <2>1, <2>2 DEF lockVars, LockHeld, Alive, Lock!HolderSession, Lock!Holds
  <2>3. QED
    BY <2>1, <2>2, LockKept DEF UnderLock, AttemptPC
<1>7. ASSUME NEW a \in Attempt, ReleaseLock(a)
      PROVE  LockHeld'
  <2>1. /\ pc[a] \in UnderLock /\ client[a] = "held" /\ Lock!Release(a)
        /\ \A b \in Attempt : b # a => pc'[b] = pc[b]
        /\ pc'[a] \in {"migrated", "failed"}
    BY <1>7 DEF ReleaseLock, At, Goto, Lock!Release, UnderLock, AttemptPC
  <2>2. QED
    BY <2>1 DEF Lock!Release, Lock!HolderWithout, LockHeld, Alive, UnderLock, AttemptPC,
       Lock!HolderSession, Lock!Holds
<1>8. ASSUME NEW a \in Attempt, Configure(a)
      PROVE  LockHeld'
  <2>1. pc[a] = "migrated" /\ UNCHANGED lockVars /\ (Goto(a, "done") \/ Goto(a, "failed"))
    BY <1>8 DEF Configure, At
  <2>2. QED
    BY <2>1, LockKept DEF UnderLock
<1>9. ASSUME NEW a \in Attempt, Die(a)
      PROVE  LockHeld'
  BY <1>9 DEF Die, Lock!Die, LockHeld, Alive, Lock!HolderSession, Lock!Holds
<1>10. ASSUME NEW a \in Attempt, SessionEnds(a)
      PROVE  LockHeld'
  BY <1>10 DEF SessionEnds, Lock!SessionEnds, Lock!HolderWithout, LockHeld, Alive,
     Lock!HolderSession, Lock!Holds
<1>11. CASE UNCHANGED vars
  BY <1>11 DEF vars, lockVars, LockHeld, Alive, Lock!HolderSession, Lock!Holds
<1>12. QED
  BY <1>1, <1>2, <1>3, <1>4, <1>5, <1>6, <1>7, <1>8, <1>9, <1>10, <1>11 DEF Next

(* Until a session is lost, one attempt at a time is under the lock.        *)
LEMMA AloneAtWork ==
  ASSUME TypeOK, LockHeld, lost = {}, NEW a \in Attempt, NEW b \in Attempt,
         Alive(a), Alive(b), pc[a] \in UnderLock, pc[b] \in UnderLock
  PROVE  a = b
<1>1. client[a] = "held" /\ client[b] = "held"
  BY DEF LockHeld
<1>2. a \in backend /\ b \in backend
  BY <1>1 DEF LockHeld, Lock!HolderSession
<1>3. holder = a /\ holder = b
  BY <1>1, <1>2 DEF LockHeld, Lock!HolderSession, Lock!Holds
<1>4. QED
  BY <1>3

(* What a step can do to the lock that the rest of the invariant needs.     *)
LEMMA LockSteps ==
  TypeOK /\ [Next]_vars =>
    /\ lost \subseteq lost'
    /\ \A a \in Attempt : Alive(a)' => Alive(a)
<1> SUFFICES ASSUME TypeOK, [Next]_vars
             PROVE  lost \subseteq lost' /\ \A a \in Attempt : Alive(a)' => Alive(a)
  OBVIOUS
<1> USE DEF Alive, lockVars, TypeOK, Lock!LockTypeOK
<1>1. ASSUME NEW a \in Attempt, Start(a) \/ TakeLock(a) \/ GiveUpLock(a) \/ ReleaseLock(a)
      PROVE  lost \subseteq lost' /\ \A b \in Attempt : Alive(b)' => Alive(b)
  BY <1>1 DEF Start, TakeLock, GiveUpLock, ReleaseLock, Lock!Connect, Lock!TryLock,
     Lock!TimeOut, Lock!PollFails, Lock!Release
<1>2. ASSUME NEW a \in Attempt, Die(a) \/ SessionEnds(a)
      PROVE  lost \subseteq lost' /\ \A b \in Attempt : Alive(b)' => Alive(b)
  BY <1>2 DEF Die, SessionEnds, Lock!Die, Lock!SessionEnds
<1>3. ASSUME NEW a \in Attempt,
             \/ Refuse(a) \/ Plan(a) \/ Drop(a) \/ Baseline(a) \/ Truncate(a) \/ Fill(a)
             \/ Raises(a) \/ RecordError(a) \/ RecordCopy(a) \/ ClearConfigured(a)
             \/ CopyFiles(a) \/ RecordFiles(a) \/ Configure(a)
      PROVE  lost \subseteq lost' /\ \A b \in Attempt : Alive(b)' => Alive(b)
  BY <1>3 DEF Refuse, Plan, Drop, Baseline, Truncate, Fill, Raises, RecordError, RecordCopy,
     ClearConfigured, CopyFiles, RecordFiles, Configure
<1>4. CASE UNCHANGED vars
  BY <1>4 DEF vars
<1>5. QED
  BY <1>1, <1>2, <1>3, <1>4 DEF Next

-----------------------------------------------------------------------------
(* The tables and the record of a copy *)

(* The steps at which CopyInOrder says something of the tables.             *)
AtTables == {"drop", "baseline", "truncate", "fill", "record"}

(* A step that leaves the tables and the record of a copy alone.            *)
LEMMA CopyKept ==
  ASSUME CopyInOrder, UNCHANGED <<flags, table, copyRun, torn>>,
         \A b \in Attempt : Alive(b)' =>
           /\ Alive(b)
           /\ (pc'[b] = pc[b] /\ todo'[b] = todo[b]) \/ pc'[b] \notin AtTables
  PROVE  CopyInOrder'
<1>1. (Existing = Existing') /\ (Whole <=> Whole')
  BY DEF Existing, Whole
<1>2. QED
  BY <1>1 DEF CopyInOrder, AtTables

(* A step that attempt a makes under its lock, in what the tables show.     *)
LEMMA CopyOwnStep ==
  ASSUME Orderly, lost = {}, NEW a \in Attempt, Alive(a), pc[a] \in UnderLock,
         NEW step, Goto(a, step), \A b \in Attempt : Alive(b)' => Alive(b),
         step = "drop" => /\ todo'[a] = Existing' /\ "force" \in flags'[a]
                          /\ "success" \in copyRun' => "replace" \in flags'[a],
         step = "baseline" => Existing' = {},
         step \in {"truncate", "fill"} =>
            /\ "success" \notin copyRun'
            /\ \A t \in Table : /\ table'[t] \in {"base", "part", "copy"}
                                /\ t \in todo'[a] <=> t \in Copied /\ table'[t] # "copy",
         step = "record" => Whole',
         "success" \in copyRun' => Whole' \/ torn'
  PROVE  CopyInOrder'
<1>1. \A b \in Attempt : b # a /\ Alive(b)' => pc'[b] = pc[b] /\ pc[b] \notin UnderLock
  BY AloneAtWork DEF Goto, Orderly, TypeOK
<1>2. \A b \in Attempt : b # a /\ Alive(b)' => pc'[b] \notin AtTables
  BY <1>1 DEF UnderLock, AttemptPC, AtTables
<1>3. pc'[a] = step
  BY DEF Goto, Orderly, TypeOK
<1>4. QED
  BY <1>2, <1>3 DEF CopyInOrder, AtTables

LEMMA CopyStep ==
  Orderly /\ [Next]_vars /\ lost' = {} => CopyInOrder'
<1> SUFFICES ASSUME Orderly, [Next]_vars, lost' = {} PROVE CopyInOrder'
  OBVIOUS
<1>0. /\ TypeOK /\ lost = {} /\ CopyInOrder /\ \A b \in Attempt : Alive(b)' => Alive(b)
  BY LockSteps DEF Orderly
<1> USE <1>0 DEF inputs, rows, history
<1>1. ASSUME NEW a \in Attempt,
             Start(a) \/ Refuse(a) \/ TakeLock(a) \/ GiveUpLock(a) \/ ReleaseLock(a) \/ Configure(a)
      PROVE  CopyInOrder'
  <2>1. \A b \in Attempt : (pc'[b] = pc[b] /\ todo'[b] = todo[b]) \/ pc'[b] \notin AtTables
    BY <1>1 DEF Start, Refuse, TakeLock, GiveUpLock, ReleaseLock, Configure, Goto, AtTables, TypeOK
  <2>2. UNCHANGED <<flags, table, copyRun, torn>>
    BY <1>1 DEF Start, Refuse, TakeLock, GiveUpLock, ReleaseLock, Configure
  <2>3. QED
    BY <2>1, <2>2, CopyKept
<1>2. ASSUME NEW a \in Attempt, Die(a) \/ SessionEnds(a)
      PROVE  CopyInOrder'
  <2>1. UNCHANGED <<flags, table, copyRun, torn, pc>>
    BY <1>2 DEF Die, SessionEnds
  <2>2. \A b \in Attempt : Alive(b)' => todo'[b] = todo[b]
    <3>1. CASE Die(a)
      BY <3>1 DEF Die, Lock!Die, Alive, TypeOK, Lock!LockTypeOK
    <3>2. CASE SessionEnds(a)
      BY <3>2 DEF SessionEnds
    <3>3. QED
      BY <1>2, <3>1, <3>2
  <2>3. QED
    BY <2>1, <2>2, CopyKept
<1>3. ASSUME NEW a \in Attempt, Plan(a)
      PROVE  CopyInOrder'
  <2>1. /\ Alive(a) /\ pc[a] = "plan" /\ pc[a] \in UnderLock
        /\ UNCHANGED <<flags, table, copyRun, torn>>
        /\ todo' = [todo EXCEPT ![a] = Existing]
    BY <1>3 DEF At, Alive, Plan, UnderLock, AttemptPC
  <2>2. todo'[a] = Existing /\ Existing' = Existing /\ (Whole' <=> Whole)
    BY <2>1 DEF TypeOK, Existing, Whole
  <2>3. \/ Goto(a, "files") \/ Goto(a, "release") \/ Goto(a, "release failed")
        \/ Goto(a, "baseline") /\ Existing = {}
        \/ Goto(a, "drop") /\ TargetPlan(a) = "copy" /\ Existing # {}
    BY <1>3 DEF Plan
  <2>4. CASE Goto(a, "files") \/ Goto(a, "release") \/ Goto(a, "release failed")
    BY <2>1, <2>2, <2>4, CopyOwnStep DEF CopyInOrder
  <2>5. CASE Goto(a, "baseline") /\ Existing = {}
    BY <2>1, <2>2, <2>5, CopyOwnStep DEF CopyInOrder
  <2>6. CASE Goto(a, "drop") /\ TargetPlan(a) = "copy" /\ Existing # {}
    <3>1. "force" \in flags[a] /\ ("success" \in copyRun => "replace" \in flags[a])
      BY <2>6 DEF TargetPlan
    <3>2. QED
      BY <2>1, <2>2, <2>6, <3>1, CopyOwnStep DEF CopyInOrder
  <2>7. QED
    BY <2>3, <2>4, <2>5, <2>6
<1>4. ASSUME NEW a \in Attempt, Drop(a)
      PROVE  CopyInOrder'
  <2>1. PICK t \in todo[a] : /\ Replace(t, "none", FALSE)
                             /\ todo' = [todo EXCEPT ![a] = @ \ {t}]
                             /\ Goto(a, IF todo[a] = {t} THEN "baseline" ELSE "drop")
    BY <1>4 DEF Drop
  <2>2. /\ Alive(a) /\ pc[a] = "drop" /\ pc[a] \in UnderLock /\ torn' = TRUE
        /\ UNCHANGED flags
    BY <1>4 DEF At, Alive, Drop, UnderLock, AttemptPC
  <2>3. /\ todo[a] = Existing /\ "force" \in flags[a]
        /\ "success" \in copyRun => "replace" \in flags[a]
    BY <2>2 DEF CopyInOrder
  <2>4. /\ t \in Table /\ copyRun' \subseteq copyRun /\ todo'[a] = todo[a] \ {t}
        /\ \A u \in Table : table'[u] = IF u = t THEN "none" ELSE table[u]
    BY <2>1 DEF Replace, TypeOK
  <2>5. Existing' = Existing \ {t}
    BY <2>4 DEF Existing
  <2>6. CASE todo[a] = {t}
    BY <2>1, <2>2, <2>3, <2>4, <2>5, <2>6, CopyOwnStep
  <2>7. CASE todo[a] # {t}
    BY <2>1, <2>2, <2>3, <2>4, <2>5, <2>7, CopyOwnStep
  <2>8. QED
    BY <2>6, <2>7
<1>5. ASSUME NEW a \in Attempt, Baseline(a)
      PROVE  CopyInOrder'
  <2>1. Alive(a) /\ pc[a] = "baseline" /\ pc[a] \in UnderLock /\ Existing = {}
    BY <1>5 DEF At, Alive, Baseline, UnderLock, AttemptPC, CopyInOrder
  <2>2. /\ table' = [t \in Table |-> "base"] /\ copyRun' = {}
        /\ todo'[a] = Copied
    BY <1>5, <2>1 DEF Baseline, TypeOK
  <2>3. Goto(a, "truncate") \/ Goto(a, "release failed")
    BY <1>5 DEF Baseline
  <2>4. \A t \in Table : t \in todo'[a] <=> t \in Copied /\ table'[t] # "copy"
    BY <2>2
  <2>5. QED
    BY <2>1, <2>2, <2>3, <2>4, CopyOwnStep
<1>6. ASSUME NEW a \in Attempt, Truncate(a)
      PROVE  CopyInOrder'
  <2>1. PICK t \in todo[a] : Replace(t, "part", FALSE)
    BY <1>6 DEF Truncate
  <2>2. /\ Alive(a) /\ pc[a] = "truncate" /\ pc[a] \in UnderLock /\ UNCHANGED todo
        /\ Goto(a, "fill")
    BY <1>6 DEF At, Alive, Truncate, UnderLock, AttemptPC
  <2>3. /\ t \in Table /\ copyRun' \subseteq copyRun
        /\ \A u \in Table : table'[u] = IF u = t THEN "part" ELSE table[u]
    BY <2>1 DEF Replace, TypeOK
  <2>4. /\ "success" \notin copyRun'
        /\ \A u \in Table : /\ table'[u] \in {"base", "part", "copy"}
                            /\ u \in todo'[a] <=> u \in Copied /\ table'[u] # "copy"
    BY <2>1, <2>2, <2>3 DEF CopyInOrder
  <2>5. QED
    BY <2>2, <2>4, CopyOwnStep
<1>7. ASSUME NEW a \in Attempt, Fill(a)
      PROVE  CopyInOrder'
  <2>1. PICK t \in todo[a] : /\ \E record \in BOOLEAN : Replace(t, "copy", record)
                             /\ todo' = [todo EXCEPT ![a] = @ \ {t}]
                             /\ Goto(a, IF todo[a] = {t} THEN "record" ELSE "truncate")
    BY <1>7 DEF Fill
  <2>2. Alive(a) /\ pc[a] = "fill" /\ pc[a] \in UnderLock
    BY <1>7 DEF At, Alive, Fill, UnderLock, AttemptPC
  <2>3. /\ t \in Table /\ copyRun' \subseteq copyRun /\ todo'[a] = todo[a] \ {t}
        /\ \A u \in Table : table'[u] = IF u = t THEN "copy" ELSE table[u]
    BY <2>1 DEF Replace, TypeOK
  <2>4. /\ "success" \notin copyRun'
        /\ \A u \in Table : /\ table'[u] \in {"base", "part", "copy"}
                            /\ u \in todo'[a] <=> u \in Copied /\ table'[u] # "copy"
    BY <2>1, <2>2, <2>3 DEF CopyInOrder
  <2>5. CASE todo[a] = {t}
    <3>1. Whole'
      BY <2>3, <2>4, <2>5 DEF Whole, Copied
    <3>2. QED
      BY <2>1, <2>2, <2>4, <2>5, <3>1, CopyOwnStep
  <2>6. CASE todo[a] # {t}
    BY <2>1, <2>2, <2>4, <2>6, CopyOwnStep
  <2>7. QED
    BY <2>5, <2>6
<1>8. ASSUME NEW a \in Attempt, Raises(a) \/ RecordError(a)
      PROVE  CopyInOrder'
  <2>1. /\ Alive(a) /\ pc[a] \in UnderLock /\ UNCHANGED <<table, torn>>
        /\ "success" \in copyRun' => "success" \in copyRun
        /\ Goto(a, "copy failed") \/ Goto(a, "release failed")
    BY <1>8 DEF At, Alive, Raises, RecordError, UnderLock, AttemptPC
  <2>2. Whole' <=> Whole
    BY <2>1 DEF Whole
  <2>3. QED
    BY <2>1, <2>2, CopyOwnStep DEF CopyInOrder
<1>9. ASSUME NEW a \in Attempt, RecordCopy(a)
      PROVE  CopyInOrder'
  <2>1. Alive(a) /\ pc[a] = "record" /\ pc[a] \in UnderLock /\ UNCHANGED table /\ Goto(a, "clear")
    BY <1>9 DEF At, Alive, RecordCopy, UnderLock, AttemptPC
  <2>2. Whole'
    BY <2>1 DEF CopyInOrder, Whole
  <2>3. QED
    BY <2>1, <2>2, CopyOwnStep
<1>10. ASSUME NEW a \in Attempt, ClearConfigured(a) \/ CopyFiles(a) \/ RecordFiles(a)
      PROVE  CopyInOrder'
  <2>1. \A b \in Attempt : pc'[b] = pc[b] \/ pc'[b] \notin AtTables
    BY <1>10 DEF ClearConfigured, CopyFiles, RecordFiles, Goto, AtTables, TypeOK
  <2>2. UNCHANGED <<flags, table, todo, copyRun, torn>>
    BY <1>10 DEF ClearConfigured, CopyFiles, RecordFiles
  <2>3. QED
    BY <2>1, <2>2, CopyKept
<1>11. CASE UNCHANGED vars
  BY <1>11, CopyKept DEF vars
<1>12. QED
  BY <1>1, <1>2, <1>3, <1>4, <1>5, <1>6, <1>7, <1>8, <1>9, <1>10, <1>11 DEF Next

-----------------------------------------------------------------------------
(* The attachments *)

AtFiles == {"clear", "files", "files failed"}
BeforeFiles == {"clear", "files"}

(* A step that puts no copy on record and forgets no failed attachments,    *)
(* and after which whoever was at the attachments still is, or has said so. *)
LEMMA FilesKept ==
  ASSUME FilesInOrder, UNCHANGED <<withFiles, bare>>,
         files = "copied" => files' = "copied", silent => silent',
         "success" \in copyRun' /\ filesRun' # "error" =>
           /\ "success" \in copyRun /\ filesRun # "error"
           /\ \A b \in Attempt : Alive(b) /\ pc[b] \in AtFiles =>
                (Alive(b)' /\ pc'[b] \in AtFiles) \/ silent' \/ files' = "copied" \/ bare,
         \A b \in Attempt : Alive(b)' /\ pc'[b] \in BeforeFiles =>
           \/ Alive(b) /\ pc[b] \in BeforeFiles /\ filesRun' = filesRun
           \/ bare \/ filesRun' = "error",
         \A b \in Attempt : Alive(b)' /\ pc'[b] = "release" =>
           \/ Alive(b) /\ pc[b] = "release"
           \/ files' = "copied" \/ silent' \/ bare \/ ~ withFiles[b]
  PROVE  FilesInOrder'
<1>1. "success" \in copyRun' /\ filesRun' # "error" =>
        \/ files' = "copied" \/ silent' \/ bare'
        \/ \E a \in Attempt : Alive(a)' /\ pc'[a] \in AtFiles
  BY DEF FilesInOrder, AtFiles
<1>2. \A a \in Attempt : Alive(a)' =>
        /\ pc'[a] \in BeforeFiles => withFiles'[a] \/ bare' \/ filesRun' = "error"
        /\ pc'[a] = "release" /\ withFiles'[a] => files' = "copied" \/ silent' \/ bare'
  BY DEF FilesInOrder, BeforeFiles
<1>3. QED
  BY <1>1, <1>2 DEF FilesInOrder, AtFiles, BeforeFiles

LEMMA FilesStep ==
  Orderly /\ [Next]_vars /\ lost' = {} => FilesInOrder'
<1> SUFFICES ASSUME Orderly, [Next]_vars, lost' = {} PROVE FilesInOrder'
  OBVIOUS
<1>0. /\ TypeOK /\ lost = {} /\ FilesInOrder /\ CopyInOrder
      /\ pc \in [Attempt -> AttemptPC]
      /\ \A b \in Attempt : Alive(b)' => Alive(b)
  BY LockSteps DEF Orderly, TypeOK
<1>a. \A a, b \in Attempt :
        Alive(a) /\ Alive(b) /\ pc[a] \in UnderLock /\ pc[b] \in UnderLock => a = b
  BY <1>0, AloneAtWork DEF Orderly
<1> USE <1>0 DEF inputs, rows, history, Goto
<1>1. ASSUME NEW a \in Attempt, Start(a) \/ Refuse(a) \/ TakeLock(a) \/ GiveUpLock(a)
      PROVE  FilesInOrder'
  <2>1. \A b \in Attempt : Alive(b) => Alive(b)'
    BY <1>1 DEF Start, Refuse, TakeLock, GiveUpLock, Alive, TypeOK, Lock!LockTypeOK, lockVars,
       Lock!Connect, Lock!TryLock, Lock!TimeOut, Lock!PollFails
  <2>2. /\ pc[a] \notin AtFiles /\ pc'[a] \notin BeforeFiles /\ pc'[a] # "release"
        /\ \A b \in Attempt : b # a => pc'[b] = pc[b]
    BY <1>1 DEF Start, Refuse, TakeLock, GiveUpLock, At, AtFiles, BeforeFiles
  <2>3. UNCHANGED <<withFiles, bare, files, silent, copyRun, filesRun>>
    BY <1>1 DEF Start, Refuse, TakeLock, GiveUpLock
  <2>4. QED
    BY <2>1, <2>2, <2>3, FilesKept
<1>2. ASSUME NEW a \in Attempt, Die(a)
      PROVE  FilesInOrder'
  <2>1. /\ \A b \in Attempt : b # a /\ Alive(b) => Alive(b)'
        /\ UNCHANGED <<pc, withFiles, bare, files, copyRun, filesRun>>
        /\ silent' = (silent \/ pc[a] \in AtFiles)
    BY <1>2 DEF Die, Lock!Die, Alive, TypeOK, Lock!LockTypeOK, AtFiles
  <2>2. QED
    BY <2>1, FilesKept
<1>3. ASSUME NEW a \in Attempt, SessionEnds(a)
      PROVE  FilesInOrder'
  BY <1>3, FilesKept DEF SessionEnds, Lock!SessionEnds, Alive
<1>4. ASSUME NEW a \in Attempt, Plan(a)
      PROVE  FilesInOrder'
  <2>1. /\ Alive(a) /\ pc[a] = "plan" /\ pc[a] \in UnderLock /\ UNCHANGED client
        /\ UNCHANGED <<withFiles, bare, files, silent, copyRun, filesRun>>
        /\ \A b \in Attempt : b # a => pc'[b] = pc[b]
    BY <1>4 DEF At, Alive, Plan, UnderLock, AttemptPC, lockVars
  <2>2. pc'[a] = "release" => files = "copied" \/ silent \/ bare
    <3>1. SUFFICES ASSUME pc'[a] = "release"
                   PROVE  files = "copied" \/ silent \/ bare
      OBVIOUS
    <3>2. TargetPlan(a) = "keep" /\ filesRun # "error"
      BY <1>4, <3>1 DEF Plan
    <3>3. "success" \in copyRun
      BY <3>2 DEF TargetPlan
    <3>4. \A b \in Attempt : Alive(b) => pc[b] \notin {"clear", "files", "files failed"}
      BY <1>a, <2>1 DEF UnderLock, AttemptPC
    <3>5. QED
      BY <3>2, <3>3, <3>4 DEF FilesInOrder
  <2>3. pc'[a] \in BeforeFiles => filesRun = "error"
    BY <1>4 DEF Plan, BeforeFiles
  <2>4. QED
    BY <2>1, <2>2, <2>3, FilesKept DEF Alive, AtFiles, BeforeFiles
<1>5. ASSUME NEW a \in Attempt, Drop(a) \/ Baseline(a) \/ Truncate(a) \/ Fill(a) \/ Raises(a)
                                \/ RecordError(a)
      PROVE  FilesInOrder'
  <2>1. /\ pc[a] \notin AtFiles /\ pc'[a] \notin BeforeFiles /\ pc'[a] # "release"
        /\ \A b \in Attempt : b # a => pc'[b] = pc[b]
        /\ Alive(a) /\ pc[a] \in UnderLock
    BY <1>5 DEF Drop, Baseline, Truncate, Fill, Raises, RecordError, At, AtFiles, BeforeFiles,
       Alive, UnderLock, AttemptPC
  <2>2. UNCHANGED <<client, withFiles, bare, files, silent>>
    BY <1>5 DEF Drop, Baseline, Truncate, Fill, Raises, RecordError, lockVars
  <2>3. "success" \in copyRun' => "success" \in copyRun /\ filesRun' = filesRun
    <3>1. CASE Drop(a) \/ Truncate(a) \/ Fill(a)
      BY <3>1 DEF Drop, Truncate, Fill, Replace
    <3>2. CASE Baseline(a)
      BY <3>2 DEF Baseline
    <3>3. CASE Raises(a)
      BY <3>3 DEF Raises
    <3>4. CASE RecordError(a)
      <4>1. filesRun' = filesRun
        BY <3>4 DEF RecordError
      <4>2. copyRun' = copyRun \union {"error"} \/ copyRun' = copyRun
        BY <3>4 DEF RecordError
      <4>3. QED
        BY <4>1, <4>2
    <3>5. QED
      BY <1>5, <3>1, <3>2, <3>3, <3>4
  <2>4. \A b \in Attempt : Alive(b)' => pc'[b] \notin BeforeFiles
    BY <1>a, <2>1 DEF BeforeFiles, UnderLock, AttemptPC
  <2>5. QED
    BY <2>1, <2>2, <2>3, <2>4, FilesKept DEF Alive
<1>6. ASSUME NEW a \in Attempt, RecordCopy(a)
      PROVE  FilesInOrder'
  <2>1. /\ Alive(a) /\ Alive(a)' /\ pc'[a] = "clear" /\ pc[a] \in UnderLock
        /\ UNCHANGED withFiles /\ bare' = ~withFiles[a]
        /\ \A b \in Attempt : b # a => pc'[b] = pc[b]
    BY <1>6 DEF RecordCopy, At, Alive, UnderLock, AttemptPC, lockVars
  <2>2. \A b \in Attempt : b # a /\ Alive(b)' => pc'[b] \notin {"clear", "files", "release"}
    BY <1>a, <2>1 DEF UnderLock, AttemptPC
  <2>3. QED
    BY <2>1, <2>2 DEF FilesInOrder
<1>7. ASSUME NEW a \in Attempt, ClearConfigured(a)
      PROVE  FilesInOrder'
  <2>1. /\ UNCHANGED <<client, withFiles, bare, files, copyRun, filesRun>>
        /\ \A b \in Attempt : b # a => pc'[b] = pc[b]
        /\ pc[a] = "clear" /\ Alive(a)
    BY <1>7 DEF ClearConfigured, lockVars, At, Alive
  <2>2. CASE Goto(a, "files") /\ UNCHANGED silent
    <3>1. pc'[a] = "files"
      BY <2>2
    <3>2. QED
      BY <2>1, <2>2, <3>1, FilesKept DEF Alive, AtFiles, BeforeFiles
  <2>3. CASE Goto(a, "release failed") /\ silent' = TRUE
    <3>1. pc'[a] = "release failed"
      BY <2>3
    <3>2. QED
      BY <2>1, <2>3, <3>1, FilesKept DEF BeforeFiles
  <2>4. QED
    BY <1>7, <2>2, <2>3 DEF ClearConfigured
<1>8. ASSUME NEW a \in Attempt, CopyFiles(a)
      PROVE  FilesInOrder'
  <2>1. /\ UNCHANGED <<client, withFiles, bare, copyRun, filesRun>> /\ pc[a] = "files" /\ Alive(a)
        /\ \A b \in Attempt : b # a => pc'[b] = pc[b]
        /\ files = "copied" => files' = "copied"
    BY <1>8 DEF CopyFiles, At, Alive, lockVars
  <2>s. silent' = silent \/ silent' = TRUE
    BY <1>8 DEF CopyFiles
  <2>2. pc'[a] \in AtFiles \/ files' = "copied" \/ silent' \/ ~ withFiles[a]
    BY <1>8, <2>1 DEF CopyFiles, AtFiles
  <2>3. ~ withFiles[a] => bare \/ filesRun = "error"
    BY <2>1 DEF FilesInOrder
  <2>4. pc'[a] = "release" => ~ withFiles[a]
    BY <1>8, <2>1 DEF CopyFiles
  <2>5. QED
    <3>1. CASE silent' = silent
      BY <2>1, <2>2, <2>3, <2>4, <3>1, FilesKept DEF Alive, AtFiles, BeforeFiles
    <3>2. CASE silent' = TRUE
      BY <2>1, <2>4, <3>2, FilesKept DEF Alive, BeforeFiles
    <3>3. QED
      BY <2>s, <3>1, <3>2
<1>9. ASSUME NEW a \in Attempt, RecordFiles(a)
      PROVE  FilesInOrder'
  <2>1. /\ UNCHANGED <<client, withFiles, bare, copyRun, files>>
        /\ \A b \in Attempt : b # a => pc'[b] = pc[b]
        /\ Alive(a) /\ pc[a] \in UnderLock /\ pc'[a] \notin BeforeFiles
    BY <1>9 DEF RecordFiles, lockVars, At, Alive, UnderLock, AttemptPC, BeforeFiles
  <2>s. silent' = silent \/ silent' = TRUE
    BY <1>9 DEF RecordFiles
  <2>o. \A b \in Attempt : b # a /\ Alive(b)' => pc'[b] \notin {"clear", "files", "release"}
    BY <1>a, <2>1 DEF UnderLock, AttemptPC
  <2>n. \A b \in Attempt : Alive(b)' => pc'[b] \notin {"clear", "files"}
    BY <2>1, <2>o DEF BeforeFiles
  <2>2. CASE pc[a] = "files copied"
    <3>1. files' = "copied"
      BY <2>1, <2>2 DEF Orderly
    <3>2. QED
      BY <2>n, <3>1 DEF FilesInOrder
  <2>3. CASE pc[a] # "files copied"
    <3>1. /\ pc'[a] = "release failed"
          /\ filesRun' = "error" \/ silent'
      BY <1>9, <2>3 DEF RecordFiles, At
    <3>2. \A b \in Attempt : Alive(b)' => pc'[b] # "release"
      BY <2>o, <3>1
    <3>3. QED
      BY <2>n, <3>1, <3>2 DEF FilesInOrder
  <2>4. QED
    BY <2>2, <2>3
<1>10. ASSUME NEW a \in Attempt, ReleaseLock(a) \/ Configure(a)
      PROVE  FilesInOrder'
  <2>1. /\ pc[a] \notin AtFiles /\ pc'[a] \notin BeforeFiles /\ pc'[a] # "release"
        /\ \A b \in Attempt : b # a => pc'[b] = pc[b]
    BY <1>10 DEF ReleaseLock, Configure, At, AtFiles, BeforeFiles
  <2>2. UNCHANGED <<withFiles, bare, files, silent, copyRun, filesRun>>
    BY <1>10 DEF ReleaseLock, Configure
  <2>3. \A b \in Attempt : Alive(b) => Alive(b)'
    BY <1>10 DEF ReleaseLock, Configure, Lock!Release, lockVars, Alive, TypeOK, Lock!LockTypeOK
  <2>4. QED
    BY <2>1, <2>2, <2>3, FilesKept
<1>11. CASE UNCHANGED vars
  BY <1>11, FilesKept DEF vars, lockVars, Alive
<1>12. QED
  BY <1>1, <1>2, <1>3, <1>4, <1>5, <1>6, <1>7, <1>8, <1>9, <1>10, <1>11 DEF Next

-----------------------------------------------------------------------------
(* The pods, and what remains *)

LEMMA PodsKept ==
  ASSUME PodsWait, lost \subseteq lost',
         Whole' /\ (Existing = Table)' /\ configured' => Whole /\ Existing = Table /\ configured,
         upgraded => upgraded', silent => silent',
         \A b \in Attempt : pc[b] \in {"record", "clear"} => pc'[b] = pc[b]
  PROVE  PodsWait'
<1> SUFFICES ASSUME Whole', (Existing = Table)', configured', lost' = {}
             PROVE  \/ upgraded' \/ silent'
                    \/ \E a \in Attempt : pc'[a] \in {"record", "clear"}
  BY DEF PodsWait
<1>1. \/ upgraded \/ silent
      \/ \E a \in Attempt : pc[a] \in {"record", "clear"}
  BY DEF PodsWait
<1>2. QED
  BY <1>1

LEMMA PodsStep == Orderly /\ [Next]_vars => PodsWait'
<1> SUFFICES ASSUME Orderly, [Next]_vars PROVE PodsWait'
  OBVIOUS
<1>0. /\ TypeOK /\ lost \subseteq lost' /\ PodsWait /\ pc \in [Attempt -> AttemptPC]
  BY LockSteps DEF Orderly, TypeOK
<1>a. lost' = {} => lost = {} /\ CopyInOrder /\ CopyInOrder'
  BY <1>0, CopyStep DEF Orderly
<1> USE <1>0 DEF inputs, rows, history, Goto
<1>1. ASSUME NEW a \in Attempt,
             \/ Start(a) \/ Refuse(a) \/ TakeLock(a) \/ GiveUpLock(a) \/ Plan(a) \/ Raises(a)
             \/ RecordError(a) \/ ReleaseLock(a)
      PROVE  PodsWait'
  <2>1. UNCHANGED <<table, configured, upgraded, silent>>
    BY <1>1 DEF Start, Refuse, TakeLock, GiveUpLock, Plan, Raises, RecordError, ReleaseLock
  <2>2. /\ pc[a] \notin {"record", "clear"}
        /\ \A b \in Attempt : b # a => pc'[b] = pc[b]
    BY <1>1 DEF Start, Refuse, TakeLock, GiveUpLock, Plan, Raises, RecordError, ReleaseLock, At
  <2>3. (Whole' <=> Whole) /\ Existing' = Existing
    BY <2>1 DEF Whole, Existing
  <2>4. QED
    BY <2>1, <2>2, <2>3, PodsKept
<1>2. ASSUME NEW a \in Attempt, Drop(a)
      PROVE  PodsWait'
  <2>1. PICK t \in todo[a] : Replace(t, "none", FALSE)
    BY <1>2 DEF Drop
  <2>2. (Existing # Table)'
    BY <2>1 DEF TypeOK, Replace, Existing
  <2>3. QED
    BY <2>2 DEF PodsWait
<1>3. ASSUME NEW a \in Attempt, Baseline(a)
      PROVE  PodsWait'
  <2>1. lost' = {} => Existing = {}
    BY <1>3, <1>a DEF Baseline, At, Alive, CopyInOrder
  <2>2. lost' = {} => table' = [t \in Table |-> "base"]
    BY <1>3, <2>1 DEF Baseline
  <2>3. lost' = {} => ~ Whole'
    BY <2>2, MigrateAssumption DEF Whole, Copied
  <2>4. QED
    BY <2>3 DEF PodsWait
<1>4. ASSUME NEW a \in Attempt, Truncate(a)
      PROVE  PodsWait'
  <2>1. PICK t \in todo[a] : Replace(t, "part", FALSE)
    BY <1>4 DEF Truncate
  <2>2. lost' = {} => t \in Copied
    BY <1>4, <1>a DEF Truncate, At, Alive, CopyInOrder, TypeOK
  <2>3. lost' = {} => ~ Whole'
    BY <2>1, <2>2 DEF TypeOK, Replace, Whole, Copied
  <2>4. QED
    BY <2>3 DEF PodsWait
<1>5. ASSUME NEW a \in Attempt, Fill(a)
      PROVE  PodsWait'
  <2>1. PICK t \in todo[a] : /\ \E record \in BOOLEAN : Replace(t, "copy", record)
                             /\ todo' = [todo EXCEPT ![a] = @ \ {t}]
                             /\ Goto(a, IF todo[a] = {t} THEN "record" ELSE "truncate")
    BY <1>5 DEF Fill
  <2>2. CASE todo[a] = {t}
    <3>1. pc'[a] = "record"
      BY <2>1, <2>2
    <3>2. QED
      BY <3>1 DEF PodsWait
  <2>3. CASE todo[a] # {t}
    <3>1. /\ Alive(a)' /\ pc'[a] = "truncate"
          /\ todo'[a] = todo[a] \ {t} /\ todo[a] \subseteq Table
      BY <1>5, <2>1, <2>3 DEF Fill, At, Alive, lockVars, TypeOK
    <3>2. PICK u \in todo[a] : u # t
      BY <2>3
    <3>3. u \in Table /\ u \in todo'[a]
      BY <3>1, <3>2
    <3>4. lost' = {} => u \in Copied /\ table'[u] # "copy"
      BY <1>a, <3>1, <3>3 DEF CopyInOrder
    <3>5. QED
      BY <3>4 DEF PodsWait, Whole
  <2>4. QED
    BY <2>2, <2>3
<1>6. ASSUME NEW a \in Attempt, RecordCopy(a)
      PROVE  PodsWait'
  <2>1. pc'[a] = "clear"
    BY <1>6 DEF RecordCopy
  <2>2. QED
    BY <2>1 DEF PodsWait
<1>7. ASSUME NEW a \in Attempt, ClearConfigured(a)
      PROVE  PodsWait'
  <2>1. configured' = FALSE \/ silent' = TRUE
    BY <1>7 DEF ClearConfigured
  <2>2. QED
    BY <2>1 DEF PodsWait
<1>8. ASSUME NEW a \in Attempt, CopyFiles(a) \/ RecordFiles(a)
      PROVE  PodsWait'
  <2>1. UNCHANGED <<table, configured, upgraded>>
    BY <1>8 DEF CopyFiles, RecordFiles
  <2>2. /\ pc[a] \notin {"record", "clear"}
        /\ \A b \in Attempt : b # a => pc'[b] = pc[b]
    BY <1>8 DEF CopyFiles, RecordFiles, At
  <2>3. (Whole' <=> Whole) /\ Existing' = Existing
    BY <2>1 DEF Whole, Existing
  <2>4. silent' = silent \/ silent' = TRUE
    BY <1>8 DEF CopyFiles, RecordFiles
  <2>5. silent => silent'
    BY <2>4
  <2>6. QED
    BY <2>1, <2>2, <2>3, <2>5, PodsKept
<1>9. ASSUME NEW a \in Attempt, Configure(a)
      PROVE  PodsWait'
  <2>1. CASE upgraded' = TRUE
    BY <2>1 DEF PodsWait
  <2>2. CASE UNCHANGED <<configured, upgraded>>
    <3>1. /\ pc[a] \notin {"record", "clear"} /\ UNCHANGED <<table, silent>>
          /\ \A b \in Attempt : b # a => pc'[b] = pc[b]
      BY <1>9 DEF Configure, At
    <3>2. (Whole' <=> Whole) /\ Existing' = Existing
      BY <3>1 DEF Whole, Existing
    <3>3. QED
      BY <2>2, <3>1, <3>2, PodsKept
  <2>3. QED
    BY <1>9, <2>1, <2>2 DEF Configure
<1>10. ASSUME NEW a \in Attempt, Die(a)
      PROVE  PodsWait'
  <2>1. UNCHANGED <<table, configured, upgraded, pc>> /\ silent' = (silent \/ pc[a] \in {"clear", "files", "files failed"})
    BY <1>10 DEF Die
  <2>2. (Whole' <=> Whole) /\ Existing' = Existing
    BY <2>1 DEF Whole, Existing
  <2>3. silent => silent'
    BY <2>1
  <2>4. QED
    BY <2>1, <2>2, <2>3, PodsKept
<1>11. ASSUME NEW a \in Attempt, SessionEnds(a)
      PROVE  PodsWait'
  <2>1. UNCHANGED <<table, configured, upgraded, silent, pc>>
    BY <1>11 DEF SessionEnds
  <2>2. (Whole' <=> Whole) /\ Existing' = Existing
    BY <2>1 DEF Whole, Existing
  <2>3. QED
    BY <2>1, <2>2, PodsKept
<1>12. CASE UNCHANGED vars
  <2>1. UNCHANGED <<table, configured, upgraded, silent, pc>>
    BY <1>12 DEF vars
  <2>2. (Whole' <=> Whole) /\ Existing' = Existing
    BY <2>1 DEF Whole, Existing
  <2>3. QED
    BY <2>1, <2>2, PodsKept
<1>13. QED
  BY <1>1, <1>2, <1>3, <1>4, <1>5, <1>6, <1>7, <1>8, <1>9, <1>10, <1>11, <1>12 DEF Next

(* Run records go with the table that holds them, and come only into it.    *)
LEMMA RecordsInTable ==
  TypeOK /\ (table[Settings] = "none" => copyRun = {}) /\ [Next]_vars
    => (table'[Settings] = "none" => copyRun' = {})
<1> SUFFICES ASSUME TypeOK, table[Settings] = "none" => copyRun = {}, [Next]_vars,
                    table'[Settings] = "none"
             PROVE  copyRun' = {}
  OBVIOUS
<1> USE MigrateAssumption DEF rows
<1>1. ASSUME NEW a \in Attempt, Drop(a) \/ Truncate(a) \/ Fill(a)
      PROVE  copyRun' = {}
  <2>1. PICK t \in Table, content \in {"none", "part", "copy"}, record \in BOOLEAN :
          Replace(t, content, record)
    BY <1>1 DEF Drop, Truncate, Fill, TypeOK
  <2>2. copyRun' = IF t = Settings THEN {} ELSE copyRun
    BY <2>1 DEF Replace
  <2>3. t # Settings => table'[Settings] = table[Settings]
    BY <2>1 DEF Replace, TypeOK
  <2>4. QED
    BY <2>2, <2>3
<1>2. ASSUME NEW a \in Attempt, Baseline(a)
      PROVE  copyRun' = {}
  BY <1>2 DEF Baseline
<1>3. ASSUME NEW a \in Attempt, RecordError(a) \/ RecordCopy(a)
      PROVE  copyRun' = {}
  BY <1>3 DEF RecordError, RecordCopy
<1>4. ASSUME NEW a \in Attempt,
             \/ Start(a) \/ Refuse(a) \/ TakeLock(a) \/ GiveUpLock(a) \/ Plan(a) \/ Raises(a)
             \/ ClearConfigured(a) \/ CopyFiles(a) \/ RecordFiles(a)
             \/ ReleaseLock(a) \/ Configure(a) \/ Die(a) \/ SessionEnds(a)
      PROVE  copyRun' = {}
  BY <1>4 DEF Start, Refuse, TakeLock, GiveUpLock, Plan, Raises, ClearConfigured, CopyFiles,
     RecordFiles, ReleaseLock, Configure, Die, SessionEnds
<1>5. CASE UNCHANGED vars
  BY <1>5 DEF vars
<1>6. QED
  BY <1>1, <1>2, <1>3, <1>4, <1>5 DEF Next

LEMMA CopiedStays ==
  ASSUME TypeOK, \A a \in Attempt : pc[a] = "files copied" => files = "copied", [Next]_vars
  PROVE  \A a \in Attempt : pc'[a] = "files copied" => files' = "copied"
<1> USE DEF TypeOK, Goto
<1>1. ASSUME NEW a \in Attempt, CopyFiles(a)
      PROVE  \A b \in Attempt : pc'[b] = "files copied" => files' = "copied"
  <2>1. files = "copied" => files' = "copied"
    BY <1>1 DEF CopyFiles
  <2>2. pc'[a] = "files copied" => files' = "copied"
    BY <1>1 DEF CopyFiles, At
  <2>3. \A b \in Attempt : b # a => pc'[b] = pc[b]
    BY <1>1 DEF CopyFiles
  <2>4. QED
    BY <2>1, <2>2, <2>3
<1>2. ASSUME NEW a \in Attempt,
             \/ Start(a) \/ Refuse(a) \/ TakeLock(a) \/ GiveUpLock(a) \/ Plan(a) \/ Drop(a)
             \/ Baseline(a) \/ Truncate(a) \/ Fill(a) \/ Raises(a) \/ RecordError(a)
             \/ RecordCopy(a) \/ ClearConfigured(a) \/ RecordFiles(a)
             \/ ReleaseLock(a) \/ Configure(a) \/ Die(a) \/ SessionEnds(a)
      PROVE  \A b \in Attempt : pc'[b] = "files copied" => files' = "copied"
  <2>1. UNCHANGED files
    BY <1>2 DEF Start, Refuse, TakeLock, GiveUpLock, Plan, Drop, Baseline, Truncate, Fill,
       Raises, RecordError, RecordCopy, ClearConfigured, RecordFiles, ReleaseLock, Configure,
       Die, SessionEnds
  <2>2. \A b \in Attempt : pc'[b] = "files copied" => pc[b] = "files copied"
    BY <1>2 DEF Start, Refuse, TakeLock, GiveUpLock, Plan, Drop, Baseline, Truncate, Fill,
       Raises, RecordError, RecordCopy, ClearConfigured, RecordFiles, ReleaseLock, Configure,
       Die, SessionEnds
  <2>3. QED
    BY <2>1, <2>2
<1>3. CASE UNCHANGED vars
  BY <1>3 DEF vars
<1>4. QED
  BY <1>1, <1>2, <1>3 DEF Next

LEMMA OrderlyStep == Orderly /\ [Next]_vars => Orderly'
<1> SUFFICES ASSUME Orderly, [Next]_vars PROVE Orderly'
  OBVIOUS
<1>1. TypeOK' /\ LockHeld'
  BY TypeStep, LockStep DEF Orderly
<1>2. PodsWait'
  BY PodsStep
<1>3. table'[Settings] = "none" => copyRun' = {}
  BY RecordsInTable DEF Orderly
<1>4. \A a \in Attempt : pc'[a] = "files copied" => files' = "copied"
  BY CopiedStays DEF Orderly
<1>5. lost' = {} => CopyInOrder' /\ FilesInOrder'
  BY CopyStep, FilesStep
<1>6. QED
  BY <1>1, <1>2, <1>3, <1>4, <1>5 DEF Orderly

LEMMA MigrationOrderly == Spec => []Orderly
<1>1. QED
  BY InitOrderly, OrderlyStep, PTL DEF Spec

-----------------------------------------------------------------------------
(* What follows from it *)

(* The migration's own invariant, for any attempts, tables and settings: an *)
(* attempt has the lock from its plan to its end, and until a lock session  *)
(* is lost no pod takes the copy, with the source's record of configure     *)
(* runs in it, for one that a configure run of this deployment worked on.   *)
THEOREM MigrateInvariant == Spec => []MigrateInv
<1>1. Orderly => MigrateInv
  BY DEF Orderly, LockHeld, Alive, MigrateInv
<1>2. QED
  BY <1>1, MigrationOrderly, PTL

(* A copy on record is complete unless its replacement was begun, and no    *)
(* attempt that has attachments to copy comes to its exit 0 without them    *)
(* unless one ended without a word about them, or the copy was made without *)
(* any.                                                                     *)
THEOREM RecordsAreTrue == Spec => []RecordsTell
<1>1. Orderly => RecordsTell
  BY DEF Orderly, CopyInOrder, FilesInOrder, RecordsTell, At, Alive
<1>2. QED
  BY <1>1, MigrationOrderly, PTL

-----------------------------------------------------------------------------
(* The refinement of MigrationPromise                                       *)

(* What an attempt has that is on its way to a success.                     *)
Behind == {"clear", "files", "files copied", "release"}
CopyBehind ==
  lost = {} => \A a \in Attempt : Alive(a) /\ pc[a] \in Behind => Whole \/ "success" \in copyRun

(* Until a session is lost, the attempt under the lock has it on the server.*)
LEMMA HolderAtWork ==
  ASSUME Orderly, lost = {}, NEW a \in Attempt, Alive(a), pc[a] \in UnderLock
  PROVE  client[a] = "held" /\ a \in backend /\ holder = a
<1>1. client[a] = "held" /\ a \in backend
  BY DEF Orderly, LockHeld, Lock!HolderSession
<1>2. QED
  BY <1>1 DEF Orderly, LockHeld, Lock!HolderSession, Lock!Holds

LEMMA BehindStep == Orderly /\ CopyBehind /\ [Next]_vars => CopyBehind'
<1> SUFFICES ASSUME Orderly, CopyBehind, [Next]_vars, lost' = {},
                    NEW b \in Attempt, Alive(b)', pc'[b] \in Behind
             PROVE  Whole' \/ "success" \in copyRun'
  BY DEF CopyBehind
<1>0. TypeOK /\ lost = {} /\ CopyInOrder /\ Alive(b)
  BY LockSteps DEF Orderly
<1> USE <1>0
<1>1. ASSUME UNCHANGED table, copyRun \subseteq copyRun', pc[b] \in Behind
      PROVE  Whole' \/ "success" \in copyRun'
  BY <1>1 DEF CopyBehind, Whole
<1>2. ASSUME NEW a \in Attempt,
             \/ Start(a) \/ Refuse(a) \/ TakeLock(a) \/ GiveUpLock(a) \/ Raises(a)
             \/ RecordError(a) \/ ClearConfigured(a) \/ CopyFiles(a) \/ RecordFiles(a)
             \/ ReleaseLock(a) \/ Configure(a) \/ Die(a) \/ SessionEnds(a)
      PROVE  Whole' \/ "success" \in copyRun'
  <2>1. UNCHANGED table /\ copyRun \subseteq copyRun'
    BY <1>2 DEF Start, Refuse, TakeLock, GiveUpLock, Raises, RecordError, ClearConfigured,
       CopyFiles, RecordFiles, ReleaseLock, Configure, Die, SessionEnds, rows
  <2>2. pc[b] \in Behind
    BY <1>2 DEF Start, Refuse, TakeLock, GiveUpLock, Raises, RecordError, ClearConfigured,
       CopyFiles, RecordFiles, ReleaseLock, Configure, Die, SessionEnds, At, Goto, Behind, TypeOK
  <2>3. QED
    BY <1>1, <2>1, <2>2
<1>3. ASSUME NEW a \in Attempt, Plan(a)
      PROVE  Whole' \/ "success" \in copyRun'
  <2>1. UNCHANGED table /\ UNCHANGED copyRun
    BY <1>3 DEF Plan, rows
  <2>2. CASE b = a
    <3>1. TargetPlan(a) = "keep"
      BY <1>3, <2>2 DEF Plan, Goto, Behind, TypeOK
    <3>2. "success" \in copyRun
      BY <3>1 DEF TargetPlan
    <3>3. QED
      BY <2>1, <3>2
  <2>3. CASE b # a
    <3>1. pc[b] \in Behind
      BY <1>3, <2>3 DEF Plan, Goto, TypeOK
    <3>2. QED
      BY <1>1, <2>1, <3>1
  <2>4. QED
    BY <2>2, <2>3
<1>4. ASSUME NEW a \in Attempt, RecordCopy(a)
      PROVE  Whole' \/ "success" \in copyRun'
  <2>1. UNCHANGED table /\ copyRun \subseteq copyRun' /\ pc[a] = "record" /\ Alive(a)
    BY <1>4 DEF RecordCopy, At, Alive
  <2>2. CASE b = a
    <3>1. Whole
      BY <2>1 DEF CopyInOrder
    <3>2. QED
      BY <2>1, <3>1 DEF Whole
  <2>3. CASE b # a
    <3>1. pc[b] \in Behind
      BY <1>4, <2>3 DEF RecordCopy, Goto, TypeOK
    <3>2. QED
      BY <1>1, <2>1, <3>1
  <2>4. QED
    BY <2>2, <2>3
<1>5. ASSUME NEW a \in Attempt, Drop(a) \/ Baseline(a) \/ Truncate(a) \/ Fill(a)
      PROVE  FALSE
  <2>1. Alive(a) /\ pc[a] \in UnderLock /\ pc[a] \notin Behind
    BY <1>5 DEF Drop, Baseline, Truncate, Fill, At, Alive, UnderLock, AttemptPC, Behind
  <2>2. b # a
    BY <1>5 DEF Drop, Baseline, Truncate, Fill, Goto, Behind, TypeOK
  <2>3. pc[b] \in Behind
    BY <1>5, <2>2 DEF Drop, Baseline, Truncate, Fill, Goto, TypeOK
  <2>4. pc[b] \in UnderLock
    BY <2>3 DEF Behind, UnderLock, AttemptPC
  <2>5. QED
    BY <2>1, <2>2, <2>4, AloneAtWork DEF Orderly
<1>6. CASE UNCHANGED vars
  BY <1>1, <1>6 DEF vars, rows
<1>7. QED
  BY <1>2, <1>3, <1>4, <1>5, <1>6 DEF Next

(* The abstract state: the tables by their rows.                            *)
Theirs == {t \in Table : table[t] = "other"}
Ours == {t \in Copied : table[t] = "copy"}
Succeeded == {a \in Attempt : pc[a] \in {"migrated", "done"}}
mapped == <<flags, holder, Theirs, Ours, "success" \in copyRun, Succeeded, lost # {}>>

LEMMA SameRows == UNCHANGED table => UNCHANGED Theirs /\ UNCHANGED Ours
BY DEF Theirs, Ours

(* Where an attempt goes on without its end, the successes stay.            *)
LEMMA SameSuccesses ==
  ASSUME TypeOK, NEW a \in Attempt, NEW step, Goto(a, step),
         step \in {"migrated", "done"} <=> pc[a] \in {"migrated", "done"}
  PROVE  UNCHANGED Succeeded
BY DEF Succeeded, Goto, TypeOK

LEMMA InitPromise == Init => Promise!PromiseInit
<1> SUFFICES ASSUME Init
             PROVE  Promise!PromiseInit
  OBVIOUS
<1>1. PICK content \in {"none", "other", "copy"} :
        /\ table = [t \in Table |->
                     IF content = "copy" /\ t \in Kept THEN "base" ELSE content]
        /\ copyRun = IF content = "copy" THEN {"success"} ELSE {}
  BY DEF Init
<1>2. holder = None /\ lost = {} /\ \A a \in Attempt : pc[a] = "start"
  BY DEF Init, Lock!LockInit
<1>3. QED
  BY <1>1, <1>2 DEF Promise!PromiseInit, Copied

LEMMA PromiseStep ==
  ASSUME Orderly, CopyBehind, [Next]_vars
  PROVE  [Promise!PromiseNext]_mapped
<1> SUFFICES ASSUME lost' = {}, ~UNCHANGED mapped
             PROVE  Promise!PromiseNext
  BY DEF mapped, Promise!PromiseNext
<1>0. TypeOK /\ lost = {} /\ CopyInOrder /\ (lost' # {}) = (lost # {})
  BY LockSteps DEF Orderly
<1> USE <1>0
<1>1. ASSUME NEW a \in Attempt, TakeLock(a)
      PROVE  Promise!Take(a)
  <2>1. UNCHANGED <<flags, table, copyRun>> /\ holder = None /\ holder' = a
    BY <1>1 DEF TakeLock, Lock!TryLock, inputs, rows
  <2>2. UNCHANGED Succeeded
    BY <1>1, SameSuccesses DEF TakeLock, At
  <2>3. QED
    BY <2>1, <2>2, SameRows DEF Promise!Take, Theirs, Ours, Succeeded
<1>2. ASSUME NEW a \in Attempt, Drop(a)
      PROVE  \E t \in Table : Promise!Clear(a, t)
  <2>1. PICK t \in todo[a] : Replace(t, "none", FALSE)
    BY <1>2 DEF Drop
  <2>2. /\ Alive(a) /\ pc[a] = "drop" /\ pc[a] \in UnderLock
        /\ UNCHANGED <<flags, holder>> /\ t \in Table
    BY <1>2 DEF Drop, At, Alive, UnderLock, AttemptPC, inputs, lockVars, TypeOK
  <2>3. holder = a
    BY <2>2, HolderAtWork
  <2>4. "force" \in flags[a] /\ ("success" \in copyRun => "replace" \in flags[a])
    BY <2>2 DEF CopyInOrder
  <2>5. \A u \in Table : table'[u] = IF u = t THEN "none" ELSE table[u]
    BY <2>1 DEF Replace, TypeOK
  <2>6. Theirs' = Theirs \ {t} /\ Ours' = Ours \ {t}
    BY <2>5 DEF Theirs, Ours, Copied
  <2>7. ("success" \in copyRun)' \in {"success" \in copyRun, FALSE}
    <3>1. "success" \in copyRun' => "success" \in copyRun
      BY <2>1 DEF Replace, rows
    <3>2. \/ ("success" \in copyRun)' = ("success" \in copyRun)
          \/ ("success" \in copyRun)' = FALSE
      BY <3>1
    <3>3. QED
      BY <3>2, Zenon
  <2>8. UNCHANGED Succeeded
    BY <1>2, SameSuccesses DEF Drop, At
  <2>9. Promise!Clear(a, t)
    BY <2>2, <2>3, <2>4, <2>6, <2>7, <2>8 DEF Promise!Clear, Theirs, Ours, Succeeded
  <2>10. QED
    BY <2>2, <2>9
<1>3. ASSUME NEW a \in Attempt, Fill(a)
      PROVE  \E t \in Table : Promise!Copy(a, t)
  <2>1. PICK t \in todo[a] : \E record \in BOOLEAN : Replace(t, "copy", record)
    BY <1>3 DEF Fill
  <2>2. /\ Alive(a) /\ pc[a] = "fill" /\ pc[a] \in UnderLock
        /\ UNCHANGED <<flags, holder>> /\ t \in Table
    BY <1>3 DEF Fill, At, Alive, UnderLock, AttemptPC, inputs, lockVars, TypeOK
  <2>3. holder = a
    BY <2>2, HolderAtWork
  <2>4. "success" \notin copyRun /\ t \in Copied
        /\ \A u \in Table : table[u] \in {"base", "part", "copy"}
    BY <2>2 DEF CopyInOrder
  <2>5. "success" \notin copyRun'
    BY <2>1, <2>4 DEF Replace, rows
  <2>6. \A u \in Table : table'[u] = IF u = t THEN "copy" ELSE table[u]
    BY <2>1 DEF Replace, TypeOK
  <2>7. Theirs = {} /\ Theirs' = {} /\ Ours' = Ours \union {t}
    BY <2>2, <2>4, <2>6 DEF Theirs, Ours, Copied
  <2>8. UNCHANGED Succeeded
    BY <1>3, SameSuccesses DEF Fill, At
  <2>9. Promise!Copy(a, t)
    BY <2>2, <2>3, <2>4, <2>5, <2>7, <2>8 DEF Promise!Copy, Theirs, Ours, Succeeded
  <2>10. QED
    BY <2>2, <2>9
<1>4. ASSUME NEW a \in Attempt, RecordCopy(a), copyRun' # copyRun
      PROVE  Promise!Record(a)
  <2>1. /\ Alive(a) /\ pc[a] = "record" /\ pc[a] \in UnderLock
        /\ UNCHANGED <<flags, holder, table>> /\ "success" \in copyRun'
    BY <1>4 DEF RecordCopy, At, Alive, UnderLock, AttemptPC, inputs, lockVars
  <2>2. holder = a
    BY <2>1, HolderAtWork
  <2>3. Ours = Copied
    BY <2>1 DEF CopyInOrder, Whole, Ours
  <2>4. UNCHANGED Succeeded
    BY <1>4, SameSuccesses DEF RecordCopy, At
  <2>5. QED
    BY <2>1, <2>2, <2>3, <2>4, SameRows DEF Promise!Record, Theirs, Ours, Succeeded
<1>5. ASSUME NEW a \in Attempt, ReleaseLock(a)
      PROVE  Promise!Succeed(a) \/ Promise!Leave(a) \/ UNCHANGED mapped
  <2>1. Alive(a) /\ pc[a] \in UnderLock /\ UNCHANGED <<flags, table, copyRun>>
    BY <1>5 DEF ReleaseLock, At, Alive, UnderLock, AttemptPC, inputs, rows
  <2>2. holder = a /\ holder' \in {None, a}
    BY <1>5, <2>1, HolderAtWork DEF ReleaseLock, Lock!Release, Lock!HolderWithout
  <2>3. CASE pc[a] = "release"
    <3>1. Ours = Copied \/ "success" \in copyRun
      BY <2>1, <2>3 DEF CopyBehind, Behind, Whole, Ours
    <3>2. Succeeded' = Succeeded \union {a}
      <4>1. Goto(a, "migrated")
        BY <1>5, <2>3 DEF ReleaseLock, At
      <4>2. QED
        BY <4>1 DEF Goto, Succeeded, TypeOK
    <3>3. QED
      BY <2>1, <2>2, <3>1, <3>2, SameRows DEF Promise!Succeed, Theirs, Ours, Succeeded
  <2>4. CASE pc[a] = "release failed"
    <3>1. UNCHANGED Succeeded
      <4>1. Goto(a, "failed")
        BY <1>5, <2>4 DEF ReleaseLock, At
      <4>2. QED
        BY <2>4, <4>1, SameSuccesses
    <3>2. QED
      BY <2>1, <2>2, <3>1, SameRows DEF Promise!Leave, mapped, Theirs, Ours, Succeeded
  <2>5. QED
    BY <1>5, <2>3, <2>4 DEF ReleaseLock, At
<1>6. ASSUME NEW a \in Attempt, Configure(a)
      PROVE  UNCHANGED mapped \/ Promise!PodFails(a)
  <2>1. UNCHANGED <<flags, holder, table, copyRun>> /\ pc[a] = "migrated"
    BY <1>6 DEF Configure, At, inputs, lockVars
  <2>2. Succeeded' = Succeeded \/ Succeeded' = Succeeded \ {a}
    <3>1. CASE Goto(a, "done")
      BY <2>1, <3>1, SameSuccesses
    <3>2. CASE Goto(a, "failed")
      BY <3>2 DEF Goto, Succeeded, TypeOK
    <3>3. QED
      BY <1>6, <3>1, <3>2 DEF Configure
  <2>3. QED
    BY <2>1, <2>2, SameRows DEF mapped, Promise!PodFails, Theirs, Ours, Succeeded
<1>7. ASSUME NEW a \in Attempt, SessionEnds(a)
      PROVE  UNCHANGED mapped \/ \E b \in Attempt : Promise!Leave(b)
  <2>1. UNCHANGED <<flags, table, copyRun, pc>> /\ holder' \in {holder, None}
    BY <1>7 DEF SessionEnds, Lock!SessionEnds, Lock!HolderWithout, inputs, rows
  <2>2. UNCHANGED Theirs /\ UNCHANGED Ours /\ UNCHANGED Succeeded
    BY <2>1, SameRows DEF Succeeded
  <2>3. holder \in Attempt \union {None}
    BY DEF TypeOK, Lock!LockTypeOK
  <2>4. CASE holder' = holder
    BY <2>1, <2>2, <2>4 DEF mapped
  <2>5. CASE holder' = None /\ holder \in Attempt
    <3>1. Promise!Leave(holder)
      BY <2>1, <2>2, <2>5 DEF Promise!Leave, Theirs, Ours, Succeeded
    <3>2. QED
      BY <2>5, <3>1
  <2>6. QED
    BY <2>1, <2>3, <2>4, <2>5
<1>8. ASSUME NEW a \in Attempt, Baseline(a) \/ Truncate(a)
      PROVE  UNCHANGED mapped
  <2>1. /\ Alive(a) /\ pc[a] \in {"baseline", "truncate"}
        /\ UNCHANGED <<flags, holder>>
    BY <1>8 DEF Baseline, Truncate, At, Alive, inputs, lockVars
  <2>2. UNCHANGED Succeeded
    BY <1>8, SameSuccesses DEF Baseline, Truncate, At
  <2>3. UNCHANGED Theirs /\ UNCHANGED Ours /\ ("success" \in copyRun')  = ("success" \in copyRun)
    <3>1. CASE Baseline(a)
      <4>1. Existing = {}
        BY <2>1, <3>1 DEF CopyInOrder, Baseline, At
      <4>2. \A t \in Table : table[t] = "none" /\ table'[t] = "base"
        BY <3>1, <4>1 DEF Baseline, Existing
      <4>3. copyRun = {} /\ copyRun' = {}
        BY <3>1, <4>1, <4>2, MigrateAssumption DEF Baseline, Orderly
      <4>4. QED
        BY <4>2, <4>3 DEF Theirs, Ours, Copied
    <3>2. CASE Truncate(a)
      <4>1. PICK t \in todo[a] : Replace(t, "part", FALSE)
        BY <3>2 DEF Truncate
      <4>2. /\ "success" \notin copyRun /\ t \in Table
            /\ table[t] \in {"base", "part", "copy"} /\ table[t] # "copy"
        BY <2>1, <3>2 DEF CopyInOrder, Truncate, At, TypeOK
      <4>3. \A u \in Table : table'[u] = IF u = t THEN "part" ELSE table[u]
        BY <4>1 DEF Replace, TypeOK
      <4>4. "success" \notin copyRun'
        BY <4>1, <4>2 DEF Replace, rows
      <4>5. QED
        BY <4>2, <4>3, <4>4 DEF Theirs, Ours, Copied
    <3>3. QED
      BY <1>8, <3>1, <3>2
  <2>4. QED
    BY <2>1, <2>2, <2>3 DEF mapped
<1>9. ASSUME NEW a \in Attempt,
             \/ Start(a) \/ Refuse(a) \/ Plan(a) \/ Raises(a) \/ RecordError(a)
             \/ (RecordCopy(a) /\ copyRun' = copyRun) \/ ClearConfigured(a) \/ CopyFiles(a)
             \/ RecordFiles(a) \/ Die(a)
      PROVE  UNCHANGED mapped
  <2>1. UNCHANGED <<flags, table, holder>>
    BY <1>9 DEF Start, Refuse, Plan, Raises, RecordError, RecordCopy, ClearConfigured,
       CopyFiles, RecordFiles, Die, inputs, lockVars, Lock!Connect, Lock!Die
  <2>2. ("success" \in copyRun') = ("success" \in copyRun)
    <3>1. copyRun' \in {copyRun, copyRun \union {"error"}}
      BY <1>9 DEF Start, Refuse, Plan, Raises, RecordError, RecordCopy, ClearConfigured,
         CopyFiles, RecordFiles, Die, rows
    <3>2. QED
      BY <3>1
  <2>3. UNCHANGED Succeeded
    BY <1>9 DEF Start, Refuse, Plan, Raises, RecordError, RecordCopy, ClearConfigured,
       CopyFiles, RecordFiles, Die, At, Goto, Succeeded, TypeOK
  <2>4. QED
    BY <2>1, <2>2, <2>3, SameRows DEF mapped
<1>10. ASSUME NEW a \in Attempt, GiveUpLock(a)
      PROVE  UNCHANGED mapped \/ Promise!Take(a)
  <2>1. UNCHANGED <<flags, table, copyRun>>
    BY <1>10 DEF GiveUpLock, inputs, rows
  <2>2. holder' = holder \/ (holder = None /\ holder' = a)
    BY <1>10 DEF GiveUpLock, Lock!TimeOut, Lock!PollFails
  <2>3. UNCHANGED Succeeded
    BY <1>10, SameSuccesses DEF GiveUpLock, At
  <2>4. QED
    BY <2>1, <2>2, <2>3, SameRows DEF mapped, Promise!Take, Theirs, Ours, Succeeded
<1>11. UNCHANGED vars => UNCHANGED mapped
  BY DEF vars, inputs, lockVars, rows, mapped, Theirs, Ours, Succeeded
<1>12. QED
  BY <1>1, <1>2, <1>3, <1>4, <1>5, <1>6, <1>7, <1>8, <1>9, <1>10, <1>11 DEF Next, Promise!PromiseNext

(* Through drops and copies that die half way, the tables of a copy on      *)
(* record go only to an attempt with both flags, those of an instance that  *)
(* was there only to one with MIGRATE_FORCE; only a whole copy comes on     *)
(* record; and an attempt succeeds only with a whole copy or one on record. *)
THEOREM TargetIsKept == Spec => TargetKept
<1>1. Init => CopyBehind
  BY DEF Init, CopyBehind, Behind
<1>2. Spec => [](Orderly /\ CopyBehind)
  BY <1>1, InitOrderly, OrderlyStep, BehindStep, PTL DEF Spec
<1>3. Orderly /\ CopyBehind /\ [Next]_vars => [Promise!PromiseNext]_mapped
  BY PromiseStep
<1>4. mapped = <<flags, holder, {t \in Table : table[t] = "other"},
                 {t \in Copied : table[t] = "copy"}, "success" \in copyRun,
                 {a \in Attempt : pc[a] \in {"migrated", "done"}}, lost # {}>>
  BY DEF mapped, Theirs, Ours, Succeeded
<1>5. QED
  BY <1>2, <1>3, InitPromise, PTL
  DEF Spec, TargetKept, Promise!PromiseSpec, Promise!promiseVars, mapped, Theirs, Ours, Succeeded
=============================================================================
