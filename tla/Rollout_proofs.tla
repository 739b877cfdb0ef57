--------------------------- MODULE Rollout_proofs ---------------------------
(***************************************************************************)
(* The rollout and its lock, for any number of Jobs and pods, any          *)
(* revisions and any length of the record.  First the lock on its own:     *)
(* LockInv is inductive, and only its holder's release or the end of its   *)
(* session frees it.  Then the rollout: RolloutInv is inductive, with      *)
(* LockInv's steps in it; runs overlap only after a lost lock session; a   *)
(* record stays whole and true; Rollout implements RolloutPromise; and     *)
(* what it does to the lock are steps of ConfigLock.                       *)
(***************************************************************************)
EXTENDS Rollout, SequenceTheorems, TLAPS

-----------------------------------------------------------------------------
(* The lock, for any set of processes: what the server knows of it (LockInv)*)
(* is inductive; mutual exclusion, and who may free it, follow.             *)

LEMMA LockInitInv == LockInit => LockInv
BY NoneAssumption DEF LockInit, LockInv, LockTypeOK, HolderSession, Holds

LEMMA LockStepInv == LockInv /\ [LockNext]_lockVars => LockInv'
<1> SUFFICES ASSUME LockInv, [LockNext]_lockVars
             PROVE  LockInv'
  OBVIOUS
<1> USE NoneAssumption DEF LockInv, LockTypeOK, HolderSession, Holds
<1>1. ASSUME NEW p \in Proc, Connect(p)
      PROVE  LockInv'
  BY <1>1 DEF Connect
<1>2. ASSUME NEW p \in Proc, TryLock(p)
      PROVE  LockInv'
  BY <1>2 DEF TryLock
<1>3. ASSUME NEW p \in Proc, TimeOut(p)
      PROVE  LockInv'
  BY <1>3 DEF TimeOut
<1>4. ASSUME NEW p \in Proc, PollFails(p)
      PROVE  LockInv'
  BY <1>4 DEF PollFails
<1>5. ASSUME NEW p \in Proc, Release(p)
      PROVE  LockInv'
  BY <1>5 DEF Release, HolderWithout
<1>6. ASSUME NEW p \in Proc, Die(p)
      PROVE  LockInv'
  BY <1>6 DEF Die
<1>7. ASSUME NEW p \in Proc, SessionEnds(p)
      PROVE  LockInv'
  BY <1>7 DEF SessionEnds, HolderWithout
<1>8. CASE UNCHANGED lockVars
  BY <1>8 DEF lockVars
<1>9. QED
  BY <1>1, <1>2, <1>3, <1>4, <1>5, <1>6, <1>7, <1>8 DEF LockNext

LEMMA LockKeeps == LockInit /\ [][LockNext]_lockVars => []LockInv
<1>1. LockInit => LockInv
  BY LockInitInv
<1>2. LockInv /\ [LockNext]_lockVars => LockInv'
  BY LockStepInv
<1>3. QED
  BY <1>1, <1>2, PTL

LEMMA LockFrees == LockInit /\ [][LockNext]_lockVars => FreedOnlyByItsHolder
<1> DEFINE Freed == \A p \in Proc : holder = p /\ holder' # p
                      => p \notin backend' /\ client[p] # "polling"
<1>1. LockInv /\ [LockNext]_lockVars => [Freed]_lockVars
  <2> SUFFICES ASSUME LockInv, LockNext, NEW p \in Proc, holder = p, holder' # p
               PROVE  p \notin backend' /\ client[p] # "polling"
    BY DEF lockVars
  <2>1. PICK q \in Proc :
          \/ Connect(q) \/ TryLock(q) \/ TimeOut(q) \/ PollFails(q)
          \/ Release(q) \/ Die(q) \/ SessionEnds(q)
    BY DEF LockNext
  <2>2. client[p] # "polling"
    BY NoneAssumption DEF LockInv, HolderSession
  <2>3. (Release(q) \/ SessionEnds(q)) /\ q = p
    BY <2>1, NoneAssumption
    DEF Connect, TryLock, TimeOut, PollFails, Release, Die, SessionEnds, HolderWithout
  <2>4. p \notin backend'
    BY <2>3 DEF Release, SessionEnds
  <2>5. QED
    BY <2>2, <2>4
<1>2. QED
  BY <1>1, LockKeeps, PTL DEF FreedOnlyByItsHolder

(* The type of the lock's state and what the server knows of its holder     *)
(* hold in every state, for any number of processes.                        *)
THEOREM LockInvariant == LockSpec => []LockInv
  BY LockKeeps, PTL DEF LockSpec

(* Two processes never both run under a lock that the server agrees on:     *)
(* runs overlap only when one has lost its session.                         *)
THEOREM LockExclusion == LockSpec => []OverlapNeedsLoss
<1>1. LockInv => OverlapNeedsLoss
  BY DEF LockInv, HolderSession, OverlapNeedsLoss
<1>2. QED
  BY <1>1, LockInvariant, PTL

(* No step of another process takes the lock from its holder.               *)
THEOREM LockFreedByHolder == LockSpec => FreedOnlyByItsHolder
  BY LockFrees, PTL DEF LockSpec

-----------------------------------------------------------------------------
(* The record as a sequence *)

(* Dropping a run from a record leaves a record of the other runs. *)
LEMMA WithoutType ==
  ASSUME NEW s \in Seq(Revision), NEW r \in Revision
  PROVE  /\ Without(s, r) \in Seq(Revision)
         /\ \A i \in DOMAIN Without(s, r) : \E k \in DOMAIN s : Without(s, r)[i] = s[k]
<1>1. CASE ~ \E i \in DOMAIN s : s[i] = r
  BY <1>1 DEF Without
<1>2. CASE \E i \in DOMAIN s : s[i] = r
  <2> DEFINE n == CHOOSE i \in DOMAIN s : s[i] = r
             a == SubSeq(s, 1, n - 1)
             b == SubSeq(s, n + 1, Len(s))
  <2>0. n \in DOMAIN s /\ s[n] = r
    BY <1>2
  <2>1. n \in 1..Len(s) /\ Without(s, r) = a \o b
    <3>1. Without(s, r) = RemoveAt(s, n)
      BY <1>2 DEF Without
    <3>2. QED
      BY <2>0, <3>1 DEF RemoveAt
  <2> HIDE DEF n
  <2>2. /\ a \in Seq(Revision) /\ Len(a) = n - 1
        /\ \A i \in 1..Len(a) : a[i] = s[i]
    BY <2>1, SubSeqProperties
  <2>3. /\ b \in Seq(Revision) /\ Len(b) = Len(s) - n
        /\ \A i \in 1..Len(b) : b[i] = s[n + i]
    BY <2>1, SubSeqProperties
  <2> HIDE DEF a, b
  <2>4. /\ a \o b \in Seq(Revision) /\ Len(a \o b) = Len(a) + Len(b)
        /\ \A i \in 1..(Len(a) + Len(b)) :
             (a \o b)[i] = IF i <= Len(a) THEN a[i] ELSE b[i - Len(a)]
    BY <2>2, <2>3, ConcatProperties
  <2>5. ASSUME NEW i \in 1..Len(a \o b)
        PROVE  \E k \in 1..Len(s) : (a \o b)[i] = s[k]
    <3>0. Len(a \o b) = Len(s) - 1
      BY <2>1, <2>2, <2>3, <2>4
    <3>1. CASE i <= n - 1
      BY <3>0, <3>1, <2>1, <2>2, <2>4
    <3>2. CASE i > n - 1
      <4>1. (a \o b)[i] = b[i - (n - 1)] /\ i - (n - 1) \in 1..Len(b)
        BY <3>0, <3>2, <2>1, <2>2, <2>3, <2>4
      <4>2. b[i - (n - 1)] = s[n + (i - (n - 1))]
        BY <4>1, <2>3
      <4>3. n + (i - (n - 1)) \in 1..Len(s)
        BY <3>0, <3>2, <2>1
      <4>4. QED
        BY <4>1, <4>2, <4>3
    <3>3. QED
      BY <3>1, <3>2, <2>1
  <2>6. DOMAIN (a \o b) = 1..Len(a \o b) /\ DOMAIN s = 1..Len(s)
    BY <2>4
  <2>7. QED
    BY <2>1, <2>4, <2>5, <2>6
<1>3. QED
  BY <1>1, <1>2

(* Only that run is dropped. *)
LEMMA WithoutKeeps ==
  ASSUME NEW s \in Seq(Revision), NEW r \in Revision, NEW k \in DOMAIN s, s[k] # r
  PROVE  \E i \in DOMAIN Without(s, r) : Without(s, r)[i] = s[k]
<1>1. CASE ~ \E i \in DOMAIN s : s[i] = r
  BY <1>1 DEF Without
<1>2. CASE \E i \in DOMAIN s : s[i] = r
  <2> DEFINE n == CHOOSE i \in DOMAIN s : s[i] = r
             a == SubSeq(s, 1, n - 1)
             b == SubSeq(s, n + 1, Len(s))
  <2>0. n \in DOMAIN s /\ s[n] = r
    BY <1>2
  <2>1. n \in 1..Len(s) /\ k \in 1..Len(s) /\ k # n /\ Without(s, r) = a \o b
    <3>1. Without(s, r) = RemoveAt(s, n)
      BY <1>2 DEF Without
    <3>2. QED
      BY <2>0, <3>1 DEF RemoveAt
  <2> HIDE DEF n
  <2>2. a \in Seq(Revision) /\ Len(a) = n - 1 /\ \A i \in 1..Len(a) : a[i] = s[i]
    BY <2>1, SubSeqProperties
  <2>3. b \in Seq(Revision) /\ Len(b) = Len(s) - n /\ \A i \in 1..Len(b) : b[i] = s[n + i]
    BY <2>1, SubSeqProperties
  <2> HIDE DEF a, b
  <2>4. /\ DOMAIN (a \o b) = 1..(Len(a) + Len(b))
        /\ \A i \in 1..(Len(a) + Len(b)) :
             (a \o b)[i] = IF i <= Len(a) THEN a[i] ELSE b[i - Len(a)]
    <3>1. /\ a \o b \in Seq(Revision) /\ Len(a \o b) = Len(a) + Len(b)
          /\ \A i \in 1..(Len(a) + Len(b)) :
               (a \o b)[i] = IF i <= Len(a) THEN a[i] ELSE b[i - Len(a)]
      BY <2>2, <2>3, ConcatProperties
    <3>2. QED
      BY <3>1, LenProperties
  <2>5. CASE k < n
    <3>1. k \in DOMAIN (a \o b) /\ k \in 1..Len(a)
      BY <2>1, <2>2, <2>3, <2>4, <2>5
    <3>2. (a \o b)[k] = s[k]
      BY <2>1, <2>2, <2>3, <2>4, <3>1
    <3>3. QED
      BY <2>1, <3>1, <3>2
  <2>6. CASE k > n
    <3>1. k - n \in 1..Len(b) /\ b[k - n] = s[k]
      BY <2>1, <2>3, <2>6
    <3>2. k - 1 \in DOMAIN (a \o b) /\ (a \o b)[k - 1] = b[(k - 1) - (n - 1)]
      BY <2>1, <2>2, <2>3, <2>4, <2>6
    <3>3. (k - 1) - (n - 1) = k - n
      BY <2>1
    <3>4. QED
      BY <2>1, <3>1, <3>2, <3>3
  <2>7. QED
    BY <2>1, <2>5, <2>6
<1>3. QED
  BY <1>1, <1>2

(* A run moves to the end of the history; the other runs stay in it. *)
LEMMA MovedToEnd ==
  ASSUME NEW s \in Seq(Revision), NEW r \in Revision
  PROVE  ToSet(Append(Without(s, r), r)) = ToSet(s) \union {r}
<1> DEFINE w == Without(s, r)
           t == Append(w, r)
<1>1. /\ w \in Seq(Revision)
      /\ \A i \in DOMAIN w : \E k \in DOMAIN s : w[i] = s[k]
      /\ \A k \in DOMAIN s : s[k] # r => \E i \in DOMAIN w : w[i] = s[k]
  BY WithoutType, WithoutKeeps
<1> HIDE DEF w
<1>2. /\ DOMAIN w = 1..Len(w) /\ DOMAIN t = 1..Len(w) + 1
      /\ t[Len(w) + 1] = r /\ \A i \in DOMAIN w : t[i] = w[i]
  BY <1>1
<1>3. /\ \A i \in DOMAIN w : i \in DOMAIN t
      /\ Len(w) + 1 \in DOMAIN t
      /\ \A i \in DOMAIN t : i = Len(w) + 1 \/ i \in DOMAIN w
  BY <1>1, <1>2
<1> HIDE DEF t
<1>4. ToSet(t) \subseteq ToSet(s) \union {r}
  BY <1>1, <1>2, <1>3 DEF ToSet
<1>5. ToSet(s) \union {r} \subseteq ToSet(t)
  BY <1>1, <1>2, <1>3 DEF ToSet
<1>6. QED
  BY <1>4, <1>5 DEF t, w

(* The last Keep runs of a record are a record of runs that were in it. *)
LEMMA NewestType ==
  ASSUME NEW s \in Seq(Revision)
  PROVE  /\ Newest(s) \in Seq(Revision)
         /\ \A i \in DOMAIN Newest(s) : \E k \in DOMAIN s : Newest(s)[i] = s[k]
<1>1. CASE Len(s) > Keep
  <2> DEFINE m == Len(s) - Keep + 1
             b == SubSeq(s, m, Len(s))
  <2>1. m \in 1..Len(s) /\ Newest(s) = b
    BY <1>1, RecordAssumption DEF Newest
  <2> HIDE DEF m
  <2>2. /\ b \in Seq(Revision) /\ Len(b) = Len(s) - m + 1
        /\ \A i \in 1..Len(b) : b[i] = s[m + i - 1]
    BY <2>1, SubSeqProperties
  <2> HIDE DEF b
  <2>3. ASSUME NEW i \in 1..Len(b)
        PROVE  \E k \in 1..Len(s) : b[i] = s[k]
    BY <2>1, <2>2
  <2>4. QED
    BY <2>1, <2>2, <2>3
<1>2. CASE ~ (Len(s) > Keep)
  BY <1>2 DEF Newest
<1>3. QED
  BY <1>1, <1>2

(* What record_configured writes holds the run and runs it had read.        *)
LEMMA RecordedRuns ==
  ASSUME NEW s \in Seq(Revision), NEW r \in Revision
  PROVE  LET new == Newest(Append(Without(s, r), r)) IN
         /\ new \in Seq(Revision)
         /\ \A i \in DOMAIN new : new[i] = r \/ \E k \in DOMAIN s : new[i] = s[k]
<1> DEFINE w == Without(s, r)
           t == Append(w, r)
<1>1. w \in Seq(Revision) /\ \A i \in DOMAIN w : \E k \in DOMAIN s : w[i] = s[k]
  BY WithoutType
<1> HIDE DEF w
<1>2. /\ t \in Seq(Revision) /\ DOMAIN t = 1..Len(w) + 1
      /\ \A i \in DOMAIN t : t[i] = IF i = Len(w) + 1 THEN r ELSE w[i]
  BY <1>1
<1>3. \A i \in DOMAIN t : t[i] = r \/ \E k \in DOMAIN s : t[i] = s[k]
  <2> TAKE i \in DOMAIN t
  <2>1. i = Len(w) + 1 \/ i \in DOMAIN w
    BY <1>1, <1>2
  <2>2. QED
    BY <1>1, <1>2, <2>1
<1> HIDE DEF t
<1>4. Newest(t) \in Seq(Revision) /\ \A i \in DOMAIN Newest(t) : \E k \in DOMAIN t : Newest(t)[i] = t[k]
  BY <1>2, NewestType
<1>5. \A i \in DOMAIN Newest(t) : Newest(t)[i] = r \/ \E k \in DOMAIN s : Newest(t)[i] = s[k]
  BY <1>3, <1>4
<1>6. QED
  BY <1>4, <1>5 DEF t, w

(* A record that holds nothing has no entries. *)
LEMMA NoEntries == \A i \in DOMAIN <<>> : FALSE
<1>1. <<>> \in Seq({}) /\ Len(<<>>) = 0
  BY EmptySeq
<1>2. DOMAIN <<>> = 1..0
  BY <1>1, LenProperties
<1>3. QED
  BY <1>2

-----------------------------------------------------------------------------
(* The inductive invariant *)

LEMMA InitInv == Init => RolloutInv
<1> SUFFICES ASSUME Init PROVE RolloutInv
  OBVIOUS
<1>1. TypeOK
  <2>1. configured \in Seq(Revision)
    BY RecordAssumption, EmptySeq DEF Init
  <2>2. applied \in [Revision -> SUBSET {"updates", "admin"}]
    BY DEF Init
  <2>3. read \in [Proc -> Seq(Revision)]
    BY EmptySeq DEF Init
  <2>4. runs \in Count!Row /\ readRuns \in [Proc -> Count!Row]
    BY DEF Init, Count!NoRow, Count!Row
  <2>5. pc \in [Proc -> JobPC] /\ pod \in [Pod -> PodPC] /\ tries \in [Pod -> 1..Retries]
    BY BoundAssumption DEF Init, JobPC, PodPC
  <2>6. LockTypeOK
    BY DEF Init, LockInit, LockTypeOK
  <2>7. QED
    BY <2>1, <2>2, <2>3, <2>4, <2>5, <2>6 DEF Init, TypeOK
<1>2. HolderSession
  BY DEF Init, LockInit, HolderSession, Holds
<1>3. LockStates
  BY DEF Init, LockInit, LockStates, UnderLock, Work
<1>4. WorkInOrder
  <2>1. \A i \in DOMAIN configured : configured[i] \in Revision /\ Contains(configured, configured[i])
    BY <1>1, ElementOfSeq, LenProperties DEF TypeOK, Contains
  <2>2. Usable(configured)
    BY <2>1 DEF Init, Usable
  <2>3. ASSUME NEW j \in Proc
        PROVE  Usable(read[j]) /\ pc[j] \notin AfterUpdates
    BY NoEntries DEF Init, Usable, AfterUpdates, AfterAdmin, AtRecord
  <2>4. QED
    BY <2>2, <2>3 DEF Init, WorkInOrder, AfterUpdates, AfterAdmin
<1>5. RecordHistory
  BY NoEntries DEF Init, RecordHistory, ToSet
<1>6. QED
  BY <1>1, <1>2, <1>3, <1>4, <1>5 DEF RolloutInv

(* db.record_run writes a row. *)
LEMMA CountType ==
  ASSUME TypeOK, NEW j \in Proc, NEW status \in Count!Status,
         Count!Read(j) \/ Count!Write(j, status) \/ UNCHANGED recordVars
  PROVE  runs' \in Count!Row /\ readRuns' \in [Proc -> Count!Row]
<1>1. Count!NoRow \in Count!Row
  BY DEF Count!NoRow, Count!Row
<1>2. CASE Count!Read(j)
  BY <1>2 DEF Count!Read, TypeOK
<1>3. CASE Count!Write(j, status)
  BY <1>1, <1>3 DEF Count!Write, TypeOK, Count!Row
<1>4. CASE UNCHANGED recordVars
  BY <1>4 DEF recordVars, TypeOK
<1>5. QED
  BY <1>2, <1>3, <1>4

(* The polls of a waiting pod are counted down from Retries. *)
LEMMA PollCount ==
  /\ Retries \in 1..Retries
  /\ \A n \in 1..Retries : n # 1 => n - 1 \in 1..Retries
BY BoundAssumption

LEMMA TypeStep == TypeOK /\ [Next]_vars => TypeOK'
<1> SUFFICES ASSUME TypeOK, [Next]_vars PROVE TypeOK'
  OBVIOUS
<1> USE DEF TypeOK, JobPC, PodPC, UnderLock, Work, Ended, Goto, Become, vars, lockVars, dataVars, liveVars,
            recordVars, podVars, LockTypeOK
<1>1. ASSUME NEW j \in Proc, Start(j)
      PROVE  TypeOK'
  BY <1>1 DEF Start, Connect
<1>2. ASSUME NEW j \in Proc, Refuse(j)
      PROVE  TypeOK'
  BY <1>2 DEF Refuse
<1>3. ASSUME NEW j \in Proc, TakeLock(j)
      PROVE  TypeOK'
  BY <1>3 DEF TakeLock, TryLock
<1>4. ASSUME NEW j \in Proc, GiveUpLock(j)
      PROVE  TypeOK'
  BY <1>4 DEF GiveUpLock, TimeOut, PollFails
<1>5. ASSUME NEW j \in Proc, CheckSchema(j)
      PROVE  TypeOK'
  BY <1>5 DEF CheckSchema
<1>6. ASSUME NEW j \in Proc, Import(j)
      PROVE  TypeOK'
  BY <1>6 DEF Import
<1>7. ASSUME NEW j \in Proc, CheckLayout(j)
      PROVE  TypeOK'
  BY <1>7 DEF CheckLayout
<1>8. ASSUME NEW j \in Proc, RunUpdates(j)
      PROVE  TypeOK'
  <2>1. Wanted[j] \in Revision
    BY ProcessAssumption
  <2>2. CASE schema = "3.0"
    <3>0. applied' = [applied EXCEPT ![Wanted[j]] = @ \union {"updates"}]
      BY <1>8, <2>2 DEF RunUpdates
    <3>1. applied' \in [Revision -> SUBSET {"updates", "admin"}]
      BY <3>0, <2>1
    <3>2. pc' \in [Proc -> JobPC]
      BY <1>8, <2>2 DEF RunUpdates
    <3>3. QED
      BY <1>8, <3>1, <3>2 DEF RunUpdates
  <2>3. CASE schema # "3.0"
    BY <1>8, <2>3 DEF RunUpdates
  <2>4. QED
    BY <2>2, <2>3
<1>9. ASSUME NEW j \in Proc, SetupAdmin(j)
      PROVE  TypeOK'
  <2>1. applied' \in [Revision -> SUBSET {"updates", "admin"}]
    BY <1>9, ProcessAssumption DEF SetupAdmin
  <2>2. pc' \in [Proc -> JobPC]
    BY <1>9 DEF SetupAdmin
  <2>3. QED
    BY <1>9, <2>1, <2>2 DEF SetupAdmin
<1>10. ASSUME NEW j \in Proc, CheckLive(j)
      PROVE  TypeOK'
  BY <1>10 DEF CheckLive
<1>11. ASSUME NEW j \in Proc, SetLive(j)
      PROVE  TypeOK'
  BY <1>11 DEF SetLive
<1>12. ASSUME NEW j \in Proc, ReadConfigured(j)
      PROVE  TypeOK'
  <2>1. read' \in [Proc -> Seq(Revision)]
    BY <1>12 DEF ReadConfigured
  <2>2. QED
    BY <1>12, <2>1 DEF ReadConfigured
<1>13. ASSUME NEW j \in Proc, WriteConfigured(j)
      PROVE  TypeOK'
  <2>1. Wanted[j] \in Revision /\ read[j] \in Seq(Revision)
    BY ProcessAssumption
  <2>2. configured' \in Seq(Revision)
    BY <1>13, <2>1, RecordedRuns DEF WriteConfigured
  <2>3. finished' \in Seq(Revision)
    <3>1. Without(finished, Wanted[j]) \in Seq(Revision)
      BY <2>1, WithoutType
    <3>2. QED
      BY <1>13, <2>1, <3>1, AppendProperties DEF WriteConfigured
  <2>4. read' \in [Proc -> Seq(Revision)]
    BY <1>13, EmptySeq DEF WriteConfigured
  <2>5. pc' \in [Proc -> JobPC]
    BY <1>13 DEF WriteConfigured
  <2>6. QED
    BY <1>13, <2>2, <2>3, <2>4, <2>5 DEF WriteConfigured
<1>14. ASSUME NEW j \in Proc, WorkFails(j)
      PROVE  TypeOK'
  BY <1>14 DEF WorkFails
<1>15. ASSUME NEW j \in Proc, CountError(j)
      PROVE  TypeOK'
  <2>1. runs' \in Count!Row /\ readRuns' \in [Proc -> Count!Row]
    BY <1>15, CountType DEF CountError, Count!Status
  <2>2. pc' \in [Proc -> JobPC]
    BY <1>15 DEF CountError
  <2>3. QED
    BY <1>15, <2>1, <2>2 DEF CountError
<1>16. ASSUME NEW j \in Proc, ReleaseLock(j)
      PROVE  TypeOK'
  BY <1>16 DEF ReleaseLock, Release, HolderWithout
<1>17. ASSUME NEW j \in Proc, CountSuccess(j)
      PROVE  TypeOK'
  <2>1. runs' \in Count!Row /\ readRuns' \in [Proc -> Count!Row]
    BY <1>17, CountType DEF CountSuccess, Count!Status
  <2>2. pc' \in [Proc -> JobPC]
    BY <1>17 DEF CountSuccess
  <2>3. QED
    BY <1>17, <2>1, <2>2 DEF CountSuccess
<1>18. ASSUME NEW j \in Proc, JobDies(j)
      PROVE  TypeOK'
  BY <1>18 DEF JobDies, Die
<1>19. ASSUME NEW j \in Proc, JobSessionEnds(j)
      PROVE  TypeOK'
  BY <1>19 DEF JobSessionEnds, SessionEnds, HolderWithout
<1>20. ASSUME NEW p \in Pod, Serve(p)
      PROVE  TypeOK'
  <2>1. tries' \in [Pod -> 1..Retries] /\ pod' \in [Pod -> PodPC]
    BY <1>20, PollCount DEF Serve
  <2>2. QED
    BY <1>20, <2>1 DEF Serve
<1>21. ASSUME NEW p \in Pod, PollAgain(p)
      PROVE  TypeOK'
  <2>1. tries' \in [Pod -> 1..Retries]
    BY <1>21, PollCount DEF PollAgain
  <2>2. QED
    BY <1>21, <2>1 DEF PollAgain
<1>22. ASSUME NEW p \in Pod, PollRaises(p)
      PROVE  TypeOK'
  <2>1. tries' \in [Pod -> 1..Retries] /\ pod' \in [Pod -> PodPC]
    BY <1>22, PollCount DEF PollRaises
  <2>2. QED
    BY <1>22, <2>1 DEF PollRaises
<1>23. ASSUME NEW p \in Pod, PodStops(p)
      PROVE  TypeOK'
  BY <1>23 DEF PodStops
<1>24. ASSUME NEW p \in Pod, PodRestarts(p)
      PROVE  TypeOK'
  BY <1>24 DEF PodRestarts
<1>25. ASSUME NEW p \in Pod, AdminSetsLive(p)
      PROVE  TypeOK'
  BY <1>25 DEF AdminSetsLive
<1>26. CASE UNCHANGED vars
  BY <1>26
<1>27. QED
  BY <1>1, <1>2, <1>3, <1>4, <1>5, <1>6, <1>7, <1>8, <1>9, <1>10, <1>11, <1>12,
     <1>13, <1>14, <1>15, <1>16, <1>17, <1>18, <1>19, <1>20, <1>21, <1>22, <1>23, <1>24, <1>25, <1>26
  DEF Next, JobStep

(* A step of a Job that leaves the lock alone and keeps it on its side of   *)
(* the lock keeps what the lock and the Jobs know of each other.            *)
LEMMA LockKept ==
  ASSUME pc \in [Proc -> JobPC], HolderSession, LockStates, UNCHANGED lockVars,
         NEW j \in Proc, NEW step, Goto(j, step),
         step \in UnderLock <=> pc[j] \in UnderLock,
         step = "lock" <=> pc[j] = "lock",
         step = "dead" <=> pc[j] = "dead"
  PROVE  HolderSession' /\ LockStates'
<1>1. HolderSession'
  BY DEF lockVars, HolderSession, Holds
<1>2. LockStates'
  <2>1. \A k \in Proc : pc'[k] = IF k = j THEN step ELSE pc[k]
    BY DEF Goto
  <2>2. QED
    BY <2>1 DEF lockVars, LockStates
<1>3. QED
  BY <1>1, <1>2

LEMMA LockStatesStep ==
  TypeOK /\ HolderSession /\ LockStates /\ [Next]_vars
    => HolderSession' /\ LockStates'
<1> SUFFICES ASSUME TypeOK, HolderSession, LockStates, [Next]_vars
             PROVE  HolderSession' /\ LockStates'
  OBVIOUS
<1>0. /\ client \in [Proc -> {"out", "polling", "held", "gone"}]
      /\ backend \subseteq Proc /\ holder \in Proc \union {None} /\ lost \subseteq Proc
      /\ pc \in [Proc -> JobPC]
  BY DEF TypeOK, LockTypeOK
<1> USE <1>0, NoneAssumption
    DEF UnderLock, Work
<1>1. ASSUME NEW j \in Proc, Start(j)
      PROVE  HolderSession' /\ LockStates'
  BY <1>1 DEF Start, Connect, LockStates, Ended, JobPC, Goto,
       HolderSession, Holds
<1>2. ASSUME NEW j \in Proc, Refuse(j)
      PROVE  HolderSession' /\ LockStates'
  <2>1. pc[j] = "start" /\ UNCHANGED lockVars /\ Goto(j, "failed")
    BY <1>2 DEF Refuse
  <2>2. QED
    BY <2>1, LockKept
<1>3. ASSUME NEW j \in Proc, TakeLock(j)
      PROVE  HolderSession' /\ LockStates'
  BY <1>3 DEF TakeLock, TryLock, LockStates, Ended, JobPC, Goto,
       HolderSession, Holds
<1>4. ASSUME NEW j \in Proc, GiveUpLock(j)
      PROVE  HolderSession' /\ LockStates'
  <2>1. CASE TimeOut(j)
    BY <1>4, <2>1 DEF GiveUpLock, TimeOut, LockStates, Ended, JobPC, Goto,
       HolderSession, Holds
  <2>2. CASE PollFails(j)
    <3>1. /\ client' = [client EXCEPT ![j] = "out"] /\ UNCHANGED <<backend, lost>>
          /\ holder' = holder \/ (j \in backend /\ holder = None /\ holder' = j)
          /\ pc' = [pc EXCEPT ![j] = "failed"] /\ pc[j] = "lock" /\ client[j] = "polling"
      BY <1>4, <2>2 DEF GiveUpLock, PollFails, Goto
    <3>2. HolderSession'
      <4>1. CASE holder' = holder
        BY <3>1, <4>1 DEF HolderSession, Holds
      <4>2. CASE j \in backend /\ holder = None /\ holder' = j
        BY <3>1, <4>2 DEF HolderSession, Holds
      <4>3. QED
        BY <3>1, <4>1, <4>2
    <3>3. LockStates'
      BY <3>1 DEF LockStates, Ended, JobPC
    <3>4. QED
      BY <3>2, <3>3
  <2>3. QED
    BY <1>4, <2>1, <2>2 DEF GiveUpLock
<1>5. ASSUME NEW j \in Proc, CheckSchema(j)
      PROVE  HolderSession' /\ LockStates'
  <2>1. pc[j] = "schema" /\ UNCHANGED lockVars /\ (Goto(j, "layout") \/ Goto(j, "import"))
    BY <1>5 DEF CheckSchema
  <2>2. QED
    BY <2>1, LockKept
<1>6. ASSUME NEW j \in Proc, Import(j)
      PROVE  HolderSession' /\ LockStates'
  <2>1. pc[j] = "import" /\ UNCHANGED lockVars /\ (Goto(j, "layout") \/ Goto(j, "failing"))
    BY <1>6 DEF Import
  <2>2. QED
    BY <2>1, LockKept
<1>7. ASSUME NEW j \in Proc, CheckLayout(j)
      PROVE  HolderSession' /\ LockStates'
  <2>1. pc[j] = "layout" /\ UNCHANGED lockVars /\ (Goto(j, "failing") \/ Goto(j, "updates"))
    BY <1>7 DEF CheckLayout
  <2>2. QED
    BY <2>1, LockKept
<1>8. ASSUME NEW j \in Proc, RunUpdates(j)
      PROVE  HolderSession' /\ LockStates'
  <2>1. pc[j] = "updates" /\ UNCHANGED lockVars /\ (Goto(j, "admin") \/ Goto(j, "failing"))
    BY <1>8 DEF RunUpdates
  <2>2. QED
    BY <2>1, LockKept
<1>9. ASSUME NEW j \in Proc, SetupAdmin(j)
      PROVE  HolderSession' /\ LockStates'
  <2>1. pc[j] = "admin" /\ UNCHANGED lockVars /\ Goto(j, "live")
    BY <1>9 DEF SetupAdmin
  <2>2. QED
    BY <2>1, LockKept
<1>10. ASSUME NEW j \in Proc, CheckLive(j)
      PROVE  HolderSession' /\ LockStates'
  <2>1. pc[j] = "live" /\ UNCHANGED lockVars /\ (Goto(j, "set live") \/ Goto(j, "read record"))
    BY <1>10 DEF CheckLive
  <2>2. QED
    BY <2>1, LockKept
<1>11. ASSUME NEW j \in Proc, SetLive(j)
      PROVE  HolderSession' /\ LockStates'
  <2>1. pc[j] = "set live" /\ UNCHANGED lockVars /\ Goto(j, "read record")
    BY <1>11 DEF SetLive
  <2>2. QED
    BY <2>1, LockKept
<1>12. ASSUME NEW j \in Proc, ReadConfigured(j)
      PROVE  HolderSession' /\ LockStates'
  <2>1. pc[j] = "read record" /\ UNCHANGED lockVars /\ Goto(j, "write record")
    BY <1>12 DEF ReadConfigured
  <2>2. QED
    BY <2>1, LockKept
<1>13. ASSUME NEW j \in Proc, WriteConfigured(j)
      PROVE  HolderSession' /\ LockStates'
  <2>1. pc[j] = "write record" /\ UNCHANGED lockVars /\ (Goto(j, "release") \/ Goto(j, "failing"))
    BY <1>13 DEF WriteConfigured
  <2>2. QED
    BY <2>1, LockKept
<1>14. ASSUME NEW j \in Proc, WorkFails(j)
      PROVE  HolderSession' /\ LockStates'
  <2>1. pc[j] \in Work /\ UNCHANGED lockVars /\ Goto(j, "failing")
    BY <1>14 DEF WorkFails
  <2>2. QED
    BY <2>1, LockKept
<1>15. ASSUME NEW j \in Proc, CountError(j)
      PROVE  HolderSession' /\ LockStates'
  <2>1. pc[j] \in {"failing", "count error"} /\ UNCHANGED lockVars /\ (Goto(j, "count error") \/ Goto(j, "release failed"))
    BY <1>15 DEF CountError
  <2>2. QED
    BY <2>1, LockKept
<1>16. ASSUME NEW j \in Proc, ReleaseLock(j)
      PROVE  HolderSession' /\ LockStates'
  BY <1>16 DEF ReleaseLock, Release, HolderWithout, LockStates, Ended, JobPC, Goto,
       HolderSession, Holds
<1>17. ASSUME NEW j \in Proc, CountSuccess(j)
      PROVE  HolderSession' /\ LockStates'
  <2>1. pc[j] \in {"count", "count success"} /\ UNCHANGED lockVars /\ (Goto(j, "count success") \/ Goto(j, "done"))
    BY <1>17 DEF CountSuccess
  <2>2. QED
    BY <2>1, LockKept
<1>18. ASSUME NEW j \in Proc, JobDies(j)
      PROVE  HolderSession' /\ LockStates'
  BY <1>18 DEF JobDies, Die, LockStates, Ended, JobPC, Goto,
       HolderSession, Holds
<1>19. ASSUME NEW j \in Proc, JobSessionEnds(j)
      PROVE  HolderSession' /\ LockStates'
  BY <1>19 DEF JobSessionEnds, SessionEnds, HolderWithout, LockStates, Ended, JobPC, Goto,
       HolderSession, Holds
<1>20. ASSUME NEW p \in Pod, Serve(p)
      PROVE  HolderSession' /\ LockStates'
  BY <1>20 DEF Serve, lockVars, LockStates, HolderSession, Holds
<1>21. ASSUME NEW p \in Pod, PollAgain(p)
      PROVE  HolderSession' /\ LockStates'
  BY <1>21 DEF PollAgain, lockVars, LockStates, HolderSession, Holds
<1>22. ASSUME NEW p \in Pod, PollRaises(p)
      PROVE  HolderSession' /\ LockStates'
  BY <1>22 DEF PollRaises, lockVars, LockStates, HolderSession, Holds
<1>23. ASSUME NEW p \in Pod, PodStops(p)
      PROVE  HolderSession' /\ LockStates'
  BY <1>23 DEF PodStops, lockVars, LockStates, HolderSession, Holds
<1>24. ASSUME NEW p \in Pod, PodRestarts(p)
      PROVE  HolderSession' /\ LockStates'
  BY <1>24 DEF PodRestarts, lockVars, LockStates, HolderSession, Holds
<1>25. ASSUME NEW p \in Pod, AdminSetsLive(p)
      PROVE  HolderSession' /\ LockStates'
  BY <1>25 DEF AdminSetsLive, lockVars, LockStates, HolderSession, Holds
<1>26. CASE UNCHANGED vars
  BY <1>26 DEF vars, lockVars, LockStates, HolderSession, Holds
<1>27. QED
  BY <1>1, <1>2, <1>3, <1>4, <1>5, <1>6, <1>7, <1>8, <1>9, <1>10, <1>11, <1>12,
     <1>13, <1>14, <1>15, <1>16, <1>17, <1>18, <1>19, <1>20, <1>21, <1>22, <1>23, <1>24, <1>25, <1>26
  DEF Next, JobStep

(* A step that keeps the record and undoes no work keeps the order, when    *)
(* the Job it moves has done what its next step needs.                      *)
LEMMA WorkKept ==
  ASSUME TypeOK, WorkInOrder, UNCHANGED <<configured, read>>,
         applied' \in [Revision -> SUBSET {"updates", "admin"}],
         \A r \in Revision : applied[r] \subseteq applied'[r],
         schema = "3.0" => schema' = "3.0",
         live # "unset" \/ ignored => live' # "unset" \/ ignored',
         \A k \in Proc :
           /\ pc'[k] \in AfterUpdates => schema' = "3.0" /\ "updates" \in applied'[Wanted[k]]
           /\ pc'[k] \in AfterAdmin => "admin" \in applied'[Wanted[k]]
           /\ pc'[k] \in AtRecord => live' # "unset" \/ ignored'
  PROVE  WorkInOrder'
<1>1. ASSUME NEW s \in Seq(Revision), Usable(s), NEW i \in DOMAIN s
      PROVE  applied'[s[i]] = {"updates", "admin"}
  <2>1. s[i] \in Revision
    BY ElementOfSeq, LenProperties
  <2>2. QED
    BY <1>1, <2>1 DEF TypeOK, Usable
<1>2. Usable(configured)'
  BY <1>1 DEF Usable, WorkInOrder, TypeOK
<1>3. \A j \in Proc : Usable(read[j])'
  BY <1>1 DEF Usable, WorkInOrder, TypeOK
<1>4. QED
  BY <1>2, <1>3 DEF WorkInOrder

LEMMA WorkStep ==
  TypeOK /\ WorkInOrder /\ [Next]_vars => WorkInOrder'
<1> SUFFICES ASSUME TypeOK, WorkInOrder, [Next]_vars
             PROVE  WorkInOrder'
  OBVIOUS
<1>0. /\ pc \in [Proc -> JobPC]
      /\ applied \in [Revision -> SUBSET {"updates", "admin"}]
      /\ read \in [Proc -> Seq(Revision)] /\ configured \in Seq(Revision)
      /\ \A j \in Proc : Wanted[j] \in Revision
  BY ProcessAssumption DEF TypeOK
<1> USE <1>0
    DEF WorkInOrder, AfterUpdates, AfterAdmin, AtRecord, Work, Ended, Goto, vars, dataVars, liveVars, podVars
<1>1. ASSUME NEW j \in Proc, Start(j)
      PROVE  WorkInOrder'
  BY <1>1 DEF Start, Usable
<1>2. ASSUME NEW j \in Proc, Refuse(j)
      PROVE  WorkInOrder'
  BY <1>2 DEF Refuse, Usable
<1>3. ASSUME NEW j \in Proc, TakeLock(j)
      PROVE  WorkInOrder'
  BY <1>3 DEF TakeLock, Usable
<1>4. ASSUME NEW j \in Proc, GiveUpLock(j)
      PROVE  WorkInOrder'
  BY <1>4 DEF GiveUpLock, Usable
<1>5. ASSUME NEW j \in Proc, CheckSchema(j)
      PROVE  WorkInOrder'
  BY <1>5 DEF CheckSchema, Usable
<1>6. ASSUME NEW j \in Proc, Import(j)
      PROVE  WorkInOrder'
  <2>1. /\ UNCHANGED <<configured, read>>
        /\ applied' \in [Revision -> SUBSET {"updates", "admin"}]
        /\ \A r \in Revision : applied[r] \subseteq applied'[r]
        /\ schema = "3.0" => schema' = "3.0"
        /\ live # "unset" \/ ignored => live' # "unset" \/ ignored'
    BY <1>6 DEF Import
  <2>2. \A k \in Proc :
          /\ pc'[k] \in AfterUpdates => schema' = "3.0" /\ "updates" \in applied'[Wanted[k]]
          /\ pc'[k] \in AfterAdmin => "admin" \in applied'[Wanted[k]]
          /\ pc'[k] \in AtRecord => live' # "unset" \/ ignored'
    <3>1. \A k \in Proc : pc'[k] = pc[k] \/ pc'[k] \in {"layout", "failing"}
      BY <1>6 DEF Import
    <3>2. UNCHANGED <<applied, live, ignored>>
      BY <1>6 DEF Import
    <3>3. QED
      BY <2>1, <3>1, <3>2
  <2>3. QED
    BY <2>1, <2>2, WorkKept
<1>7. ASSUME NEW j \in Proc, CheckLayout(j)
      PROVE  WorkInOrder'
  BY <1>7 DEF CheckLayout, Usable
<1>8. ASSUME NEW j \in Proc, RunUpdates(j)
      PROVE  WorkInOrder'
  <2>1. CASE schema = "3.0"
    <3>1. applied' = [applied EXCEPT ![Wanted[j]] = @ \union {"updates"}]
      BY <1>8, <2>1 DEF RunUpdates
    <3>2. /\ applied' \in [Revision -> SUBSET {"updates", "admin"}]
          /\ \A r \in Revision : applied[r] \subseteq applied'[r]
          /\ "updates" \in applied'[Wanted[j]]
      BY <3>1
    <3>3. /\ UNCHANGED <<configured, read, schema, live, ignored>>
          /\ \A k \in Proc : pc'[k] = pc[k] \/ (k = j /\ pc'[k] = "admin")
      BY <1>8, <2>1 DEF RunUpdates
    <3>4. \A k \in Proc :
            /\ pc'[k] \in AfterUpdates => schema' = "3.0" /\ "updates" \in applied'[Wanted[k]]
            /\ pc'[k] \in AfterAdmin => "admin" \in applied'[Wanted[k]]
            /\ pc'[k] \in AtRecord => live' # "unset" \/ ignored'
      BY <2>1, <3>2, <3>3
    <3>5. QED
      BY <3>2, <3>3, <3>4, WorkKept
  <2>2. CASE schema # "3.0"
    <3>1. /\ UNCHANGED <<configured, read, schema, live, ignored, applied>>
          /\ \A k \in Proc : pc'[k] = pc[k] \/ pc'[k] = "failing"
      BY <1>8, <2>2 DEF RunUpdates
    <3>2. QED
      BY <3>1 DEF Usable
  <2>3. QED
    BY <2>1, <2>2
<1>9. ASSUME NEW j \in Proc, SetupAdmin(j)
      PROVE  WorkInOrder'
  <2>1. /\ UNCHANGED <<configured, read>>
        /\ applied' \in [Revision -> SUBSET {"updates", "admin"}]
        /\ \A r \in Revision : applied[r] \subseteq applied'[r]
        /\ schema = "3.0" => schema' = "3.0"
        /\ live # "unset" \/ ignored => live' # "unset" \/ ignored'
    BY <1>9 DEF SetupAdmin
  <2>2. \A k \in Proc :
          /\ pc'[k] \in AfterUpdates => schema' = "3.0" /\ "updates" \in applied'[Wanted[k]]
          /\ pc'[k] \in AfterAdmin => "admin" \in applied'[Wanted[k]]
          /\ pc'[k] \in AtRecord => live' # "unset" \/ ignored'
    BY <1>9, <2>1 DEF SetupAdmin
  <2>3. QED
    BY <2>1, <2>2, WorkKept
<1>10. ASSUME NEW j \in Proc, CheckLive(j)
      PROVE  WorkInOrder'
  BY <1>10 DEF CheckLive, Usable
<1>11. ASSUME NEW j \in Proc, SetLive(j)
      PROVE  WorkInOrder'
  <2>1. /\ UNCHANGED <<configured, read>>
        /\ applied' \in [Revision -> SUBSET {"updates", "admin"}]
        /\ \A r \in Revision : applied[r] \subseteq applied'[r]
        /\ schema = "3.0" => schema' = "3.0"
        /\ live # "unset" \/ ignored => live' # "unset" \/ ignored'
    BY <1>11 DEF SetLive
  <2>2. \A k \in Proc :
          /\ pc'[k] \in AfterUpdates => schema' = "3.0" /\ "updates" \in applied'[Wanted[k]]
          /\ pc'[k] \in AfterAdmin => "admin" \in applied'[Wanted[k]]
          /\ pc'[k] \in AtRecord => live' # "unset" \/ ignored'
    BY <1>11, <2>1 DEF SetLive
  <2>3. QED
    BY <2>1, <2>2, WorkKept
<1>12. ASSUME NEW j \in Proc, ReadConfigured(j)
      PROVE  WorkInOrder'
  BY <1>12 DEF ReadConfigured, Usable
<1>13. ASSUME NEW j \in Proc, WriteConfigured(j)
      PROVE  WorkInOrder'
  <2>1. Wanted[j] \in Revision /\ read[j] \in Seq(Revision)
    OBVIOUS
  <2>2. configured' = Newest(Append(Without(read[j], Wanted[j]), Wanted[j]))
    BY <1>13 DEF WriteConfigured
  <2>3. \A i \in DOMAIN configured' :
          configured'[i] = Wanted[j] \/ \E k \in DOMAIN read[j] : configured'[i] = read[j][k]
    BY <2>1, <2>2, RecordedRuns
  <2>4. /\ applied[Wanted[j]] = {"updates", "admin"} /\ schema = "3.0"
        /\ live # "unset" \/ ignored
        /\ UNCHANGED <<applied, schema, live, ignored>>
    <3>1. UNCHANGED <<applied, schema, live, ignored>> /\ pc[j] = "write record"
      BY <1>13 DEF WriteConfigured
    <3>2. live # "unset" \/ ignored
      BY <3>1
    <3>3. applied[Wanted[j]] = {"updates", "admin"} /\ schema = "3.0"
      BY <3>1
    <3>4. QED
      BY <3>1, <3>2, <3>3
  <2>5. Usable(configured)'
    <3>1. ASSUME NEW i \in DOMAIN configured'
          PROVE  applied[configured'[i]] = {"updates", "admin"}
      <4>1. CASE configured'[i] = Wanted[j]
        BY <2>4, <4>1
      <4>2. CASE \E k \in DOMAIN read[j] : configured'[i] = read[j][k]
        BY <4>2 DEF Usable
      <4>3. QED
        BY <2>3, <4>1, <4>2
    <3>2. QED
      BY <2>4, <3>1 DEF Usable
  <2>6. \A k \in Proc : Usable(read[k])'
    <3> SUFFICES ASSUME NEW k \in Proc
                 PROVE  Usable(read[k])'
      OBVIOUS
    <3>1. CASE k = j
      <4>1. read'[k] = <<>>
        BY <1>13, <3>1 DEF WriteConfigured
      <4>2. QED
        BY <4>1, NoEntries DEF Usable
    <3>2. CASE k # j
      <4>1. read'[k] = read[k]
        BY <1>13, <3>2 DEF WriteConfigured
      <4>2. QED
        BY <4>1, <2>4 DEF Usable
    <3>3. QED
      BY <3>1, <3>2
  <2>7. \A k \in Proc : pc'[k] = pc[k] \/ pc'[k] \in {"release", "failing"}
    BY <1>13 DEF WriteConfigured
  <2>8. QED
    BY <2>4, <2>5, <2>6, <2>7
<1>14. ASSUME NEW j \in Proc, WorkFails(j)
      PROVE  WorkInOrder'
  BY <1>14 DEF WorkFails, Usable
<1>15. ASSUME NEW j \in Proc, CountError(j)
      PROVE  WorkInOrder'
  BY <1>15 DEF CountError, Usable
<1>16. ASSUME NEW j \in Proc, ReleaseLock(j)
      PROVE  WorkInOrder'
  BY <1>16 DEF ReleaseLock, Usable
<1>17. ASSUME NEW j \in Proc, CountSuccess(j)
      PROVE  WorkInOrder'
  BY <1>17 DEF CountSuccess, Usable
<1>18. ASSUME NEW j \in Proc, JobDies(j)
      PROVE  WorkInOrder'
  BY <1>18 DEF JobDies, Usable
<1>19. ASSUME NEW j \in Proc, JobSessionEnds(j)
      PROVE  WorkInOrder'
  BY <1>19 DEF JobSessionEnds, Usable
<1>20. ASSUME NEW p \in Pod, Serve(p)
      PROVE  WorkInOrder'
  BY <1>20 DEF Serve, Usable
<1>21. ASSUME NEW p \in Pod, PollAgain(p)
      PROVE  WorkInOrder'
  BY <1>21 DEF PollAgain, Usable
<1>22. ASSUME NEW p \in Pod, PollRaises(p)
      PROVE  WorkInOrder'
  BY <1>22 DEF PollRaises, Usable
<1>23. ASSUME NEW p \in Pod, PodStops(p)
      PROVE  WorkInOrder'
  BY <1>23 DEF PodStops, Usable
<1>24. ASSUME NEW p \in Pod, PodRestarts(p)
      PROVE  WorkInOrder'
  BY <1>24 DEF PodRestarts, Usable
<1>25. ASSUME NEW p \in Pod, AdminSetsLive(p)
      PROVE  WorkInOrder'
  BY <1>25 DEF AdminSetsLive, Usable
<1>26. CASE UNCHANGED vars
  BY <1>26 DEF Usable
<1>27. QED
  BY <1>1, <1>2, <1>3, <1>4, <1>5, <1>6, <1>7, <1>8, <1>9, <1>10, <1>11, <1>12,
     <1>13, <1>14, <1>15, <1>16, <1>17, <1>18, <1>19, <1>20, <1>21, <1>22, <1>23, <1>24, <1>25, <1>26
  DEF Next, JobStep

LEMMA HistoryStep ==
  TypeOK /\ RecordHistory /\ [Next]_vars => RecordHistory'
<1> SUFFICES ASSUME TypeOK, RecordHistory, [Next]_vars
             PROVE  RecordHistory'
  OBVIOUS
<1> USE DEF RecordHistory, vars, dataVars, liveVars, podVars
<1>1. ASSUME NEW j \in Proc, Start(j)
      PROVE  RecordHistory'
  BY <1>1 DEF Start
<1>2. ASSUME NEW j \in Proc, Refuse(j)
      PROVE  RecordHistory'
  BY <1>2 DEF Refuse
<1>3. ASSUME NEW j \in Proc, TakeLock(j)
      PROVE  RecordHistory'
  BY <1>3 DEF TakeLock
<1>4. ASSUME NEW j \in Proc, GiveUpLock(j)
      PROVE  RecordHistory'
  BY <1>4 DEF GiveUpLock
<1>5. ASSUME NEW j \in Proc, CheckSchema(j)
      PROVE  RecordHistory'
  BY <1>5 DEF CheckSchema
<1>6. ASSUME NEW j \in Proc, Import(j)
      PROVE  RecordHistory'
  BY <1>6 DEF Import
<1>7. ASSUME NEW j \in Proc, CheckLayout(j)
      PROVE  RecordHistory'
  BY <1>7 DEF CheckLayout
<1>8. ASSUME NEW j \in Proc, RunUpdates(j)
      PROVE  RecordHistory'
  BY <1>8 DEF RunUpdates
<1>9. ASSUME NEW j \in Proc, SetupAdmin(j)
      PROVE  RecordHistory'
  BY <1>9 DEF SetupAdmin
<1>10. ASSUME NEW j \in Proc, CheckLive(j)
      PROVE  RecordHistory'
  BY <1>10 DEF CheckLive
<1>11. ASSUME NEW j \in Proc, SetLive(j)
      PROVE  RecordHistory'
  BY <1>11 DEF SetLive
<1>12. ASSUME NEW j \in Proc, ReadConfigured(j)
      PROVE  RecordHistory'
  <2>1. \A k \in Proc : read'[k] = IF k = j THEN configured ELSE read[k]
    BY <1>12 DEF ReadConfigured, TypeOK
  <2>2. UNCHANGED <<configured, finished>>
    BY <1>12 DEF ReadConfigured
  <2>3. QED
    BY <2>1, <2>2
<1>13. ASSUME NEW j \in Proc, WriteConfigured(j)
      PROVE  RecordHistory'
  <2>1. Wanted[j] \in Revision /\ read[j] \in Seq(Revision) /\ finished \in Seq(Revision)
    BY ProcessAssumption DEF TypeOK
  <2>2. ToSet(finished') = ToSet(finished) \union {Wanted[j]}
    BY <1>13, <2>1, MovedToEnd DEF WriteConfigured
  <2>3. \A i \in DOMAIN configured' :
          configured'[i] = Wanted[j] \/ \E k \in DOMAIN read[j] : configured'[i] = read[j][k]
    BY <1>13, <2>1, RecordedRuns DEF WriteConfigured
  <2>4. ToSet(configured') \subseteq ToSet(read[j]) \union {Wanted[j]}
    BY <2>3 DEF ToSet
  <2>5. \A k \in Proc : read'[k] = IF k = j THEN <<>> ELSE read[k]
    BY <1>13 DEF WriteConfigured, TypeOK
  <2>6. ToSet(<<>>) = {}
    BY NoEntries DEF ToSet
  <2>7. QED
    BY <2>2, <2>4, <2>5, <2>6
<1>14. ASSUME NEW j \in Proc, WorkFails(j)
      PROVE  RecordHistory'
  BY <1>14 DEF WorkFails
<1>15. ASSUME NEW j \in Proc, CountError(j)
      PROVE  RecordHistory'
  BY <1>15 DEF CountError
<1>16. ASSUME NEW j \in Proc, ReleaseLock(j)
      PROVE  RecordHistory'
  BY <1>16 DEF ReleaseLock
<1>17. ASSUME NEW j \in Proc, CountSuccess(j)
      PROVE  RecordHistory'
  BY <1>17 DEF CountSuccess
<1>18. ASSUME NEW j \in Proc, JobDies(j)
      PROVE  RecordHistory'
  BY <1>18 DEF JobDies
<1>19. ASSUME NEW j \in Proc, JobSessionEnds(j)
      PROVE  RecordHistory'
  BY <1>19 DEF JobSessionEnds
<1>20. ASSUME NEW p \in Pod, Serve(p)
      PROVE  RecordHistory'
  BY <1>20 DEF Serve
<1>21. ASSUME NEW p \in Pod, PollAgain(p)
      PROVE  RecordHistory'
  BY <1>21 DEF PollAgain
<1>22. ASSUME NEW p \in Pod, PollRaises(p)
      PROVE  RecordHistory'
  BY <1>22 DEF PollRaises
<1>23. ASSUME NEW p \in Pod, PodStops(p)
      PROVE  RecordHistory'
  BY <1>23 DEF PodStops
<1>24. ASSUME NEW p \in Pod, PodRestarts(p)
      PROVE  RecordHistory'
  BY <1>24 DEF PodRestarts
<1>25. ASSUME NEW p \in Pod, AdminSetsLive(p)
      PROVE  RecordHistory'
  BY <1>25 DEF AdminSetsLive
<1>26. CASE UNCHANGED vars
  BY <1>26
<1>27. QED
  BY <1>1, <1>2, <1>3, <1>4, <1>5, <1>6, <1>7, <1>8, <1>9, <1>10, <1>11, <1>12,
     <1>13, <1>14, <1>15, <1>16, <1>17, <1>18, <1>19, <1>20, <1>21, <1>22, <1>23, <1>24, <1>25, <1>26
  DEF Next, JobStep

LEMMA InvStep == RolloutInv /\ [Next]_vars => RolloutInv'
BY TypeStep, LockStatesStep, WorkStep, HistoryStep DEF RolloutInv

(* The invariant of the rollout holds in every state: types, which Job has  *)
(* the lock, and that a run is on record only after its work.               *)
THEOREM RolloutInvariant == Spec => []RolloutInv
<1>1. QED
  BY InitInv, InvStep, PTL DEF Spec

-----------------------------------------------------------------------------
(* What follows from it *)

LEMMA RunsApart == RolloutInv => RunsOverlapOnlyAfterLoss
<1> SUFFICES ASSUME RolloutInv,
                    NEW i \in Proc, NEW j \in Proc, i # j, i \notin lost, j \notin lost,
                    pc[i] \in UnderLock, pc[j] \in UnderLock
             PROVE  FALSE
  BY DEF RunsOverlapOnlyAfterLoss
<1>1. client[i] = "held" /\ client[j] = "held"
  BY DEF RolloutInv, LockStates
<1>2. i \in backend /\ j \in backend
  BY <1>1 DEF RolloutInv, HolderSession
<1>3. holder = i /\ holder = j
  BY <1>1, <1>2 DEF RolloutInv, HolderSession, Holds
<1>4. QED
  BY <1>3

(* Two configure runs work at once only after one of them has lost its lock *)
(* session under it.                                                        *)
THEOREM RunsOverlap == Spec => []RunsOverlapOnlyAfterLoss
<1>1. QED
  BY RunsApart, RolloutInvariant, PTL

(* The record of configure runs speaks the truth, whatever fails, crashes   *)
(* or overlaps: a pod that goes by it finds a database it can use.          *)
THEOREM RecordSpeaksTrue == Spec => []RecordedMeansConfigured
<1>1. RolloutInv => RecordedMeansConfigured
  BY DEF RolloutInv, WorkInOrder, Usable, RecordedMeansConfigured
<1>2. QED
  BY <1>1, RolloutInvariant, PTL

-----------------------------------------------------------------------------
(* Rollout implements RolloutPromise *)

LEMMA PromiseInitHolds == Init => Promise!PromiseInit
<1> SUFFICES ASSUME Init PROVE Promise!PromiseInit
  OBVIOUS
<1>1. RolloutInv
  BY InitInv
<1>2. configured \in Seq(Revision) /\ finished = configured
  BY <1>1 DEF Init, RolloutInv, TypeOK
<1>3. \A i \in DOMAIN configured :
        configured[i] \in Revision /\ "updates" \in applied[configured[i]]
  BY <1>1, <1>2, ElementOfSeq, LenProperties DEF RolloutInv, WorkInOrder, Usable
<1>4. {p \in Pod : pod[p] = "serving"} = {}
  BY DEF Init
<1>5. QED
  BY <1>2, <1>3, <1>4 DEF Promise!PromiseInit, ToSet

(* Every step of the rollout is a step of the promise, or a stutter of it.  *)
LEMMA PromiseStep ==
  RolloutInv /\ [Next]_vars => [Promise!PromiseNext]_(Promise!promiseVars)
<1> SUFFICES ASSUME RolloutInv, [Next]_vars
             PROVE  [Promise!PromiseNext]_(Promise!promiseVars)
  OBVIOUS
<1>0. TypeOK /\ WorkInOrder /\ RecordHistory /\ \A j \in Proc : Wanted[j] \in Revision
  BY ProcessAssumption DEF RolloutInv
<1>00. applied \in [Revision -> SUBSET {"updates", "admin"}]
  BY <1>0 DEF TypeOK
<1> USE DEF Promise!promiseVars, Promise!PromiseNext, vars, dataVars, liveVars, podVars
<1>1. ASSUME NEW j \in Proc, Start(j)
      PROVE  [Promise!PromiseNext]_(Promise!promiseVars)
  BY <1>1 DEF Start
<1>2. ASSUME NEW j \in Proc, Refuse(j)
      PROVE  [Promise!PromiseNext]_(Promise!promiseVars)
  BY <1>2 DEF Refuse
<1>3. ASSUME NEW j \in Proc, TakeLock(j)
      PROVE  [Promise!PromiseNext]_(Promise!promiseVars)
  BY <1>3 DEF TakeLock
<1>4. ASSUME NEW j \in Proc, GiveUpLock(j)
      PROVE  [Promise!PromiseNext]_(Promise!promiseVars)
  BY <1>4 DEF GiveUpLock
<1>5. ASSUME NEW j \in Proc, CheckSchema(j)
      PROVE  [Promise!PromiseNext]_(Promise!promiseVars)
  BY <1>5 DEF CheckSchema
<1>6. ASSUME NEW j \in Proc, Import(j)
      PROVE  [Promise!PromiseNext]_(Promise!promiseVars)
  BY <1>6 DEF Import
<1>7. ASSUME NEW j \in Proc, CheckLayout(j)
      PROVE  [Promise!PromiseNext]_(Promise!promiseVars)
  BY <1>7 DEF CheckLayout
<1>8. ASSUME NEW j \in Proc, RunUpdates(j)
      PROVE  [Promise!PromiseNext]_(Promise!promiseVars)
  <2>1. CASE schema = "3.0"
    <3>1. applied' = [applied EXCEPT ![Wanted[j]] = @ \union {"updates"}]
      BY <1>8, <2>1 DEF RunUpdates
    <3>2. UNCHANGED <<configured, finished, pod>>
      BY <1>8, <2>1 DEF RunUpdates
    <3>3. {r \in Revision : "updates" \in applied'[r]}
            = {r \in Revision : "updates" \in applied[r]} \union {Wanted[j]}
      BY <1>0, <1>00, <3>1
    <3>4. Promise!Migrate(Wanted[j])
      BY <3>2, <3>3 DEF Promise!Migrate
    <3>5. QED
      BY <1>0, <3>4
  <2>2. CASE schema # "3.0"
    BY <1>8, <2>2 DEF RunUpdates, Goto
  <2>3. QED
    BY <2>1, <2>2
<1>9. ASSUME NEW j \in Proc, SetupAdmin(j)
      PROVE  [Promise!PromiseNext]_(Promise!promiseVars)
  <2>1. applied' = [applied EXCEPT ![Wanted[j]] = @ \union {"admin"}]
    BY <1>9 DEF SetupAdmin
  <2>2. UNCHANGED <<configured, finished, pod>>
    BY <1>9 DEF SetupAdmin
  <2>3. {r \in Revision : "updates" \in applied'[r]} = {r \in Revision : "updates" \in applied[r]}
    BY <1>0, <1>00, <2>1
  <2>4. QED
    BY <2>2, <2>3
<1>10. ASSUME NEW j \in Proc, CheckLive(j)
      PROVE  [Promise!PromiseNext]_(Promise!promiseVars)
  BY <1>10 DEF CheckLive
<1>11. ASSUME NEW j \in Proc, SetLive(j)
      PROVE  [Promise!PromiseNext]_(Promise!promiseVars)
  BY <1>11 DEF SetLive
<1>12. ASSUME NEW j \in Proc, ReadConfigured(j)
      PROVE  [Promise!PromiseNext]_(Promise!promiseVars)
  BY <1>12 DEF ReadConfigured
<1>13. ASSUME NEW j \in Proc, WriteConfigured(j)
      PROVE  [Promise!PromiseNext]_(Promise!promiseVars)
  <2>1. "updates" \in applied[Wanted[j]]
    BY <1>13, <1>0 DEF WriteConfigured, WorkInOrder, AfterUpdates, AfterAdmin, AtRecord
  <2>2. ToSet(finished') = ToSet(finished) \union {Wanted[j]}
    BY <1>13, <1>0, MovedToEnd DEF WriteConfigured, TypeOK
  <2>3. ToSet(configured') \subseteq ToSet(finished')
    BY <1>0, HistoryStep DEF RecordHistory
  <2>4. Promise!Record(Wanted[j])
    BY <1>13, <1>0, <2>1, <2>2, <2>3 DEF WriteConfigured, Promise!Record
  <2>5. QED
    BY <1>0, <2>4
<1>14. ASSUME NEW j \in Proc, WorkFails(j)
      PROVE  [Promise!PromiseNext]_(Promise!promiseVars)
  BY <1>14 DEF WorkFails
<1>15. ASSUME NEW j \in Proc, CountError(j)
      PROVE  [Promise!PromiseNext]_(Promise!promiseVars)
  BY <1>15 DEF CountError
<1>16. ASSUME NEW j \in Proc, ReleaseLock(j)
      PROVE  [Promise!PromiseNext]_(Promise!promiseVars)
  BY <1>16 DEF ReleaseLock
<1>17. ASSUME NEW j \in Proc, CountSuccess(j)
      PROVE  [Promise!PromiseNext]_(Promise!promiseVars)
  BY <1>17 DEF CountSuccess
<1>18. ASSUME NEW j \in Proc, JobDies(j)
      PROVE  [Promise!PromiseNext]_(Promise!promiseVars)
  BY <1>18 DEF JobDies
<1>19. ASSUME NEW j \in Proc, JobSessionEnds(j)
      PROVE  [Promise!PromiseNext]_(Promise!promiseVars)
  BY <1>19 DEF JobSessionEnds
<1>20. ASSUME NEW p \in Pod, Serve(p)
      PROVE  [Promise!PromiseNext]_(Promise!promiseVars)
  <2>1. \E r \in ToSet(configured) : Matches(r, Wanted[p])
    BY <1>20 DEF Serve, Recorded, ToSet
  <2>2. {q \in Pod : pod'[q] = "serving"} = {q \in Pod : pod[q] = "serving"} \union {p}
    BY <1>20, <1>0 DEF Serve, Become, TypeOK
  <2>3. Promise!Serve(p)
    BY <1>20, <2>1, <2>2 DEF Serve, Promise!Serve
  <2>4. QED
    BY <2>3
<1>21. ASSUME NEW p \in Pod, PollAgain(p)
      PROVE  [Promise!PromiseNext]_(Promise!promiseVars)
  <2>1. {q \in Pod : pod'[q] = "serving"} = {q \in Pod : pod[q] = "serving"}
    BY <1>21, <1>0 DEF PollAgain, Become, TypeOK
  <2>2. QED
    BY <1>21, <2>1 DEF PollAgain
<1>22. ASSUME NEW p \in Pod, PollRaises(p)
      PROVE  [Promise!PromiseNext]_(Promise!promiseVars)
  <2>1. {q \in Pod : pod'[q] = "serving"} = {q \in Pod : pod[q] = "serving"}
    BY <1>22, <1>0 DEF PollRaises, Become, TypeOK
  <2>2. QED
    BY <1>22, <2>1 DEF PollRaises
<1>23. ASSUME NEW p \in Pod, PodStops(p)
      PROVE  [Promise!PromiseNext]_(Promise!promiseVars)
  <2>1. {q \in Pod : pod'[q] = "serving"} = {q \in Pod : pod[q] = "serving"} \ {p}
    BY <1>23, <1>0 DEF PodStops, Become, TypeOK
  <2>2. Promise!Stop(p)
    BY <1>23, <2>1 DEF PodStops, Promise!Stop
  <2>3. QED
    BY <2>2
<1>24. ASSUME NEW p \in Pod, PodRestarts(p)
      PROVE  [Promise!PromiseNext]_(Promise!promiseVars)
  <2>1. {q \in Pod : pod'[q] = "serving"} = {q \in Pod : pod[q] = "serving"}
    BY <1>24, <1>0 DEF PodRestarts, Become, TypeOK
  <2>2. QED
    BY <1>24, <2>1 DEF PodRestarts
<1>25. ASSUME NEW p \in Pod, AdminSetsLive(p)
      PROVE  [Promise!PromiseNext]_(Promise!promiseVars)
  BY <1>25 DEF AdminSetsLive
<1>26. CASE UNCHANGED vars
  BY <1>26
<1>27. QED
  BY <1>1, <1>2, <1>3, <1>4, <1>5, <1>6, <1>7, <1>8, <1>9, <1>10, <1>11, <1>12,
     <1>13, <1>14, <1>15, <1>16, <1>17, <1>18, <1>19, <1>20, <1>21, <1>22, <1>23, <1>24, <1>25, <1>26
  DEF Next, JobStep

(* What the pods rely on, whatever Jobs and pods there are: a pod starts to *)
(* serve only while a run on record answers its wait, and a run comes on    *)
(* record only after its updates.                                           *)
THEOREM RolloutImplementsPromise == Spec => PromiseKept
<1>1. QED
  BY PromiseInitHolds, PromiseStep, RolloutInvariant, PTL DEF Spec, PromiseKept, Promise!PromiseSpec
-----------------------------------------------------------------------------
(* The record while no run has lost its lock *)

(* A record in which no run stands twice. *)
Distinct(s) == \A i, k \in DOMAIN s : s[i] = s[k] => i = k

(* The strengthening that RecordComplete needs: until a lock session is     *)
(* lost, the record is the newest part of its history, and what a run is    *)
(* about to write back is what the record still holds.                      *)
RecordInOrder ==
  /\ Distinct(finished)
  /\ lost = {} =>
       /\ configured = Newest(finished)
       /\ \A j \in Proc : pc[j] = "write record" => read[j] = configured

(* Newest, element by element: the last runs of the record, in their order. *)
LEMMA NewestElements ==
  ASSUME NEW s \in Seq(Revision)
  PROVE  LET n == IF Len(s) > Keep THEN Keep ELSE Len(s) IN
         /\ Newest(s) \in Seq(Revision) /\ Len(Newest(s)) = n
         /\ \A i \in 1..n : Newest(s)[i] = s[i + (Len(s) - n)]
<1>0. Len(s) \in Nat /\ Keep \in Nat \ {0}
  BY RecordAssumption
<1>1. CASE Len(s) > Keep
  <2> DEFINE m == Len(s) - Keep + 1
             b == SubSeq(s, m, Len(s))
  <2>1. m \in 1..Len(s) /\ Newest(s) = b
    BY <1>0, <1>1 DEF Newest
  <2>2. m + 0 = Len(s) - Keep + 1
    BY <1>0
  <2> HIDE DEF m
  <2>3. /\ b \in Seq(Revision) /\ Len(b) = Len(s) - m + 1
        /\ \A i \in 1..Len(b) : b[i] = s[m + i - 1]
    BY <2>1, SubSeqProperties
  <2> HIDE DEF b
  <2>4. Len(b) = Keep
    BY <1>0, <2>1, <2>2, <2>3
  <2>5. ASSUME NEW i \in 1..Keep
        PROVE  b[i] = s[i + (Len(s) - Keep)]
    <3>1. m + i - 1 = i + (Len(s) - Keep)
      BY <1>0, <2>1, <2>2
    <3>2. QED
      BY <2>3, <2>4, <3>1
  <2>6. QED
    BY <1>0, <1>1, <2>1, <2>3, <2>4, <2>5
<1>2. CASE ~ (Len(s) > Keep)
  <2>1. Newest(s) = s
    BY <1>2 DEF Newest
  <2>2. \A i \in 1..Len(s) : i + (Len(s) - Len(s)) = i
    BY <1>0
  <2>3. QED
    BY <1>0, <1>2, <2>1, <2>2
<1>3. QED
  BY <1>1, <1>2

(* Without, element by element: what stands behind the run moves up. *)
LEMMA WithoutElements ==
  ASSUME NEW s \in Seq(Revision), NEW r \in Revision, Distinct(s)
  PROVE  /\ Without(s, r) \in Seq(Revision)
         /\ (\A i \in 1..Len(s) : s[i] # r) => Without(s, r) = s
         /\ \A n \in 1..Len(s) : s[n] = r =>
              /\ Len(Without(s, r)) = Len(s) - 1
              /\ \A i \in 1..Len(s) - 1 :
                   Without(s, r)[i] = IF i < n THEN s[i] ELSE s[i + 1]
<1>0. DOMAIN s = 1..Len(s) /\ Len(s) \in Nat
  OBVIOUS
<1>1. Without(s, r) \in Seq(Revision)
  BY WithoutType
<1>2. (\A i \in 1..Len(s) : s[i] # r) => Without(s, r) = s
  BY <1>0 DEF Without
<1>3. ASSUME NEW n \in 1..Len(s), s[n] = r
      PROVE  /\ Len(Without(s, r)) = Len(s) - 1
             /\ \A i \in 1..Len(s) - 1 :
                  Without(s, r)[i] = IF i < n THEN s[i] ELSE s[i + 1]
  <2>1. (CHOOSE i \in DOMAIN s : s[i] = r) = n
    BY <1>0, <1>3 DEF Distinct
  <2> DEFINE a == SubSeq(s, 1, n - 1)
             b == SubSeq(s, n + 1, Len(s))
  <2>2. Without(s, r) = a \o b
    <3>1. Without(s, r) = RemoveAt(s, n)
      BY <1>0, <1>3, <2>1 DEF Without
    <3>2. QED
      BY <3>1 DEF RemoveAt
  <2>3. a \in Seq(Revision) /\ Len(a) = n - 1 /\ \A i \in 1..Len(a) : a[i] = s[i]
    BY SubSeqProperties
  <2>4. b \in Seq(Revision) /\ Len(b) = Len(s) - n /\ \A i \in 1..Len(b) : b[i] = s[n + i]
    BY SubSeqProperties
  <2> HIDE DEF a, b
  <2>5. /\ Len(a \o b) = Len(a) + Len(b)
        /\ \A i \in 1..(Len(a) + Len(b)) :
             (a \o b)[i] = IF i <= Len(a) THEN a[i] ELSE b[i - Len(a)]
    BY <2>3, <2>4, ConcatProperties
  <2>6. Len(a) + Len(b) = Len(s) - 1
    BY <1>0, <2>3, <2>4
  <2>7. ASSUME NEW i \in 1..Len(s) - 1
        PROVE  (a \o b)[i] = IF i < n THEN s[i] ELSE s[i + 1]
    <3>1. CASE i < n
      <4>1. i \in 1..Len(a) /\ i <= Len(a)
        BY <1>0, <2>3, <3>1
      <4>2. QED
        BY <2>3, <2>5, <2>6, <3>1, <4>1
    <3>2. CASE ~ (i < n)
      <4>1. ~ (i <= Len(a)) /\ i - Len(a) \in 1..Len(b) /\ n + (i - Len(a)) = i + 1
        BY <1>0, <2>3, <2>4, <3>2
      <4>2. QED
        BY <2>4, <2>5, <2>6, <3>2, <4>1
    <3>3. QED
      BY <3>1, <3>2
  <2>8. QED
    BY <2>2, <2>5, <2>6, <2>7
<1>4. QED
  BY <1>1, <1>2, <1>3

(* A run moves to the end of the history, and no run stands in it twice. *)
LEMMA MovedDistinct ==
  ASSUME NEW s \in Seq(Revision), NEW r \in Revision, Distinct(s)
  PROVE  Distinct(Append(Without(s, r), r))
<1> DEFINE w == Without(s, r)
           t == Append(w, r)
<1>0. DOMAIN s = 1..Len(s) /\ Len(s) \in Nat
  OBVIOUS
<1>1. w \in Seq(Revision) /\ Distinct(w) /\ \A i \in 1..Len(w) : w[i] # r
  <2>1. CASE \A i \in 1..Len(s) : s[i] # r
    BY <2>1, <1>0, WithoutElements
  <2>2. CASE \E n \in 1..Len(s) : s[n] = r
    <3>1. PICK n \in 1..Len(s) : s[n] = r
      BY <2>2
    <3>2. /\ w \in Seq(Revision) /\ Len(w) = Len(s) - 1
          /\ \A i \in 1..Len(s) - 1 : w[i] = IF i < n THEN s[i] ELSE s[i + 1]
      BY <3>1, WithoutElements
    <3> HIDE DEF w
    <3>3. DOMAIN w = 1..Len(s) - 1
      BY <3>2
    <3>4. ASSUME NEW i \in 1..Len(s) - 1, NEW k \in 1..Len(s) - 1, w[i] = w[k]
          PROVE  i = k
      <4>1. /\ i \in DOMAIN s /\ i + 1 \in DOMAIN s
            /\ k \in DOMAIN s /\ k + 1 \in DOMAIN s
        BY <1>0
      <4>2. QED
        BY <1>0, <3>2, <3>4, <4>1 DEF Distinct
    <3>5. \A i \in 1..Len(s) - 1 : w[i] # r
      BY <1>0, <3>1, <3>2 DEF Distinct
    <3>6. QED
      BY <3>2, <3>3, <3>4, <3>5 DEF Distinct
  <2>3. QED
    BY <2>1, <2>2
<1> HIDE DEF w
<1>2. /\ DOMAIN t = 1..Len(w) + 1 /\ Len(w) \in Nat /\ DOMAIN w = 1..Len(w)
      /\ \A i \in 1..Len(w) + 1 : t[i] = IF i = Len(w) + 1 THEN r ELSE w[i]
  BY <1>1
<1> HIDE DEF t
<1>3. ASSUME NEW i \in 1..Len(w) + 1, NEW k \in 1..Len(w) + 1, t[i] = t[k]
      PROVE  i = k
  BY <1>1, <1>2, <1>3 DEF Distinct
<1>4. Distinct(t)
  BY <1>2, <1>3 DEF Distinct
<1>5. QED
  BY <1>4 DEF t, w

(* Two records with the same end have the same newest part. *)
LEMMA SameEnd ==
  ASSUME NEW a \in Seq(Revision), NEW b \in Seq(Revision),
         Len(a) >= Keep \/ Len(a) = Len(b), Len(a) <= Len(b),
         \A i \in 0..Keep - 1 : i < Len(a) => a[Len(a) - i] = b[Len(b) - i]
  PROVE  Newest(a) = Newest(b)
<1> DEFINE n == IF Len(a) > Keep THEN Keep ELSE Len(a)
<1>0. Len(a) \in Nat /\ Len(b) \in Nat /\ Keep \in Nat \ {0}
  BY RecordAssumption
<1>1. n = IF Len(b) > Keep THEN Keep ELSE Len(b)
  BY <1>0
<1>2. /\ Newest(a) \in Seq(Revision) /\ Len(Newest(a)) = n
      /\ \A i \in 1..n : Newest(a)[i] = a[i + (Len(a) - n)]
  BY NewestElements
<1>3. /\ Newest(b) \in Seq(Revision) /\ Len(Newest(b)) = n
      /\ \A i \in 1..n : Newest(b)[i] = b[i + (Len(b) - n)]
  BY <1>1, NewestElements
<1>4. n \in Nat /\ n <= Len(a) /\ n <= Keep
  BY <1>0
<1> HIDE DEF n
<1>5. ASSUME NEW i \in 1..n
      PROVE  a[i + (Len(a) - n)] = b[i + (Len(b) - n)]
  <2>1. /\ n - i \in 0..Keep - 1 /\ n - i < Len(a)
        /\ Len(a) - (n - i) = i + (Len(a) - n) /\ Len(b) - (n - i) = i + (Len(b) - n)
    BY <1>0, <1>4
  <2>2. a[Len(a) - (n - i)] = b[Len(b) - (n - i)]
    BY <2>1
  <2>3. QED
    BY <2>1, <2>2
<1>6. Len(Newest(a)) = Len(Newest(b))
  BY <1>2, <1>3
<1>7. ASSUME NEW i \in 1..Len(Newest(a))
      PROVE  Newest(a)[i] = Newest(b)[i]
  BY <1>2, <1>3, <1>5
<1>8. Newest(a) \in Seq(Revision) /\ Newest(b) \in Seq(Revision)
  BY <1>2, <1>3
<1>9. QED
  BY <1>6, <1>7, <1>8, SeqEqual

(* Counting from the end of a part and of the whole is the same. *)
LEMMA FromTheEnd ==
  ASSUME NEW n \in Int, NEW d \in Int, NEW l \in Int, n + d = l
  PROVE  /\ d = 0 => n = l
         /\ \A i \in Int : (n - i) + d = l - i
         /\ \A i \in Int : (n - 1 - i) + d = l - 1 - i
         /\ \A i \in Int : (n - 1 - i + 1) + d = l - 1 - i + 1
         /\ \A i \in Int : (n - i) + d = l - 1 - i + 1
  OBVIOUS

(* record_configured works on the newest part of the history as it would    *)
(* on all of it: what it no longer holds makes no difference.               *)
LEMMA NewestSuffices ==
  ASSUME NEW s \in Seq(Revision), NEW r \in Revision, Distinct(s)
  PROVE  Newest(Append(Without(Newest(s), r), r)) = Newest(Append(Without(s, r), r))
<1> DEFINE u == Newest(s)
           w == Without(s, r)
           x == Without(u, r)
<1>0. Len(s) \in Nat /\ Keep \in Nat \ {0} /\ DOMAIN s = 1..Len(s)
  BY RecordAssumption
<1>1. PICK n \in Nat, d \in Nat :
        /\ n + d = Len(s) /\ n <= Keep /\ (d > 0 => n = Keep)
        /\ u \in Seq(Revision) /\ Len(u) = n /\ \A i \in 1..n : u[i] = s[i + d]
  <2> DEFINE m == IF Len(s) > Keep THEN Keep ELSE Len(s)
  <2>1. u \in Seq(Revision) /\ Len(u) = m /\ \A i \in 1..m : u[i] = s[i + (Len(s) - m)]
    BY NewestElements
  <2>2. /\ m \in Nat /\ Len(s) - m \in Nat /\ m + (Len(s) - m) = Len(s) /\ m <= Keep
        /\ (Len(s) - m > 0 => m = Keep)
    BY <1>0
  <2>3. QED
    BY <2>1, <2>2
<1>2. /\ n \in Nat /\ d \in Nat
      /\ n + d = Len(s) /\ n <= Keep /\ (d > 0 => n = Keep)
  BY <1>1
<1>e. /\ d = 0 => n = Len(s)
      /\ \A i \in Int : (n - i) + d = Len(s) - i
      /\ \A i \in Int : (n - 1 - i) + d = Len(s) - 1 - i
      /\ \A i \in Int : (n - 1 - i + 1) + d = Len(s) - 1 - i + 1
      /\ \A i \in Int : (n - i) + d = Len(s) - 1 - i + 1
  <2>1. n \in Int /\ d \in Int /\ Len(s) \in Int
    BY <1>0, <1>2
  <2>2. QED
    BY <1>2, <2>1, FromTheEnd
<1> HIDE DEF u
<1>3. Distinct(u)
  <2>1. DOMAIN u = 1..n
    BY <1>1
  <2>2. ASSUME NEW i \in 1..n, NEW k \in 1..n, u[i] = u[k]
        PROVE  i = k
    <3>1. i + d \in DOMAIN s /\ k + d \in DOMAIN s /\ s[i + d] = s[k + d]
      BY <1>0, <1>1, <1>2, <2>2
    <3>2. i + d = k + d
      BY <3>1 DEF Distinct
    <3>3. QED
      BY <1>2, <3>2
  <2>3. QED
    BY <2>1, <2>2 DEF Distinct
<1> DEFINE EndAlike ==
             /\ Len(x) <= Len(w) /\ (Len(x) >= Keep - 1 \/ Len(x) = Len(w))
             /\ \A i \in 0..Keep - 2 : i < Len(x) => x[Len(x) - i] = w[Len(w) - i]
<1>4. w \in Seq(Revision) /\ x \in Seq(Revision) /\ EndAlike
  <2>0. /\ w \in Seq(Revision) /\ x \in Seq(Revision)
        /\ (\A i \in 1..Len(s) : s[i] # r) => w = s
        /\ (\A i \in 1..n : u[i] # r) => x = u
        /\ \A k \in 1..Len(s) : s[k] = r =>
             /\ Len(w) = Len(s) - 1
             /\ \A i \in 1..Len(s) - 1 : w[i] = IF i < k THEN s[i] ELSE s[i + 1]
        /\ \A k \in 1..n : u[k] = r =>
             /\ Len(x) = n - 1
             /\ \A i \in 1..n - 1 : x[i] = IF i < k THEN u[i] ELSE u[i + 1]
    BY <1>1, <1>3, WithoutElements
  <2> HIDE DEF w, x, EndAlike
  <2>1. CASE \A i \in 1..Len(s) : s[i] # r
    <3>1. w = s
      BY <2>0, <2>1
    <3>2. \A i \in 1..n : u[i] # r
      BY <1>0, <1>1, <1>2, <2>1
    <3>3. x = u
      BY <2>0, <3>2
    <3>4. ASSUME NEW i \in 0..Keep - 2, i < n
          PROVE  u[n - i] = s[Len(s) - i]
      <4>1. n - i \in 1..n
        BY <1>0, <1>2, <3>4
      <4>2. i \in Int
        BY <1>0, <3>4
      <4>3. (n - i) + d = Len(s) - i
        BY <1>e, <4>2
      <4>4. QED
        BY <1>1, <4>1, <4>3
    <3>5. n <= Len(s) /\ (n >= Keep - 1 \/ n = Len(s))
      <4>1. d > 0 \/ d = 0
        BY <1>2
      <4>2. d = 0 => n = Len(s)
        BY <1>e
      <4>3. n = Keep => n >= Keep - 1
        BY <1>0
      <4>4. n <= Len(s)
        BY <1>0, <1>2
      <4>5. QED
        BY <1>2, <4>1, <4>2, <4>3, <4>4
    <3>6. QED
      BY <1>1, <2>0, <3>1, <3>3, <3>4, <3>5 DEF EndAlike
  <2>2. ASSUME NEW k \in 1..Len(s), s[k] = r, k > d
        PROVE  EndAlike
    <3>1. k - d \in 1..n /\ u[k - d] = s[(k - d) + d] /\ (k - d) + d = k
      BY <1>0, <1>1, <1>2, <2>2
    <3>2. /\ Len(w) = Len(s) - 1 /\ Len(x) = n - 1
          /\ \A i \in 1..Len(s) - 1 : w[i] = IF i < k THEN s[i] ELSE s[i + 1]
          /\ \A i \in 1..n - 1 : x[i] = IF i < k - d THEN u[i] ELSE u[i + 1]
      BY <2>0, <2>2, <3>1
    <3>3. ASSUME NEW i \in 0..Keep - 2, i < n - 1
          PROVE  x[n - 1 - i] = w[Len(s) - 1 - i]
      <4>1. n - 1 - i \in 1..n - 1 /\ Len(s) - 1 - i \in 1..Len(s) - 1
        BY <1>0, <1>2, <3>3
      <4>2. (n - 1 - i < k - d) <=> (Len(s) - 1 - i < k)
        BY <1>0, <1>2
      <4>3. u[n - 1 - i] = s[Len(s) - 1 - i] /\ u[n - 1 - i + 1] = s[Len(s) - 1 - i + 1]
        <5>1. n - 1 - i \in 1..n /\ n - 1 - i + 1 \in 1..n
          BY <1>0, <1>2, <3>3
        <5>i. i \in Int
          BY <1>0, <3>3
        <5>2. (n - 1 - i) + d = Len(s) - 1 - i
          BY <1>e, <5>i
        <5>3. (n - 1 - i + 1) + d = Len(s) - 1 - i + 1
          BY <1>e, <5>i
        <5>4. QED
          BY <1>1, <5>1, <5>2, <5>3
      <4>4. QED
        BY <3>2, <4>1, <4>2, <4>3
    <3>4. Len(x) <= Len(w)
      BY <1>0, <1>2, <3>2
    <3>5. Len(x) >= Keep - 1 \/ Len(x) = Len(w)
      <4>1. d > 0 \/ d = 0
        BY <1>2
      <4>2. d = 0 => Len(x) = Len(w)
        BY <1>e, <3>2
      <4>3. n = Keep => Len(x) >= Keep - 1
        BY <1>0, <3>2
      <4>4. QED
        BY <1>2, <4>1, <4>2, <4>3
    <3>6. QED
      BY <3>2, <3>3, <3>4, <3>5 DEF EndAlike
  <2>3. ASSUME NEW k \in 1..Len(s), s[k] = r, k <= d
        PROVE  EndAlike
    <3>1. n = Keep /\ Len(w) = Len(s) - 1
          /\ \A i \in 1..Len(s) - 1 : w[i] = IF i < k THEN s[i] ELSE s[i + 1]
      BY <1>2, <2>0, <2>3
    <3>2. \A i \in 1..n : u[i] # r
      <4> TAKE i \in 1..n
      <4>1. i + d \in DOMAIN s /\ i + d # k /\ k \in DOMAIN s
        BY <1>0, <1>2, <2>3
      <4>2. QED
        BY <1>1, <2>3, <4>1 DEF Distinct
    <3>3. x = u
      BY <2>0, <3>2
    <3>4. ASSUME NEW i \in 0..Keep - 2
          PROVE  u[n - i] = w[Len(s) - 1 - i]
      <4>1. n - i \in 1..n
        BY <1>0, <3>1
      <4>i. i \in Int
        BY <1>0, <3>4
      <4>2. (n - i) + d = Len(s) - 1 - i + 1
        BY <1>e, <4>i
      <4>3. Len(s) - 1 - i \in 1..Len(s) - 1
        BY <1>0, <1>2, <3>1
      <4>4. ~ (Len(s) - 1 - i < k)
        BY <1>0, <1>2, <2>3, <3>1
      <4>5. QED
        BY <1>1, <3>1, <4>1, <4>2, <4>3, <4>4
    <3>5. n <= Len(s) - 1
      BY <1>0, <1>2, <2>3
    <3>6. Len(x) = n /\ Len(x) <= Len(w) /\ Len(x) >= Keep - 1
      BY <1>0, <1>1, <3>1, <3>3, <3>5
    <3>7. QED
      BY <3>1, <3>3, <3>4, <3>6 DEF EndAlike
  <2>4. \A k \in 1..Len(s) : k > d \/ k <= d
    BY <1>2
  <2>5. EndAlike
    BY <2>1, <2>2, <2>3, <2>4
  <2>6. QED
    BY <2>0, <2>5
<1> DEFINE tw == Append(w, r)
           tx == Append(x, r)
<1> HIDE DEF w, x
<1>5. /\ tw \in Seq(Revision) /\ Len(tw) = Len(w) + 1 /\ Len(w) \in Nat
      /\ tw[Len(w) + 1] = r /\ \A i \in 1..Len(w) : tw[i] = w[i]
  BY <1>4, AppendProperties
<1>6. /\ tx \in Seq(Revision) /\ Len(tx) = Len(x) + 1 /\ Len(x) \in Nat
      /\ tx[Len(x) + 1] = r /\ \A i \in 1..Len(x) : tx[i] = x[i]
  BY <1>4, AppendProperties
<1> HIDE DEF tw, tx
<1>7. ASSUME NEW i \in 0..Keep - 1, i < Len(tx)
      PROVE  tx[Len(tx) - i] = tw[Len(tw) - i]
  <2>1. CASE i = 0
    BY <1>5, <1>6, <2>1
  <2>2. CASE i # 0
    <3>1. /\ i - 1 \in 0..Keep - 2 /\ i - 1 < Len(x)
          /\ Len(tx) - i = Len(x) - (i - 1) /\ Len(tw) - i = Len(w) - (i - 1)
          /\ Len(x) - (i - 1) \in 1..Len(x) /\ Len(w) - (i - 1) \in 1..Len(w)
      BY <1>0, <1>4, <1>5, <1>6, <1>7, <2>2
    <3>2. x[Len(x) - (i - 1)] = w[Len(w) - (i - 1)]
      BY <1>4, <3>1
    <3>3. QED
      BY <1>5, <1>6, <3>1, <3>2
  <2>3. QED
    BY <2>1, <2>2
<1>8. Newest(tx) = Newest(tw)
  <2>1. Len(tx) <= Len(tw) /\ (Len(tx) >= Keep \/ Len(tx) = Len(tw))
    BY <1>0, <1>4, <1>5, <1>6
  <2>2. QED
    BY <1>5, <1>6, <1>7, <2>1, SameEnd
<1>9. QED
  BY <1>8 DEF tw, tx, w, x, u

LEMMA RecordInit == Init => RecordInOrder
<1> SUFFICES ASSUME Init PROVE RecordInOrder
  OBVIOUS
<1>1. /\ configured \in Seq(Revision) /\ Distinct(configured)
      /\ Newest(configured) = configured
  <2>1. CASE configured = <<>>
    <3>1. Distinct(configured)
      BY <2>1, NoEntries DEF Distinct
    <3>2. Len(configured) = 0 /\ configured \in Seq(Revision)
      BY <2>1, EmptySeq
    <3>3. ~ (Len(configured) > Keep)
      BY <3>2, RecordAssumption
    <3>4. QED
      BY <3>1, <3>2, <3>3 DEF Newest
  <2>2. CASE configured \in Installed
    <3>1. Len(configured) <= Keep /\ configured \in Seq(Revision)
      BY <2>2, RecordAssumption
    <3>2. ~ (Len(configured) > Keep)
      BY <3>1, RecordAssumption, LenProperties
    <3>3. QED
      BY <2>2, <3>1, <3>2, RecordAssumption DEF Distinct, Newest
  <2>3. QED
    BY <2>1, <2>2 DEF Init
<1>2. QED
  BY <1>1 DEF Init, RecordInOrder

(* Lock sessions that were lost stay lost. *)
LEMMA LostStays == TypeOK /\ [Next]_vars => lost \subseteq lost'
<1> SUFFICES ASSUME TypeOK, [Next]_vars PROVE lost \subseteq lost'
  OBVIOUS
<1>1. ASSUME NEW j \in Proc, JobStep(j) \/ JobDies(j) \/ JobSessionEnds(j)
      PROVE  lost \subseteq lost'
  BY <1>1 DEF JobStep, Start, Refuse, TakeLock, GiveUpLock, CheckSchema, Import, CheckLayout,
     RunUpdates, SetupAdmin, CheckLive, SetLive, ReadConfigured, WriteConfigured, WorkFails,
     CountError, ReleaseLock, CountSuccess, JobDies, JobSessionEnds, lockVars,
     Connect, TryLock, TimeOut, PollFails, Release, Die,
     SessionEnds
<1>2. ASSUME NEW p \in Pod, \/ Serve(p) \/ PollAgain(p) \/ PollRaises(p)
                            \/ PodStops(p) \/ PodRestarts(p) \/ AdminSetsLive(p)
      PROVE  lost \subseteq lost'
  BY <1>2 DEF Serve, PollAgain, PollRaises, PodStops, PodRestarts, AdminSetsLive, lockVars
<1>3. CASE UNCHANGED vars
  BY <1>3 DEF vars, lockVars
<1>4. QED
  BY <1>1, <1>2, <1>3 DEF Next

(* A step that neither reads nor writes the record, and after which no run  *)
(* is newly about to write it.                                              *)
LEMMA RecordKept ==
  ASSUME RecordInOrder, UNCHANGED <<finished, configured, read>>, lost \subseteq lost',
         \A k \in Proc : pc'[k] = "write record" => pc[k] = "write record"
  PROVE  RecordInOrder'
<1>1. Distinct(finished') /\ Newest(finished') = Newest(finished)
  BY DEF RecordInOrder
<1>2. ASSUME lost' = {}
      PROVE  /\ configured' = Newest(finished')
             /\ \A k \in Proc : pc'[k] = "write record" => read'[k] = configured'
  <2>1. lost = {}
    BY <1>2
  <2>2. QED
    BY <1>1, <1>2, <2>1 DEF RecordInOrder
<1>3. QED
  BY <1>1, <1>2 DEF RecordInOrder

(* The same for a Job that moves to another step.                           *)
LEMMA RecordKeptByJob ==
  ASSUME RecordInOrder, pc \in [Proc -> JobPC], UNCHANGED <<finished, configured, read>>,
         lost \subseteq lost', NEW j \in Proc, NEW step, Goto(j, step),
         step # "write record"
  PROVE  RecordInOrder'
<1>1. \A k \in Proc : pc'[k] = IF k = j THEN step ELSE pc[k]
  BY DEF Goto
<1>2. QED
  BY <1>1, RecordKept

LEMMA RecordStep ==
  RolloutInv /\ RecordInOrder /\ [Next]_vars => RecordInOrder'
<1> SUFFICES ASSUME RolloutInv, RecordInOrder, [Next]_vars
             PROVE  RecordInOrder'
  OBVIOUS
<1>0. /\ TypeOK /\ pc \in [Proc -> JobPC] /\ WorkInOrder /\ lost \subseteq lost'
  BY LostStays DEF RolloutInv, TypeOK
<1>a. \A j, k \in Proc : lost = {} /\ pc[j] \in UnderLock /\ pc[k] \in UnderLock => j = k
  BY RunsApart DEF RunsOverlapOnlyAfterLoss
<1> USE <1>0 DEF dataVars, liveVars, podVars
<1>1. ASSUME NEW j \in Proc, Start(j)
      PROVE  RecordInOrder'
  <2>1. UNCHANGED <<finished, configured, read>> /\ (Goto(j, "lock"))
    BY <1>1 DEF Start
  <2>2. QED
    BY <2>1, RecordKeptByJob
<1>2. ASSUME NEW j \in Proc, Refuse(j)
      PROVE  RecordInOrder'
  <2>1. UNCHANGED <<finished, configured, read>> /\ (Goto(j, "failed"))
    BY <1>2 DEF Refuse
  <2>2. QED
    BY <2>1, RecordKeptByJob
<1>3. ASSUME NEW j \in Proc, TakeLock(j)
      PROVE  RecordInOrder'
  <2>1. UNCHANGED <<finished, configured, read>> /\ (Goto(j, "schema"))
    BY <1>3 DEF TakeLock
  <2>2. QED
    BY <2>1, RecordKeptByJob
<1>4. ASSUME NEW j \in Proc, GiveUpLock(j)
      PROVE  RecordInOrder'
  <2>1. UNCHANGED <<finished, configured, read>> /\ (Goto(j, "failed"))
    BY <1>4 DEF GiveUpLock
  <2>2. QED
    BY <2>1, RecordKeptByJob
<1>5. ASSUME NEW j \in Proc, CheckSchema(j)
      PROVE  RecordInOrder'
  <2>1. UNCHANGED <<finished, configured, read>> /\ (Goto(j, "layout") \/ Goto(j, "import"))
    BY <1>5 DEF CheckSchema
  <2>2. QED
    BY <2>1, RecordKeptByJob
<1>6. ASSUME NEW j \in Proc, Import(j)
      PROVE  RecordInOrder'
  <2>1. UNCHANGED <<finished, configured, read>> /\ (Goto(j, "layout") \/ Goto(j, "failing"))
    BY <1>6 DEF Import
  <2>2. QED
    BY <2>1, RecordKeptByJob
<1>7. ASSUME NEW j \in Proc, CheckLayout(j)
      PROVE  RecordInOrder'
  <2>1. UNCHANGED <<finished, configured, read>> /\ (Goto(j, "failing") \/ Goto(j, "updates"))
    BY <1>7 DEF CheckLayout
  <2>2. QED
    BY <2>1, RecordKeptByJob
<1>8. ASSUME NEW j \in Proc, RunUpdates(j)
      PROVE  RecordInOrder'
  <2>1. UNCHANGED <<finished, configured, read>> /\ (Goto(j, "admin") \/ Goto(j, "failing"))
    BY <1>8 DEF RunUpdates
  <2>2. QED
    BY <2>1, RecordKeptByJob
<1>9. ASSUME NEW j \in Proc, SetupAdmin(j)
      PROVE  RecordInOrder'
  <2>1. UNCHANGED <<finished, configured, read>> /\ (Goto(j, "live"))
    BY <1>9 DEF SetupAdmin
  <2>2. QED
    BY <2>1, RecordKeptByJob
<1>10. ASSUME NEW j \in Proc, CheckLive(j)
      PROVE  RecordInOrder'
  <2>1. UNCHANGED <<finished, configured, read>> /\ (Goto(j, "set live") \/ Goto(j, "read record"))
    BY <1>10 DEF CheckLive
  <2>2. QED
    BY <2>1, RecordKeptByJob
<1>11. ASSUME NEW j \in Proc, SetLive(j)
      PROVE  RecordInOrder'
  <2>1. UNCHANGED <<finished, configured, read>> /\ Goto(j, "read record")
    BY <1>11 DEF SetLive
  <2>2. QED
    BY <2>1, RecordKeptByJob
<1>12. ASSUME NEW j \in Proc, ReadConfigured(j)
      PROVE  RecordInOrder'
  <2>1. \A k \in Proc : /\ pc'[k] = IF k = j THEN "write record" ELSE pc[k]
                        /\ read'[k] = IF k = j THEN configured ELSE read[k]
    BY <1>12 DEF ReadConfigured, Goto, TypeOK
  <2>2. UNCHANGED <<finished, configured>>
    BY <1>12 DEF ReadConfigured
  <2>3. QED
    BY <2>1, <2>2 DEF RecordInOrder
<1>13. ASSUME NEW j \in Proc, WriteConfigured(j)
      PROVE  RecordInOrder'
  <2>1. /\ Wanted[j] \in Revision /\ read[j] \in Seq(Revision) /\ finished \in Seq(Revision)
        /\ Distinct(finished)
    BY ProcessAssumption DEF TypeOK, RecordInOrder
  <2>2. Distinct(finished')
    BY <1>13, <2>1, MovedDistinct DEF WriteConfigured
  <2>3. ASSUME lost' = {}
        PROVE  /\ configured' = Newest(finished')
               /\ \A k \in Proc : pc'[k] # "write record"
    <3>1. lost = {} /\ pc[j] = "write record"
      BY <1>13, <2>3 DEF WriteConfigured
    <3>2. read[j] = Newest(finished)
      BY <3>1 DEF RecordInOrder
    <3>3. configured' = Newest(finished')
      BY <1>13, <2>1, <3>2, NewestSuffices DEF WriteConfigured
    <3>4. \A k \in Proc : k # j => pc[k] \notin UnderLock
      BY <1>a, <3>1 DEF UnderLock, Work
    <3>5. \A k \in Proc : k # j => pc'[k] = pc[k]
      BY <1>13 DEF WriteConfigured, Goto
    <3>6. pc'[j] \in {"release", "failing"}
      BY <1>13 DEF WriteConfigured, Goto
    <3>7. QED
      BY <3>3, <3>4, <3>5, <3>6 DEF UnderLock, Work
  <2>4. QED
    BY <2>2, <2>3 DEF RecordInOrder
<1>14. ASSUME NEW j \in Proc, WorkFails(j)
      PROVE  RecordInOrder'
  <2>1. UNCHANGED <<finished, configured, read>> /\ (Goto(j, "failing"))
    BY <1>14 DEF WorkFails
  <2>2. QED
    BY <2>1, RecordKeptByJob
<1>15. ASSUME NEW j \in Proc, CountError(j)
      PROVE  RecordInOrder'
  <2>1. UNCHANGED <<finished, configured, read>> /\ (Goto(j, "count error") \/ Goto(j, "release failed"))
    BY <1>15 DEF CountError
  <2>2. QED
    BY <2>1, RecordKeptByJob
<1>16. ASSUME NEW j \in Proc, ReleaseLock(j)
      PROVE  RecordInOrder'
  <2>1. UNCHANGED <<finished, configured, read>> /\ (Goto(j, "count") \/ Goto(j, "failed"))
    BY <1>16 DEF ReleaseLock
  <2>2. QED
    BY <2>1, RecordKeptByJob
<1>17. ASSUME NEW j \in Proc, CountSuccess(j)
      PROVE  RecordInOrder'
  <2>1. UNCHANGED <<finished, configured, read>> /\ (Goto(j, "count success") \/ Goto(j, "done"))
    BY <1>17 DEF CountSuccess
  <2>2. QED
    BY <2>1, RecordKeptByJob
<1>18. ASSUME NEW j \in Proc, JobDies(j)
      PROVE  RecordInOrder'
  <2>1. UNCHANGED <<finished, configured, read>> /\ (Goto(j, "dead"))
    BY <1>18 DEF JobDies
  <2>2. QED
    BY <2>1, RecordKeptByJob
<1>19. ASSUME NEW j \in Proc, JobSessionEnds(j)
      PROVE  RecordInOrder'
  BY <1>19, RecordKept DEF JobSessionEnds
<1>20. ASSUME NEW p \in Pod, Serve(p)
      PROVE  RecordInOrder'
  BY <1>20, RecordKept DEF Serve
<1>21. ASSUME NEW p \in Pod, PollAgain(p)
      PROVE  RecordInOrder'
  BY <1>21, RecordKept DEF PollAgain
<1>22. ASSUME NEW p \in Pod, PollRaises(p)
      PROVE  RecordInOrder'
  BY <1>22, RecordKept DEF PollRaises
<1>23. ASSUME NEW p \in Pod, PodStops(p)
      PROVE  RecordInOrder'
  BY <1>23, RecordKept DEF PodStops
<1>24. ASSUME NEW p \in Pod, PodRestarts(p)
      PROVE  RecordInOrder'
  BY <1>24, RecordKept DEF PodRestarts
<1>25. ASSUME NEW p \in Pod, AdminSetsLive(p)
      PROVE  RecordInOrder'
  BY <1>25, RecordKept DEF AdminSetsLive
<1>26. CASE UNCHANGED vars
  BY <1>26, RecordKept DEF vars
<1>27. QED
  BY <1>1, <1>2, <1>3, <1>4, <1>5, <1>6, <1>7, <1>8, <1>9, <1>10, <1>11, <1>12,
     <1>13, <1>14, <1>15, <1>16, <1>17, <1>18, <1>19, <1>20, <1>21, <1>22, <1>23, <1>24, <1>25, <1>26
  DEF Next, JobStep

LEMMA RecordInvariant == Spec => [](RolloutInv /\ RecordInOrder)
<1>1. QED
  BY InitInv, InvStep, RecordInit, RecordStep, PTL DEF Spec

(* No run's record is lost to another run: although a run reads the record  *)
(* and writes it in two statements, the record holds the last               *)
(* CONFIGURED_KEEP revisions by their latest run until a run loses its lock *)
(* session under it.                                                        *)
THEOREM RecordIsComplete == Spec => []RecordComplete
<1>1. RecordInOrder => RecordComplete
  BY DEF RecordInOrder, RecordComplete
<1>2. QED
  BY <1>1, RecordInvariant, PTL

(* record_configured leaves a record that holds something. *)
LEMMA WrittenNotEmpty ==
  ASSUME TypeOK, NEW j \in Proc, WriteConfigured(j)
  PROVE  configured' # <<>>
<1> DEFINE t == Append(Without(read[j], Wanted[j]), Wanted[j])
<1>1. Wanted[j] \in Revision /\ read[j] \in Seq(Revision)
  BY ProcessAssumption DEF TypeOK
<1>2. Without(read[j], Wanted[j]) \in Seq(Revision)
  BY <1>1, WithoutType
<1>3. t \in Seq(Revision) /\ Len(t) \in Nat \ {0}
  BY <1>1, <1>2, AppendProperties
<1>4. configured' = Newest(t)
  BY DEF WriteConfigured
<1> HIDE DEF t
<1>5. Len(Newest(t)) = IF Len(t) > Keep THEN Keep ELSE Len(t)
  BY <1>3, NewestElements
<1>6. Len(Newest(t)) # 0
  BY <1>3, <1>5, RecordAssumption
<1>7. QED
  BY <1>4, <1>6, EmptySeq

(* The strengthening that AdminKeepsLive needs.  A pod that serves has met  *)
(* a record; a run that is about to set MISP.live found no value, so it was *)
(* there already when a maintenance began; and while no run has lost its    *)
(* lock or passed over a failed setting, nobody has set a value since,      *)
(* because no pod serves before a run is on record.                         *)
LiveInOrder ==
  /\ \A p \in Pod : pod[p] = "serving" => configured # <<>>
  /\ \A j \in Proc : pc[j] = "set live" =>
       /\ live = "false" => j \in raced
       /\ lost = {} /\ ~ignored => live = "unset"

LEMMA LiveInit == Init => LiveInOrder
BY DEF Init, LiveInOrder

(* A step that leaves MISP.live alone, and after which no run is newly      *)
(* about to set it.                                                         *)
LEMMA LiveKept ==
  ASSUME LiveInOrder, UNCHANGED liveVars, lost \subseteq lost',
         configured # <<>> => configured' # <<>>,
         \A p \in Pod : pod'[p] = "serving" => pod[p] = "serving" \/ configured' # <<>>,
         \A k \in Proc : pc'[k] = "set live" => pc[k] = "set live"
  PROVE  LiveInOrder'
BY DEF LiveInOrder, liveVars

(* The same for a Job that moves to another step.                           *)
LEMMA LiveKeptByJob ==
  ASSUME LiveInOrder, pc \in [Proc -> JobPC], UNCHANGED <<configured, pod, liveVars>>,
         lost \subseteq lost', NEW j \in Proc, NEW step, Goto(j, step), step # "set live"
  PROVE  LiveInOrder'
<1>1. \A k \in Proc : pc'[k] = IF k = j THEN step ELSE pc[k]
  BY DEF Goto
<1>2. QED
  BY <1>1, LiveKept

LEMMA LiveStep ==
  RolloutInv /\ LiveInOrder /\ [Next]_vars => LiveInOrder'
<1> SUFFICES ASSUME RolloutInv, LiveInOrder, [Next]_vars
             PROVE  LiveInOrder'
  OBVIOUS
<1>0. /\ TypeOK /\ pc \in [Proc -> JobPC] /\ WorkInOrder /\ lost \subseteq lost'
  BY LostStays DEF RolloutInv, TypeOK
<1>a. \A j, k \in Proc : lost = {} /\ pc[j] \in UnderLock /\ pc[k] \in UnderLock => j = k
  BY RunsApart DEF RunsOverlapOnlyAfterLoss
<1> USE <1>0 DEF dataVars, podVars
<1>1. ASSUME NEW j \in Proc,
             \/ Start(j) \/ Refuse(j) \/ TakeLock(j) \/ GiveUpLock(j) \/ CheckSchema(j) \/ Import(j)
             \/ CheckLayout(j) \/ RunUpdates(j) \/ SetupAdmin(j) \/ ReadConfigured(j) \/ WorkFails(j)
             \/ CountError(j) \/ ReleaseLock(j) \/ CountSuccess(j) \/ JobDies(j)
      PROVE  LiveInOrder'
  <2>1. UNCHANGED <<configured, pod, liveVars>>
    BY <1>1 DEF Start, Refuse, TakeLock, GiveUpLock, CheckSchema, Import, CheckLayout, RunUpdates,
       SetupAdmin, ReadConfigured, WorkFails, CountError, ReleaseLock, CountSuccess, JobDies
  <2>2. \A k \in Proc : pc'[k] = "set live" => pc[k] = "set live"
    <3>1. CASE Start(j) \/ Refuse(j) \/ TakeLock(j) \/ GiveUpLock(j) \/ JobDies(j)
      BY <3>1 DEF Start, Refuse, TakeLock, GiveUpLock, JobDies, Goto
    <3>2. CASE CheckSchema(j) \/ Import(j) \/ CheckLayout(j) \/ RunUpdates(j) \/ SetupAdmin(j)
      BY <3>2 DEF CheckSchema, Import, CheckLayout, RunUpdates, SetupAdmin, Goto
    <3>3. CASE ReadConfigured(j) \/ WorkFails(j) \/ CountError(j) \/ CountSuccess(j)
      BY <3>3 DEF ReadConfigured, WorkFails, CountError, CountSuccess, Goto
    <3>4. CASE ReleaseLock(j)
      BY <3>4 DEF ReleaseLock, Goto
    <3>5. QED
      BY <1>1, <3>1, <3>2, <3>3, <3>4
  <2>3. QED
    BY <2>1, <2>2, LiveKept
<1>2. ASSUME NEW j \in Proc, CheckLive(j)
      PROVE  LiveInOrder'
  <2>1. CASE live = "unset"
    <3>1. \A k \in Proc : pc'[k] = IF k = j THEN "set live" ELSE pc[k]
      BY <1>2, <2>1 DEF CheckLive, Goto
    <3>2. UNCHANGED <<configured, pod, live, ignored, raced>> /\ lost' = lost
      BY <1>2 DEF CheckLive, liveVars, lockVars
    <3>3. QED
      BY <2>1, <3>1, <3>2 DEF LiveInOrder
  <2>2. CASE live # "unset"
    <3>1. UNCHANGED <<configured, pod, liveVars>> /\ Goto(j, "read record")
      BY <1>2, <2>2 DEF CheckLive
    <3>2. QED
      BY <3>1, LiveKeptByJob
  <2>3. QED
    BY <2>1, <2>2
<1>3. ASSUME NEW j \in Proc, SetLive(j)
      PROVE  LiveInOrder'
  <2>1. \A k \in Proc : pc'[k] = IF k = j THEN "read record" ELSE pc[k]
    BY <1>3 DEF SetLive, Goto
  <2>2. UNCHANGED <<configured, pod, raced>> /\ pc[j] = "set live" /\ (live' = "true" \/ UNCHANGED live)
    BY <1>3 DEF SetLive
  <2>3. lost' = {} => \A k \in Proc : pc'[k] # "set live"
    BY <1>a, <2>1, <2>2 DEF UnderLock, Work
  <2>4. QED
    BY <2>1, <2>2, <2>3 DEF LiveInOrder
<1>4. ASSUME NEW j \in Proc, WriteConfigured(j)
      PROVE  LiveInOrder'
  <2>1. configured' # <<>>
    BY <1>4, WrittenNotEmpty
  <2>2. \A k \in Proc : pc'[k] = pc[k] \/ pc'[k] \in {"release", "failing"}
    BY <1>4 DEF WriteConfigured, Goto
  <2>3. UNCHANGED <<pod, liveVars>>
    BY <1>4 DEF WriteConfigured
  <2>4. QED
    BY <2>1, <2>2, <2>3, LiveKept
<1>5. ASSUME NEW j \in Proc, JobSessionEnds(j)
      PROVE  LiveInOrder'
  BY <1>5, LiveKept DEF JobSessionEnds
<1>6. ASSUME NEW p \in Pod, Serve(p)
      PROVE  LiveInOrder'
  <2>1. configured # <<>>
    BY <1>6, NoEntries DEF Serve, Recorded
  <2>2. QED
    BY <1>6, <2>1, LiveKept DEF Serve
<1>7. ASSUME NEW p \in Pod, PollAgain(p) \/ PollRaises(p) \/ PodStops(p) \/ PodRestarts(p)
      PROVE  LiveInOrder'
  <2>1. \A q \in Pod : pod'[q] = "serving" => pod[q] = "serving"
    BY <1>7 DEF PollAgain, PollRaises, PodStops, PodRestarts, Become, TypeOK
  <2>2. UNCHANGED <<pc, configured, liveVars>>
    BY <1>7 DEF PollAgain, PollRaises, PodStops, PodRestarts
  <2>3. QED
    BY <2>1, <2>2, LiveKept
<1>8. ASSUME NEW p \in Pod, AdminSetsLive(p)
      PROVE  LiveInOrder'
  <2>1. UNCHANGED <<pc, pod, configured, ignored>> /\ lost' = lost
    BY <1>8 DEF AdminSetsLive, lockVars
  <2>2. live # "unset" \/ ignored
    BY <1>8 DEF AdminSetsLive, LiveInOrder, WorkInOrder
  <2>3. live' = "false" => raced' = {j \in Proc : pc[j] = "set live"}
    BY <1>8 DEF AdminSetsLive
  <2>4. \A j \in Proc : pc[j] = "set live" => lost # {} \/ ignored
    BY <2>2 DEF LiveInOrder
  <2>5. \A j \in Proc : pc'[j] = "set live" /\ live' = "false" => j \in raced'
    BY <2>1, <2>3
  <2>6. QED
    BY <2>1, <2>4, <2>5 DEF LiveInOrder
<1>9. CASE UNCHANGED vars
  BY <1>9, LiveKept DEF vars
<1>10. QED
  BY <1>1, <1>2, <1>3, <1>4, <1>5, <1>6, <1>7, <1>8, <1>9 DEF Next, JobStep

(* MISP.live is set once, then it is the admin's: a run that ends a         *)
(* maintenance had found no value before the maintenance began, and that    *)
(* takes a lost lock session or a failed setting that a run passed over.    *)
THEOREM MaintenanceStays == Spec => AdminKeepsLive
<1> DEFINE Ends == live = "false" /\ live' # "false" /\ pc' # pc
           Kept == Ends => (\E j \in raced : pc[j] = "set live") /\ (lost # {} \/ ignored)
<1>1. RolloutInv /\ LiveInOrder /\ [Next]_vars => [Kept]_vars
  <2> SUFFICES ASSUME LiveInOrder, Next, Ends
               PROVE  (\E j \in raced : pc[j] = "set live") /\ (lost # {} \/ ignored)
    OBVIOUS
  <2>1. ASSUME NEW j \in Proc, JobStep(j) \/ JobDies(j) \/ JobSessionEnds(j)
        PROVE  pc[j] = "set live"
    <3>1. SetLive(j)
      BY <2>1 DEF JobStep, Start, Refuse, TakeLock, GiveUpLock, CheckSchema, Import, CheckLayout,
         RunUpdates, SetupAdmin, CheckLive, ReadConfigured, WriteConfigured, WorkFails,
         CountError, ReleaseLock, CountSuccess, JobDies, JobSessionEnds, dataVars, liveVars
    <3>2. QED
      BY <3>1 DEF SetLive
  <2>2. ASSUME NEW p \in Pod, \/ Serve(p) \/ PollAgain(p) \/ PollRaises(p)
                              \/ PodStops(p) \/ PodRestarts(p) \/ AdminSetsLive(p)
        PROVE  UNCHANGED pc
    BY <2>2 DEF Serve, PollAgain, PollRaises, PodStops, PodRestarts, AdminSetsLive
  <2>3. PICK j \in Proc : pc[j] = "set live"
    BY <2>1, <2>2 DEF Next
  <2>4. QED
    BY <2>3 DEF LiveInOrder
<1>2. Spec => [](RolloutInv /\ LiveInOrder)
  BY InitInv, InvStep, LiveInit, LiveStep, PTL DEF Spec
<1>3. QED
  BY <1>1, <1>2, PTL DEF Spec, AdminKeepsLive

-----------------------------------------------------------------------------
(* The lock in the rollout *)

(* What a rollout does to the lock are steps of ConfigLock, so the lock's   *)
(* own rule holds in it: no Job that gives up, fails, dies or releases what *)
(* it has lost frees the lock of another one (db.release_config_lock).      *)
THEOREM RolloutObeysLock ==
  Spec => LockInit /\ [][LockNext]_lockVars /\ FreedOnlyByItsHolder
<1>1. Init => LockInit
  BY DEF Init
<1>2. [Next]_vars => [LockNext]_lockVars
  <2>1. ASSUME NEW j \in Proc, JobStep(j) \/ JobDies(j) \/ JobSessionEnds(j)
        PROVE  \/ UNCHANGED lockVars
               \/ Connect(j) \/ TryLock(j) \/ TimeOut(j) \/ PollFails(j)
               \/ Release(j) \/ Die(j) \/ SessionEnds(j)
    <3>1. CASE Start(j) \/ TakeLock(j) \/ GiveUpLock(j) \/ ReleaseLock(j)
      BY <3>1 DEF Start, TakeLock, GiveUpLock, ReleaseLock
    <3>2. CASE JobDies(j) \/ JobSessionEnds(j)
      BY <3>2 DEF JobDies, JobSessionEnds
    <3>3. CASE \/ Refuse(j) \/ CheckSchema(j) \/ Import(j) \/ CheckLayout(j) \/ RunUpdates(j)
               \/ SetupAdmin(j) \/ CheckLive(j) \/ SetLive(j) \/ ReadConfigured(j)
               \/ WriteConfigured(j) \/ WorkFails(j) \/ CountError(j) \/ CountSuccess(j)
      BY <3>3
      DEF Refuse, CheckSchema, Import, CheckLayout, RunUpdates, SetupAdmin, CheckLive, SetLive,
          ReadConfigured, WriteConfigured, WorkFails, CountError, CountSuccess
    <3>4. QED
      BY <2>1, <3>1, <3>2, <3>3 DEF JobStep
  <2>2. ASSUME NEW p \in Pod,
               \/ Serve(p) \/ PollAgain(p) \/ PollRaises(p)
               \/ PodStops(p) \/ PodRestarts(p) \/ AdminSetsLive(p)
        PROVE  UNCHANGED lockVars
    BY <2>2 DEF Serve, PollAgain, PollRaises, PodStops, PodRestarts, AdminSetsLive
  <2>3. UNCHANGED vars => UNCHANGED lockVars
    BY DEF vars
  <2>4. QED
    BY <2>1, <2>2, <2>3 DEF Next, LockNext
<1>3. QED
  BY <1>1, <1>2, LockFrees, PTL DEF Spec
=============================================================================
