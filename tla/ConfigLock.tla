------------------------------ MODULE ConfigLock ------------------------------
(***************************************************************************)
(* The lock "misp_configure" of db.py: acquire_config_lock polls           *)
(* pg_try_advisory_lock on a connection of its own and keeps that          *)
(* connection open until release_config_lock.  PostgreSQL holds an         *)
(* advisory lock for a session, so the lock lives and dies with the        *)
(* server's side of the connection (a backend), which the client does not  *)
(* see: the connection may break under a run that goes on working, and the *)
(* backend of a run that died may live on until the server notices.        *)
(***************************************************************************)
CONSTANTS Proc,     \* the processes that take the lock, one per attempt
          None      \* no process

ASSUME NoneAssumption == None \notin Proc

VARIABLES
  client,   \* client[p]: what process p has: no lock connection ("out"), one it
            \* polls on ("polling"), db._lock_conn set ("held"), or p is dead ("gone")
  backend,  \* the processes whose lock session PostgreSQL still has open
  holder,   \* the process whose session holds the advisory lock, or None
  lost      \* history: processes whose session ended while they held the lock

lockVars == <<client, backend, holder, lost>>

LockTypeOK ==
  /\ client \in [Proc -> {"out", "polling", "held", "gone"}]
  /\ backend \subseteq Proc
  /\ holder \in Proc \union {None}
  /\ lost \subseteq Proc

LockInit ==
  /\ client = [p \in Proc |-> "out"]
  /\ backend = {}
  /\ holder = None
  /\ lost = {}

HolderWithout(p) == IF holder = p THEN None ELSE holder

(* conn = _connect(), before the first poll. *)
Connect(p) ==
  /\ client[p] = "out"
  /\ p \notin backend
  /\ client' = [client EXCEPT ![p] = "polling"]
  /\ backend' = backend \union {p}
  /\ UNCHANGED <<holder, lost>>

(* Mutant of TryLock: the answer of pg_try_advisory_lock is not looked at. *)
TryLockUnchecked(p) ==
  /\ client[p] = "polling"
  /\ p \in backend
  /\ client' = [client EXCEPT ![p] = "held"]
  /\ holder' = p
  /\ UNCHANGED <<backend, lost>>

(* A poll that gets the lock.  A poll that does not get it changes nothing. *)
TryLock(p) ==
  /\ client[p] = "polling"
  /\ p \in backend
  /\ holder = None
  /\ client' = [client EXCEPT ![p] = "held"]
  /\ holder' = p
  /\ UNCHANGED <<backend, lost>>

(* Mutant of TimeOut: the unlock of a run that has no lock frees it. *)
TimeOutUnlocks(p) ==
  /\ client[p] = "polling"
  /\ p \in backend
  /\ holder # None
  /\ client' = [client EXCEPT ![p] = "out"]
  /\ backend' = backend \ {p}
  /\ holder' = None
  /\ UNCHANGED lost

(* The poll at the deadline finds the lock taken: close, exit 1. *)
TimeOut(p) ==
  /\ client[p] = "polling"
  /\ p \in backend
  /\ holder # None
  /\ client' = [client EXCEPT ![p] = "out"]
  /\ backend' = backend \ {p}
  /\ UNCHANGED <<holder, lost>>

(* Mutant of PollFails: the exception is logged, and the run goes on. *)
PollFailsGoesOn(p) ==
  /\ client[p] = "polling"
  /\ client' = [client EXCEPT ![p] = "held"]
  /\ UNCHANGED <<backend, holder, lost>>

(* A poll raises: close, exit 1.  The session of a connection that broke on *)
(* the process' side alone lives on, and has the lock when only the answer  *)
(* to pg_try_advisory_lock was lost.                                        *)
PollFails(p) ==
  /\ client[p] = "polling"
  /\ client' = [client EXCEPT ![p] = "out"]
  /\ \/ UNCHANGED holder
     \/ p \in backend /\ holder = None /\ holder' = p
  /\ UNCHANGED <<backend, lost>>

(* release_config_lock: unlock and close.  On a broken or half-open         *)
(* connection the unlock raises, is logged, and nothing changes on the      *)
(* server: what session there is keeps the lock until it ends.              *)
Release(p) ==
  /\ client[p] = "held"
  /\ client' = [client EXCEPT ![p] = "out"]
  /\ \/ UNCHANGED <<backend, holder>>
     \/ p \in backend /\ backend' = backend \ {p} /\ holder' = HolderWithout(p)
  /\ UNCHANGED lost

(* The process dies.  What it had on the server stays until SessionEnds. *)
Die(p) ==
  /\ client[p] # "gone"
  /\ client' = [client EXCEPT ![p] = "gone"]
  /\ UNCHANGED <<backend, holder, lost>>

(* Mutant of SessionEnds: a lock that outlives the session of a dead run.  *)
SessionEndsLockStays(p) ==
  /\ p \in backend
  /\ client[p] \in {"gone", "out"} => holder # p
  /\ backend' = backend \ {p}
  /\ holder' = HolderWithout(p)
  /\ lost' = IF client[p] = "held" THEN lost \union {p} ELSE lost
  /\ UNCHANGED client

(* PostgreSQL ends p's session and frees its lock: the process is dead or   *)
(* has closed its side, the network between them broke, or the server       *)
(* restarted or failed over.                                                *)
SessionEnds(p) ==
  /\ p \in backend
  /\ backend' = backend \ {p}
  /\ holder' = HolderWithout(p)
  /\ lost' = IF client[p] = "held" THEN lost \union {p} ELSE lost
  /\ UNCHANGED client

LockStep(p) == TryLock(p) \/ TimeOut(p) \/ PollFails(p)

LockNext ==
  \E p \in Proc :
    \/ Connect(p) \/ TryLock(p) \/ TimeOut(p) \/ PollFails(p)
    \/ Release(p) \/ Die(p) \/ SessionEnds(p)

(* The poll loop has a deadline, what a run does under the lock ends, and   *)
(* PostgreSQL ends the session of a peer that is dead or has closed (the    *)
(* socket, or the TCP keepalive after a node or a network died).  Nothing   *)
(* makes a process die or connect.                                          *)
LockFairness ==
  \A p \in Proc :
    /\ WF_lockVars(LockStep(p))
    /\ WF_lockVars(Release(p))
    /\ WF_lockVars(client[p] \in {"gone", "out"} /\ SessionEnds(p))

LockSpec == LockInit /\ [][LockNext]_lockVars /\ LockFairness

-----------------------------------------------------------------------------
(* Safety *)

(* Process p runs under the lock, and the server agrees. *)
Holds(p) == client[p] = "held" /\ p \in backend

(* "The whole run holds the lock" (configure.py): of two processes past     *)
(* acquire_config_lock, one has lost its session.  A run never checks.      *)
OverlapNeedsLoss ==
  \A p, q \in Proc : Holds(p) /\ Holds(q) => p = q

(* What the server knows of the lock: the holder has a session and polls no *)
(* longer; it took the lock and has not released it, died, or left without  *)
(* the server's knowledge.  A process that holds it on the server's side    *)
(* too is the holder.                                                       *)
HolderSession ==
  /\ holder # None => holder \in backend /\ client[holder] # "polling"
  /\ \A p \in Proc : Holds(p) => holder = p
  /\ \A p \in Proc : client[p] = "held" => p \in backend \/ p \in lost

LockInv == LockTypeOK /\ HolderSession

(* A lock leaves its holder in two ways: the holder releases it, or the     *)
(* holder's own session ends.  Neither a run that gives up, nor the release *)
(* of a run that lost its session, frees the lock of the run that came next.*)
FreedOnlyByItsHolder ==
  [][\A p \in Proc : holder = p /\ holder' # p
        => p \notin backend' /\ client[p] # "polling"]_lockVars

-----------------------------------------------------------------------------
(* Liveness *)

(* Nobody waits for ever in acquire_config_lock: the process gets the lock, *)
(* gives up at the deadline or dies.  And a run that dies under the lock,   *)
(* on whatever node, or whose release does not reach the server, does not   *)
(* block the next run for ever.                                             *)
WaitEnds ==
  \A p \in Proc :
    /\ client[p] = "polling" ~> client[p] # "polling"
    /\ (holder = p /\ client[p] \in {"gone", "out"}) ~> (holder # p)
=============================================================================
