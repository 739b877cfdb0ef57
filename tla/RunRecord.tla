------------------------------ MODULE RunRecord ------------------------------
(***************************************************************************)
(* db.record_run: the row of system_settings that counts the runs of one   *)
(* container job, a count and the time of the last run per status.  The    *)
(* count is a read and a write, two statements on two connections, without *)
(* a lock or a transaction around them.  Rollout takes Read and Write as   *)
(* steps of its Jobs; Exporter has runs of a job that only record.         *)
(***************************************************************************)
EXTENDS Naturals

CONSTANT Proc  \* the runs of this job, each one process

VARIABLES
  row,    \* the row: count[status] and last[status], 0 where it holds nothing
  seen,   \* seen[p]: the row as get_system_setting returned it to p
  stage,  \* stage[p]: "running" the job, "read" the row, or "done"
  now     \* the time in seconds

Status == {"success", "error"}
Row == [count : [Status -> Nat], last : [Status -> Nat]]
NoRow == [count |-> [s \in Status |-> 0], last |-> [s \in Status |-> 0]]

(* state = get_system_setting(name): NoRow when the row is missing. *)
Read(p) ==
  /\ seen' = [seen EXCEPT ![p] = row]
  /\ UNCHANGED row

(* state[status] + 1 and the time, then set_system_setting. *)
Write(p, status) ==
  /\ row' = [count |-> [seen[p].count EXCEPT ![status] = @ + 1],
             last  |-> [seen[p].last EXCEPT ![status] = now]]
  /\ seen' = [seen EXCEPT ![p] = NoRow]

-----------------------------------------------------------------------------
(* The runs of one job on their own *)

RunInit ==
  /\ row = NoRow
  /\ seen = [p \in Proc |-> NoRow]
  /\ stage = [p \in Proc |-> "running"]

RunReads(p) ==
  /\ stage[p] = "running"
  /\ Read(p)
  /\ stage' = [stage EXCEPT ![p] = "read"]

RunWrites(p, status) ==
  /\ stage[p] = "read"
  /\ Write(p, status)
  /\ stage' = [stage EXCEPT ![p] = "done"]
=============================================================================
