--------------------------- MODULE RolloutPromise ---------------------------
(***************************************************************************)
(* What the configure Job promises the web and worker pods, whatever order *)
(* the manifests are applied in (docs/architecture.md, "a pod of a new     *)
(* version never serves before its migrations ran"): a pod starts to serve *)
(* only while a run on record matches it, and a run comes on record only   *)
(* after its own database updates.  How runs are kept apart and how the    *)
(* record is stored is left to Rollout, which implements this.             *)
(***************************************************************************)
CONSTANTS Pod,
          Run,               \* what a run can be recorded for
          Wanted,            \* Wanted[p]: what pod p waits for
          Matches(_, _)      \* whether a run answers a pod's wait

VARIABLES
  migrated,  \* the runs whose database updates have been applied
  known,     \* the runs that ever came on record
  ready,     \* the runs on record
  up         \* the pods that serve

promiseVars == <<migrated, known, ready, up>>

PromiseInit ==
  /\ migrated \subseteq Run
  /\ known \subseteq migrated
  /\ ready \subseteq known
  /\ up = {}

Migrate(r) ==
  /\ migrated' = migrated \union {r}
  /\ UNCHANGED <<known, ready, up>>

(* The record holds a bounded number of runs: older ones may go, and a Job  *)
(* that lost its lock may bring back one that it had read.                  *)
Record(r) ==
  /\ r \in migrated
  /\ known' = known \union {r}
  /\ ready' \subseteq known'
  /\ UNCHANGED <<migrated, up>>

Serve(p) ==
  /\ \E r \in ready : Matches(r, Wanted[p])
  /\ up' = up \union {p}
  /\ UNCHANGED <<migrated, known, ready>>

Stop(p) ==
  /\ up' = up \ {p}
  /\ UNCHANGED <<migrated, known, ready>>

PromiseNext ==
  \/ \E r \in Run : Migrate(r) \/ Record(r)
  \/ \E p \in Pod : Serve(p) \/ Stop(p)

PromiseSpec == PromiseInit /\ [][PromiseNext]_promiseVars
=============================================================================
