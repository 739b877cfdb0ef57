------------------------------- MODULE OrgSync -------------------------------
(***************************************************************************)
(* The org-sync Job (sync.main): under the configure lock it reads MISP's   *)
(* state, brings every item of orgs.yaml to what the file says, one kind   *)
(* after the other through MISP's API, and then disables what the file     *)
(* does not name.  A step goes on after an item that failed, most steps go *)
(* on after a step that failed, and "the next run starts over".            *)
(*                                                                         *)
(* MISP's state of an item is one of four: "missing", "off" (disabled, or  *)
(* without push and pull), "differs" from the file or only half made, or   *)
(* "on".  User 1, which no run disables, is not among the items.           *)
(***************************************************************************)
EXTENDS Integers, Sequences, FiniteSets

CONSTANTS
  Run,        \* the runs of the Job
  None,       \* no process, file or key
  Item,       \* what orgs.yaml may name, and what MISP may have besides
  Kind,       \* Kind[i]: "role", "org", "tag", "user", "server", "list" (of
              \* taxonomies or warninglists) or "group"
  Needs,      \* Needs[i]: the items that i names
  Files,      \* the contents of orgs.yaml: the items it names, the authkey of its
              \* servers, and of which kinds it disables what it does not name
  MaxFaults,  \* bound: failed requests and runs that die
  MaxTouched, \* bound: what others change in MISP
  MaxLost     \* bound: lock sessions that end under a live run

ASSUME SyncAssumption ==
  /\ None \notin Run /\ None \notin Files
  /\ Kind \in [Item -> {"role", "org", "tag", "user", "server", "list", "group"}]
  /\ Needs \in [Item -> SUBSET Item]
  /\ \A f \in Files : f.items \subseteq Item /\ f.disables \subseteq {"user", "server", "list"}
  /\ MaxFaults \in Nat /\ MaxTouched \in Nat /\ MaxLost \in Nat

VARIABLES
  client, backend, holder, lost,  \* the lock: see ConfigLock
  pc,       \* pc[r]: the next step of run r
  file,     \* file[r] \in Files
  misp,     \* misp[i]: MISP's state of item i
  backed,   \* the users with an OIDC subject or external auth
  key,      \* key[s]: the authkey that MISP has for server s
  sent,     \* the row misp_docker.server_keys
  run,      \* run[r]: what run r has in memory
  faults, touches,  \* count the bounded actions
  touched,  \* history: the items that others changed since the last fetch
  doubt,    \* history: the servers whose key in MISP need not be the one of the
            \* digest: a run that sent it could not store its digest, or others
            \* changed it after it was sent last
  late,     \* history: the users who logged in after a run last read the users
  settled   \* history: the file of the last run, if it succeeded and nothing came since

lockVars == <<client, backend, holder, lost>>
mispVars == <<misp, backed, key>>
byOthers == <<touches, touched, late>>
history == <<faults, byOthers, doubt, settled>>
vars == <<lockVars, pc, file, mispVars, sent, run, history>>

Lock == INSTANCE ConfigLock WITH Proc <- Run

Level == {"missing", "off", "differs", "on"}
Disabling == {"user", "server", "list"}
Server == {i \in Item : Kind[i] = "server"}
Keys == {None} \union {f.key : f \in Files}
Enabled(i) == misp[i] \in {"on", "differs"}

(* The steps of apply, and the kinds that the last ones disable. *)
Steps == <<"role", "org", "tag", "user", "server", "list", "lists_off", "group",
           "users_off", "servers_off">>
Off == [s \in {"lists_off", "users_off", "servers_off"} |->
          IF s = "lists_off" THEN "list" ELSE IF s = "users_off" THEN "user" ELSE "server"]

Goto(r, step) == pc' = [pc EXCEPT ![r] = step]
Remember(r, memory) == run' = [run EXCEPT ![r] = memory]
At(r, step) == pc[r] = step /\ client[r] # "gone"
StepOf(r) == Steps[run[r].step]
AtStep(r, steps) == At(r, "apply") /\ StepOf(r) \in steps

NoMemory == [step |-> 1, todo |-> {}, known |-> [i \in Item |-> "missing"], backed |-> {},
             sent |-> [s \in Server |-> None], done |-> {}, failed |-> FALSE, made |-> FALSE,
             errors |-> FALSE, warm |-> FALSE, posted |-> FALSE]

-----------------------------------------------------------------------------
(* What a step has to do, from what the run knows *)

Named(r, kind) == {i \in file[r].items : Kind[i] = kind}

(* The enabled items that the file does not name, but not the provider's users. *)
Unnamed(r, kind, m) ==
  {i \in Item : /\ Kind[i] = kind /\ i \notin file[r].items /\ i \notin m.backed
                /\ m.known[i] \in {"on", "differs"}}

(* A kind whose step failed has nothing disabled; lists only when the file  *)
(* has their key, and users never with LdapAuth on.                         *)
Disables(r, s, m) == Off[s] \in file[r].disables /\ Off[s] \in m.done

Todo(r, m) ==
  LET s == Steps[m.step] IN
  IF s \in DOMAIN Off THEN IF Disables(r, s, m) THEN Unnamed(r, Off[s], m) ELSE {}
  ELSE IF s = "list" /\ "list" \notin file[r].disables THEN {} ELSE Named(r, s)

(* Mutant of KeyChanged: a server's key goes with every edit. *)
KeyAlways(r, i) == i \in Server

(* A server's key goes with an edit when its digest is not the one stored. *)
KeyChanged(r, i) == i \in Server /\ run[r].sent[i] # file[r].key

SendsKey(r, i) == i \in Server /\ (run[r].known[i] = "missing" \/ KeyChanged(r, i))

-----------------------------------------------------------------------------
(* A fresh MISP with a user, lists and servers of its own, or one that a    *)
(* run has brought to what a file says.                                     *)
FreshMISP ==
  [misp |-> [i \in Item |-> IF Kind[i] = "list" THEN "off"
                            ELSE IF Needs[i] = {} /\ Kind[i] = "user" THEN "on" ELSE "missing"],
   key |-> None, of |-> None]

MISPOf(f) ==
  [misp |-> [i \in Item |-> IF i \in f.items THEN "on"
                            ELSE IF Kind[i] \in Disabling THEN "off" ELSE "missing"],
   key |-> f.key, of |-> f]

MISPs ==
  {FreshMISP} \union
  {MISPOf(f) : f \in {f \in Files : f.items # {} /\ \A i \in f.items : Needs[i] \subseteq f.items}}

Init ==
  /\ Lock!LockInit
  /\ pc = [r \in Run |-> "start"]
  /\ file \in [Run -> Files]
  /\ \E m \in MISPs :
       misp = m.misp /\ key = [s \in Server |-> m.key] /\ settled = m.of
  /\ sent = key
  /\ backed = {}
  /\ run = [r \in Run |-> NoMemory]
  /\ faults = 0 /\ touches = 0 /\ touched = {} /\ late = {} /\ doubt = {}

-----------------------------------------------------------------------------
(* sync.main up to the lock *)

(* The waits, the file, the login page; then the lock connection. *)
Start(r) ==
  /\ At(r, "start") /\ file[r].items # {}
  /\ Lock!Connect(r)
  /\ Goto(r, "lock")
  /\ UNCHANGED <<file, mispVars, sent, run, history>>

(* Without ADMIN_KEY, or with a file that is empty: exit 0, and no record.  *)
NothingToApply(r) ==
  /\ At(r, "start")
  /\ Goto(r, "done")
  /\ UNCHANGED <<lockVars, file, mispVars, sent, run, history>>

(* A wait that gives up, or a file that cannot be loaded. *)
Refuse(r) ==
  /\ At(r, "start")
  /\ Goto(r, "failed")
  /\ UNCHANGED <<lockVars, file, mispVars, sent, run, history>>

TakeLock(r) ==
  /\ At(r, "lock")
  /\ Lock!TryLock(r)
  /\ Goto(r, "fetch")
  /\ UNCHANGED <<file, mispVars, sent, run, history>>

GiveUpLock(r) ==
  /\ At(r, "lock")
  /\ Lock!TimeOut(r) \/ Lock!PollFails(r)
  /\ Goto(r, "failed")
  /\ UNCHANGED <<file, mispVars, sent, run, history>>

(* MISPState: the snapshot of everything. *)
Fetch(r) ==
  /\ At(r, "fetch")
  /\ LET m == [NoMemory EXCEPT !.known = misp, !.backed = backed,
                               !.warm = (settled = file[r])] IN
     Remember(r, [m EXCEPT !.todo = Todo(r, m)])
  /\ Goto(r, "apply")
  /\ touched' = {} /\ late' = {}
  /\ settled' = None
  /\ UNCHANGED <<lockVars, file, mispVars, sent, faults, touches, doubt>>

-----------------------------------------------------------------------------
(* One item of a step *)

Ticked(r, i) == [run[r] EXCEPT !.todo = @ \ {i}]
Fault == faults < MaxFaults /\ faults' = faults + 1

(* _in_org, the role, the push tags and the members: what the item names is *)
(* in MISP, as far as the run knows.                                        *)
Known(r, i) == \A n \in Needs[i] : run[r].known[n] # "missing"

(* The item is as the file says: no request. *)
Skip(r, i) ==
  /\ At(r, "apply") /\ StepOf(r) \notin DOMAIN Off /\ i \in run[r].todo
  /\ Known(r, i) /\ run[r].known[i] = "on" /\ ~KeyChanged(r, i)
  /\ Remember(r, Ticked(r, i))
  /\ UNCHANGED <<lockVars, pc, file, mispVars, sent, history>>

Fails(r, i, posts) == Remember(r, [Ticked(r, i) EXCEPT !.failed = TRUE, !.posted = @ \/ posts])

(* The item names what is not known, and fails: before a request, or a      *)
(* sharing group after its own create or edit, which comes before its       *)
(* organisations are looked for; that create may fail itself.               *)
Unresolved(r, i) ==
  /\ At(r, "apply") /\ StepOf(r) \notin DOMAIN Off /\ i \in run[r].todo
  /\ ~Known(r, i)
  /\ Fails(r, i, Kind[i] = "group" /\ run[r].known[i] # "on")
  /\ LET creates == Kind[i] = "group" /\ run[r].known[i] = "missing" IN
     \/ /\ misp' = IF creates /\ misp[i] = "missing" THEN [misp EXCEPT ![i] = "differs"] ELSE misp
        /\ UNCHANGED faults
     \/ creates /\ Fault /\ UNCHANGED misp
  /\ UNCHANGED <<lockVars, pc, file, backed, key, sent, byOthers, doubt, settled>>

Makes(r, i) ==
  /\ At(r, "apply") /\ StepOf(r) \notin DOMAIN Off /\ i \in run[r].todo
  /\ Known(r, i) /\ (run[r].known[i] # "on" \/ KeyChanged(r, i))

(* MISP refuses a create of what is there, an edit of what is not, and a    *)
(* reference to what is gone.                                               *)
Accepts(r, i) ==
  /\ (run[r].known[i] = "missing") = (misp[i] = "missing")
  /\ \A n \in Needs[i] : misp[n] # "missing"

(* MISP takes the create or the edit; with it goes the key of a server that *)
(* is new or whose key changed.                                             *)
Take(r, i, level) ==
  /\ Accepts(r, i)
  /\ misp' = [misp EXCEPT ![i] = level]
  /\ key' = IF SendsKey(r, i) THEN [key EXCEPT ![i] = file[r].key] ELSE key
  /\ UNCHANGED backed

(* The item is created or edited, with every request that takes.  What      *)
(* others changed since the snapshot is not in the edit, and may stay.      *)
Make(r, i) ==
  /\ Makes(r, i)
  /\ Take(r, i, "on") \/ (i \in touched /\ Take(r, i, "differs"))
  /\ Remember(r, [Ticked(r, i) EXCEPT !.made = @ \/ run[r].known[i] = "missing",
                                      !.posted = TRUE,
                                      !.sent = IF i \in Server THEN [@ EXCEPT ![i] = file[r].key] ELSE @])
  /\ doubt' = IF SendsKey(r, i) THEN doubt \ {i} ELSE doubt
  /\ UNCHANGED <<lockVars, pc, file, sent, faults, byOthers, settled>>

(* A request that MISP refuses, or whose answer is lost after it was taken; *)
(* a user, list or group may stay half made: without its authkey (a DELETE  *)
(* and an INSERT after the create), not enabled, or without a member.       *)
MakeFails(r, i) ==
  /\ Makes(r, i)
  /\ \/ Accepts(r, i) /\ Fault /\ UNCHANGED <<mispVars, doubt>>
     \/ ~Accepts(r, i) /\ UNCHANGED <<mispVars, faults, doubt>>
     \/ /\ Fault
        /\ \/ Take(r, i, "on")
           \/ Kind[i] \in {"user", "list", "group"} /\ Take(r, i, "differs")
        /\ doubt' = IF SendsKey(r, i) THEN doubt \union {i} ELSE doubt
  /\ Fails(r, i, TRUE)
  /\ UNCHANGED <<lockVars, pc, file, sent, byOthers, settled>>

(* disable: an edit of what the snapshot had. *)
Disable(r, i) ==
  /\ At(r, "apply") /\ StepOf(r) \in DOMAIN Off /\ i \in run[r].todo
  /\ \/ /\ misp[i] # "missing"
        /\ misp' = [misp EXCEPT ![i] = "off"]
        /\ Remember(r, [Ticked(r, i) EXCEPT !.posted = TRUE])
        /\ UNCHANGED faults
     \/ /\ \/ misp[i] = "missing" /\ UNCHANGED <<misp, faults>>
           \/ misp[i] # "missing" /\ Fault /\ misp' \in {misp, [misp EXCEPT ![i] = "off"]}
        /\ Remember(r, [Ticked(r, i) EXCEPT !.posted = TRUE, !.failed = TRUE])
  /\ UNCHANGED <<lockVars, pc, file, backed, key, sent, byOthers, doubt, settled>>

-----------------------------------------------------------------------------
(* The end of a step *)

Ready(r, steps) == AtStep(r, steps) /\ run[r].todo = {}

(* Mutant of Advance: a failed step is only logged. *)
AdvanceLogs(r, m) ==
  LET kind == IF StepOf(r) \in DOMAIN Off THEN Off[StepOf(r)] ELSE StepOf(r)
      next == [m EXCEPT !.step = @ + 1, !.failed = FALSE, !.made = FALSE,
                        !.done = IF m.failed THEN @ ELSE @ \union {kind}]
  IN Remember(r, [next EXCEPT !.todo = Todo(r, next)]) /\ UNCHANGED pc

(* The next step, with the error of this one kept for the exit code. *)
Advance(r, m) ==
  LET kind == IF StepOf(r) \in DOMAIN Off THEN Off[StepOf(r)] ELSE StepOf(r)
      next == [m EXCEPT !.step = @ + 1, !.failed = FALSE, !.made = FALSE,
                        !.done = IF m.failed THEN @ ELSE @ \union {kind},
                        !.errors = @ \/ m.failed]
  IN Remember(r, [next EXCEPT !.todo = Todo(r, next)]) /\ UNCHANGED pc

Quit(r) == Goto(r, "failing") /\ UNCHANGED run

Refreshed(r, kind) ==
  [run[r] EXCEPT !.known = [i \in Item |-> IF Kind[i] = kind THEN misp[i] ELSE @[i]]]

(* Roles and orgs: fetched again when one was made; the fetch fails with    *)
(* the step.  Without its orgs the run ends.                                *)
EndRefs(r) ==
  /\ Ready(r, {"role", "org"})
  /\ LET End(m) == IF StepOf(r) = "org" /\ m.failed THEN Quit(r) ELSE Advance(r, m) IN
     \/ /\ End(IF run[r].made THEN Refreshed(r, StepOf(r)) ELSE run[r])
        /\ UNCHANGED faults
     \/ run[r].made /\ Fault /\ End([run[r] EXCEPT !.failed = TRUE])
  /\ UNCHANGED <<lockVars, file, mispVars, sent, byOthers, doubt, settled>>

(* Mutant of EndTagsUsers: the users are not fetched again. *)
EndTagsUsersOnce(r) ==
  /\ Ready(r, {"tag", "user"})
  /\ Advance(r, IF StepOf(r) = "user" THEN [run[r] EXCEPT !.sent = sent] ELSE Refreshed(r, "tag"))
  /\ late' = IF StepOf(r) = "user" THEN {} ELSE late
  /\ UNCHANGED <<lockVars, file, mispVars, sent, faults, touches, touched, doubt, settled>>

(* Tags and users: fetched again whatever happened, outside any try. *)
EndTagsUsers(r) ==
  /\ Ready(r, {"tag", "user"})
  /\ \/ /\ Advance(r, [Refreshed(r, StepOf(r)) EXCEPT
             !.backed = IF StepOf(r) = "user" THEN backed ELSE @,
             !.sent = IF StepOf(r) = "user" THEN sent ELSE @])
        /\ UNCHANGED faults
        /\ late' = IF StepOf(r) = "user" THEN {} ELSE late
     \/ Fault /\ Quit(r) /\ UNCHANGED late
  /\ UNCHANGED <<lockVars, file, mispVars, sent, touches, touched, doubt, settled>>

(* The row of the digests cannot be read: the step fails before its items. *)
ServersUnread(r) ==
  /\ AtStep(r, {"server"})
  /\ run[r].todo = Named(r, "server") /\ ~run[r].failed
  /\ Fault
  /\ Remember(r, [run[r] EXCEPT !.todo = {}, !.failed = TRUE])
  /\ UNCHANGED <<lockVars, pc, file, mispVars, sent, byOthers, doubt, settled>>

(* Servers: the digests of the keys that went out, stored also when a       *)
(* server failed; a write that fails fails the step.                        *)
EndServers(r) ==
  /\ Ready(r, {"server"})
  /\ \/ /\ sent' = run[r].sent
        /\ Advance(r, run[r])
        /\ UNCHANGED <<faults, doubt>>
     \/ /\ run[r].sent # sent
        /\ Fault
        /\ doubt' = doubt \union {s \in Server : run[r].sent[s] # sent[s]}
        /\ Advance(r, [run[r] EXCEPT !.failed = TRUE])
        /\ UNCHANGED sent
  /\ UNCHANGED <<lockVars, file, mispVars, byOthers, settled>>

(* The other steps have nothing to do at their end. *)
EndStep(r) ==
  /\ Ready(r, {"list", "lists_off", "group", "users_off"})
  /\ Advance(r, run[r])
  /\ UNCHANGED <<lockVars, file, mispVars, sent, history>>

(* The last one, and the exit code: 0 without an error in the summary. *)
EndApply(r) ==
  /\ Ready(r, {"servers_off"})
  /\ Goto(r, IF run[r].errors \/ run[r].failed THEN "failing" ELSE "release")
  /\ UNCHANGED <<lockVars, file, mispVars, sent, run, history>>

(* A fetch at the start of apply raises. *)
FetchFails(r) ==
  /\ At(r, "fetch")
  /\ Fault
  /\ Quit(r)
  /\ UNCHANGED <<lockVars, file, mispVars, sent, byOthers, doubt, settled>>

(* finally: release_config_lock; then record_run (see RunRecord) and exit. *)
ReleaseLock(r) ==
  /\ \/ At(r, "release") /\ Goto(r, "done") /\ settled' = IF touched = {} THEN file[r] ELSE None
     \/ At(r, "failing") /\ Goto(r, "failed") /\ UNCHANGED settled
  /\ Lock!Release(r)
  /\ run' = [run EXCEPT ![r] = NoMemory]
  /\ UNCHANGED <<file, mispVars, sent, faults, byOthers, doubt>>

(* The Job's pod dies, and with it the digests it has not stored. *)
Die(r) ==
  /\ pc[r] \notin {"start", "done", "failed"}
  /\ Fault
  /\ Lock!Die(r)
  /\ doubt' = IF AtStep(r, {"server"})
              THEN doubt \union {s \in Server : run[r].sent[s] # sent[s]} ELSE doubt
  /\ run' = [run EXCEPT ![r] = NoMemory]
  /\ UNCHANGED <<pc, file, mispVars, sent, byOthers, settled>>

SessionEnds(r) ==
  /\ client[r] = "held" => Cardinality(lost) < MaxLost
  /\ Lock!SessionEnds(r)
  /\ UNCHANGED <<pc, file, mispVars, sent, run, history>>

-----------------------------------------------------------------------------
(* Others *)

(* An admin creates, changes, disables or deletes an item, or gives a       *)
(* server another key.                                                      *)
Touch(i) ==
  /\ touches < MaxTouched
  /\ touches' = touches + 1
  /\ \E level \in Level, k \in Keys \ {None} :
       /\ level = "off" => Kind[i] \in Disabling
       /\ misp' = [misp EXCEPT ![i] = level]
       /\ key' = IF i \in Server /\ level # "missing" THEN [key EXCEPT ![i] = k] ELSE key
       /\ <<misp', key'>> # <<misp, key>>
  /\ touched' = touched \union {i}
  /\ doubt' = IF key' # key THEN doubt \union {i} ELSE doubt
  /\ settled' = None
  /\ UNCHANGED <<lockVars, pc, file, backed, sent, run, faults, late>>

(* A person logs in, and the identity provider's subject is stored. *)
Login(i) ==
  /\ touches < MaxTouched
  /\ Kind[i] = "user" /\ misp[i] # "missing" /\ i \notin backed
  /\ touches' = touches + 1
  /\ backed' = backed \union {i}
  /\ late' = late \union {i}
  /\ UNCHANGED <<lockVars, pc, file, misp, key, sent, run, faults, touched, doubt, settled>>

(* A migration, while no run has the lock: the database is another's, with  *)
(* the row of the digests that came with it.                                *)
Migration ==
  /\ touches < MaxTouched /\ holder = None
  /\ touches' = touches + 1
  /\ \E m \in MISPs :
       misp' = m.misp /\ key' = [s \in Server |-> m.key] /\ sent' = key'
  /\ backed' = {} /\ doubt' = {} /\ settled' = None
  /\ UNCHANGED <<lockVars, pc, file, run, faults, touched, late>>

Next ==
  \/ Migration
  \/ \E r \in Run :
       \/ Start(r) \/ NothingToApply(r) \/ Refuse(r) \/ TakeLock(r) \/ GiveUpLock(r) \/ Fetch(r) \/ FetchFails(r)
       \/ EndRefs(r) \/ EndTagsUsers(r) \/ ServersUnread(r) \/ EndServers(r) \/ EndStep(r) \/ EndApply(r)
       \/ ReleaseLock(r) \/ Die(r) \/ SessionEnds(r)
       \/ \E i \in Item : Skip(r, i) \/ Unresolved(r, i) \/ Make(r, i) \/ MakeFails(r, i)
                          \/ Disable(r, i)
  \/ \E i \in Item : Touch(i) \/ Login(i)

Spec == Init /\ [][Next]_vars

-----------------------------------------------------------------------------
(* Safety *)

PCs == {"start", "lock", "fetch", "apply", "release", "failing", "done", "failed"}
Memory ==
  [step : DOMAIN Steps, todo : SUBSET Item, known : [Item -> Level], backed : SUBSET Item,
   sent : [Server -> Keys],
   done : SUBSET {"role", "org", "tag", "user", "server", "list", "group"},
   failed : BOOLEAN, made : BOOLEAN, errors : BOOLEAN, warm : BOOLEAN, posted : BOOLEAN]

OrgSyncTypeOK ==
  /\ Lock!LockTypeOK
  /\ pc \in [Run -> PCs] /\ file \in [Run -> Files]
  /\ misp \in [Item -> Level] /\ backed \subseteq Item
  /\ key \in [Server -> Keys] /\ sent \in [Server -> Keys]
  /\ run \in [Run -> Memory]
  /\ touched \subseteq Item /\ late \subseteq Item
  /\ doubt \subseteq Server /\ settled \in Files \union {None}

(* A run holds the lock from its snapshot to its end, whichever way it ends. *)
LockKept ==
  /\ Lock!HolderSession
  /\ \A r \in Run : client[r] # "gone" =>
       (pc[r] \in {"fetch", "apply", "release", "failing"} <=> client[r] = "held")

(* What the file says of item i is so in MISP. *)
AsFile(f, i) ==
  IF i \in f.items
  THEN \/ misp[i] = "on" /\ (i \in Server => key[i] = f.key \/ i \in doubt)
       \/ Kind[i] = "list" /\ "list" \notin f.disables
  ELSE Kind[i] \in f.disables /\ i \notin backed => ~Enabled(i)

(* Exit 0 of a run that had something to apply tells the truth (apply's     *)
(* summary): all of the file is in MISP, and what it does not name is       *)
(* disabled, whatever the runs before failed at or died in; except for what *)
(* others changed meanwhile, a key that an earlier run sent without being   *)
(* able to store its digest, and a key that was changed in MISP, which      *)
(* "stays until the file's key changes" (docs/org-sync.md).                 *)
SuccessTells ==
  lost = {} => \A r \in Run : At(r, "release") =>
    \A i \in Item \ touched : AsFile(file[r], i)

(* "With nothing changed, it only reads" (sync.py): a run that comes right  *)
(* after one that succeeded with the same file sends MISP no change. Until  *)
(* a lock session is lost: what others change is counted from the last      *)
(* snapshot, and a run that overlaps has another one.                       *)
WarmRunReads ==
  lost = {} => \A r \in Run : run[r].warm /\ touched = {} => ~run[r].posted

(* The types, the lock from the snapshot to the end, and a warm run that    *)
(* only reads.                                                              *)
OrgSyncInv == OrgSyncTypeOK /\ LockKept /\ WarmRunReads

(* A run disables what the file does not name only after all of that kind   *)
(* that it names is in MISP.                                                *)
AllNamedFirst(i) ==
  \E r \in Run : /\ AtStep(r, DOMAIN Off) /\ file[r].items # {}
                 /\ \A n \in Named(r, Kind[i]) \ touched : AsFile(file[r], n)

(* "The failed step disables nothing of its kind" (docs/org-sync.md), and   *)
(* "It leaves every account that the identity provider backs": nothing is   *)
(* disabled by a run that could not name all of its kind or that names      *)
(* nothing, and no account that had logged in through the provider before   *)
(* the run read the users the second time, after it had made its own. Both  *)
(* until a lock session is lost, after which runs may overlap.              *)
DisabledWithCause ==
  [][lost = {} => \A i \in Item : Enabled(i) /\ misp'[i] = "off" /\ i \notin touched' /\ ~Migration
       => i \notin backed \ late /\ AllNamedFirst(i)]_vars
=============================================================================
