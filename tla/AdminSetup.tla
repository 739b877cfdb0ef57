----------------------------- MODULE AdminSetup -----------------------------
(***************************************************************************)
(* admin.setup_admin, the step of a configure run that brings user 1, its  *)
(* organisation, password and API key to what the run's environment says.  *)
(* Runs come one after the other, under the configure lock, each with an   *)
(* environment of its own, and may end after any statement.  MISP's        *)
(* console (cake.py) finds a user by email; only `user init` has to work,  *)
(* the other commands may fail and the run goes on.                        *)
(*                                                                         *)
(* A test and the statement that it guards are one action: the statement   *)
(* writes a value that does not depend on what was read.  No other user has *)
(* the email of an environment: the console would change that one.          *)
(***************************************************************************)
EXTENDS Naturals, Sequences

CONSTANTS
  Value,        \* emails, names, UUIDs, passwords and keys
  Env,          \* the environments: [email, org, uuid, password, key]
  Database,     \* the databases to begin with: [user, others, orgs]
  None,         \* a variable of the environment that is not set
  DefaultEmail, \* admin@admin.test
  DefaultOrg,   \* ORGNAME
  MaxRuns,      \* bound: runs
  MaxFaults,    \* bound: runs that end early, and console commands that fail
  MaxOrgs       \* bound: organisations

User == [email : Value, org : Nat, password : Value, forced : BOOLEAN]
Organisation == [name : Value, uuid : Value, generated : BOOLEAN]
NoUser == [email |-> None, org |-> 0, password |-> None, forced |-> FALSE]

(* A database has no user 1, or one with an organisation, and no UUID has   *)
(* two organisations to begin with.  ADMIN_EMAIL has a default.             *)
ASSUME AdminAssumption ==
  /\ {None, DefaultEmail, "other"} \subseteq Value
  /\ None \notin {DefaultEmail, "other"} /\ None \notin Env
  /\ Env \subseteq [email : Value \ {None}, org : Value, uuid : Value, password : Value, key : Value]
  /\ Database \subseteq [user : User, others : BOOLEAN, orgs : Seq(Organisation)]
  /\ \A d \in Database :
       /\ d.user = NoUser \/ (d.user.email # None /\ d.user.org \in DOMAIN d.orgs)
       /\ \A i, j \in DOMAIN d.orgs : d.orgs[i].uuid = d.orgs[j].uuid /\ d.orgs[i].uuid # None => i = j
  /\ MaxRuns \in Nat /\ MaxFaults \in Nat /\ MaxOrgs \in Nat

VARIABLES
  user,      \* user 1: its email, organisation, password and whether it must be changed
  others,    \* there are other users, as in a migrated database, which may have no user 1
  keys,      \* the live API keys of user 1
  orgs,      \* orgs[id]: name, UUID, and whether MISP generated it
  hostOrg,   \* MISP.host_org_id; 0 when it is not set
  pc,        \* the next step of the run, or "idle"
  env,       \* its environment
  orgId,     \* org_id in _configure_admin_org
  runs,      \* how many have begun
  faults,    \* how much of MaxFaults is used up
  touched,   \* history: someone changed user 1 in MISP; at most once
  doubt,     \* history: a console command of this run failed, or someone changed user 1
  unforced,  \* history: a run set the password and executed the statement after it
  wrote,     \* history: this run wrote something, the value that was there or another
  settled    \* history: the environment that the database is as, or None

database == <<user, others, keys, orgs, hostOrg>>
run == <<pc, env, orgId, runs>>
history == <<touched, doubt, unforced, wrote, settled>>
vars == <<database, run, faults, history>>

NoEnv == [email |-> None, org |-> None, uuid |-> None, password |-> None, key |-> None]

Init ==
  /\ \E db \in Database : user = db.user /\ others = db.others /\ orgs = db.orgs
  /\ keys = {} /\ hostOrg = 0
  /\ pc = "idle" /\ env = NoEnv /\ orgId = 0 /\ runs = 0 /\ faults = 0
  /\ touched = FALSE /\ doubt = FALSE /\ unforced = FALSE /\ wrote = FALSE /\ settled = None

Goto(step) == pc' = step /\ UNCHANGED <<env, runs>>
Fault == faults < MaxFaults /\ faults' = faults + 1

Start ==
  /\ pc = "idle" /\ runs < MaxRuns
  /\ runs' = runs + 1 /\ pc' = "init" /\ orgId' = 0
  /\ env' \in Env
  /\ doubt' = FALSE /\ wrote' = FALSE
  /\ settled' = IF settled = env' THEN settled ELSE None
  /\ UNCHANGED <<database, faults, touched, unforced>>

(* The run's pod dies, or a statement raises, also one that was executed    *)
(* and whose answer is lost: either way nothing after it is done.           *)
Fails ==
  /\ pc # "idle" /\ Fault
  /\ pc' = "idle" /\ orgId' = 0
  /\ UNCHANGED <<database, env, runs, history>>

(* The statement does, when the test before it says so.  An UPDATE of a     *)
(* user 1 that is not there finds no row and writes nothing.                *)
Writes(test, does) ==
  /\ IF test THEN does /\ wrote' = TRUE ELSE UNCHANGED <<user, orgs, wrote>>
  /\ UNCHANGED <<others, keys, hostOrg, faults, touched, doubt, unforced, settled>>

-----------------------------------------------------------------------------
(* The user and its organisation *)

(* cake user init, when there is no user: MISP generates an organisation,   *)
(* named after MISP.org, which ADMIN_ORG fills, and user 1.                 *)
UserInit ==
  /\ pc = "init"
  /\ Writes(user = NoUser /\ ~others,
       /\ orgs' = Append(orgs, [name |-> env.org, uuid |-> None, generated |-> TRUE])
       /\ user' = [email |-> DefaultEmail, org |-> Len(orgs) + 1, password |-> None, forced |-> TRUE])
  /\ Goto("email") /\ UNCHANGED orgId

Email ==
  /\ pc = "email"
  /\ Writes(user # NoUser /\ env.email \notin {DefaultEmail, user.email},
       user' = [user EXCEPT !.email = env.email] /\ UNCHANGED orgs)
  /\ Goto("org") /\ UNCHANGED orgId

(* The first row of a query, or 0. *)
One(found) == IF found = {} THEN 0 ELSE CHOOSE id \in found : \A other \in found : id <= other
ByUuid(uuid) == One({id \in DOMAIN orgs : orgs[id].uuid = uuid})
Generated(name) == One({id \in DOMAIN orgs : orgs[id].generated /\ orgs[id].name = name})

(* Mutant of FindOrg: the organisation is looked up after the INSERT only. *)
FindOrgNot ==
  /\ pc = "org"
  /\ orgId' = IF env.uuid = None THEN user.org ELSE 0
  /\ Goto(IF env.uuid = None THEN "rename" ELSE IF orgId' # 0 THEN "assign" ELSE "adopt")
  /\ UNCHANGED <<database, faults, history>>

FindOrg ==
  /\ pc = "org"
  /\ orgId' = IF env.uuid = None THEN user.org ELSE ByUuid(env.uuid)
  /\ Goto(IF env.uuid = None THEN "rename" ELSE IF orgId' # 0 THEN "assign" ELSE "adopt")
  /\ UNCHANGED <<database, faults, history>>

(* The organisation that MISP generated gets the UUID. *)
Adopt ==
  /\ pc = "adopt"
  /\ orgId' = Generated(env.org)
  /\ Writes(orgId' # 0, orgs' = [orgs EXCEPT ![orgId'].uuid = env.uuid] /\ UNCHANGED user)
  /\ Goto(IF orgId' # 0 THEN "assign" ELSE "insert")

Insert ==
  /\ pc = "insert" /\ Len(orgs) < MaxOrgs
  /\ Writes(TRUE,
       /\ orgs' = Append(orgs, [name |-> env.org, uuid |-> env.uuid, generated |-> FALSE])
       /\ UNCHANGED user)
  /\ Goto("inserted") /\ UNCHANGED orgId

Inserted ==
  /\ pc = "inserted"
  /\ orgId' = ByUuid(env.uuid)
  /\ Goto("assign")
  /\ UNCHANGED <<database, faults, history>>

Assign ==
  /\ pc = "assign"
  /\ Writes(user # NoUser /\ user.org # orgId,
       user' = [user EXCEPT !.org = orgId] /\ UNCHANGED orgs)
  /\ Goto("rename") /\ UNCHANGED orgId

(* Without an organisation _configure_admin_org returns here. *)
Rename ==
  /\ pc = "rename"
  /\ Writes(orgId # 0 /\ env.org \notin {DefaultOrg, IF orgId = 0 THEN None ELSE orgs[orgId].name},
       orgs' = [orgs EXCEPT ![orgId].name = env.org] /\ UNCHANGED user)
  /\ Goto(IF orgId = 0 THEN "password" ELSE "host") /\ UNCHANGED orgId

(* cake.set_setting, when it differs; that it fails is only logged. *)
Host ==
  /\ pc = "host"
  /\ \/ hostOrg = orgId /\ UNCHANGED <<hostOrg, wrote, faults, doubt>>
     \/ hostOrg # orgId /\ hostOrg' = orgId /\ wrote' = TRUE /\ UNCHANGED <<faults, doubt>>
     \/ hostOrg # orgId /\ Fault /\ doubt' = TRUE /\ UNCHANGED <<hostOrg, wrote>>
  /\ Goto("password")
  /\ UNCHANGED <<user, others, keys, orgs, orgId, touched, unforced, settled>>

-----------------------------------------------------------------------------
(* The password and the key *)

(* not password or has_password(1, password) *)
HasPassword == env.password \in {None, user.password}

(* A console command on the user with the email of the environment: it does *)
(* its work, or fails, for want of that user or otherwise, with its work    *)
(* done or not.                                                            *)
Console(does, ok) ==
  /\ wrote' = TRUE
  /\ \/ user.email = env.email /\ does
     \/ ~ok /\ UNCHANGED <<user, keys, unforced>>
  /\ doubt' = (doubt \/ ~ok)
  /\ IF ok \/ user.email # env.email THEN UNCHANGED faults ELSE Fault

(* cake user change_pw; whether that clears a demand to change the password *)
(* is MISP's.                                                              *)
ChangesPassword ==
  /\ \E forced \in {FALSE, user.forced} :
       user' = [user EXCEPT !.password = env.password, !.forced = forced]
  /\ unforced' = FALSE
  /\ UNCHANGED keys

Password ==
  /\ pc = "password"
  /\ IF HasPassword
     THEN Goto("key") /\ UNCHANGED <<user, keys, unforced, wrote, faults, doubt>>
     ELSE \E ok \in BOOLEAN : Console(ChangesPassword, ok) /\ Goto(IF ok THEN "unforce" ELSE "key")
  /\ UNCHANGED <<others, orgs, hostOrg, orgId, touched, settled>>

(* Mutant of Unforce: the statement does not touch change_pw. *)
UnforceNot ==
  /\ pc = "unforce"
  /\ unforced' = TRUE
  /\ Goto("key")
  /\ UNCHANGED <<database, orgId, faults, touched, doubt, wrote, settled>>

Unforce ==
  /\ pc = "unforce"
  /\ user' = [user EXCEPT !.forced = FALSE]
  /\ unforced' = TRUE
  /\ Goto("key")
  /\ UNCHANGED <<others, keys, orgs, hostOrg, orgId, faults, touched, doubt, wrote, settled>>

(* cake user change_authkey; what becomes of the keys before is MISP's. *)
ChangesKey ==
  /\ \E old \in {{}, keys} : keys' = old \union {env.key}
  /\ UNCHANGED <<user, unforced>>

(* has_authkey: a live key of user 1 is this one. *)
HasKey == env.key \in keys

(* Unless the key is there; nobody looks at the exit code. *)
Key ==
  /\ pc = "key"
  /\ IF env.key = None \/ HasKey
     THEN UNCHANGED <<user, keys, unforced, wrote, faults, doubt>>
     ELSE \E ok \in BOOLEAN : Console(ChangesKey, ok)
  /\ Goto("done")
  /\ UNCHANGED <<others, orgs, hostOrg, orgId, touched, settled>>

End ==
  /\ pc = "done"
  /\ pc' = "idle" /\ orgId' = 0
  /\ settled' = IF doubt THEN None ELSE env
  /\ UNCHANGED <<database, env, runs, faults, touched, doubt, unforced, wrote>>

(* Someone changes user 1 in MISP, or its keys expire. *)
Touch ==
  /\ user # NoUser /\ ~touched
  /\ \/ user' = [user EXCEPT !.password = "other"] /\ unforced' = FALSE /\ UNCHANGED keys
     \/ user' = [user EXCEPT !.email = "other"] /\ UNCHANGED <<keys, unforced>>
     \/ keys' = {} /\ UNCHANGED <<user, unforced>>
  /\ touched' = TRUE /\ doubt' = TRUE /\ settled' = None
  /\ UNCHANGED <<others, orgs, hostOrg, run, faults, wrote>>

Next ==
  \/ Start \/ Fails \/ UserInit \/ Email \/ FindOrg \/ Adopt \/ Insert \/ Inserted \/ Assign
  \/ Rename \/ Host \/ Password \/ Unforce \/ Key \/ End \/ Touch

Spec == Init /\ [][Next]_vars

-----------------------------------------------------------------------------
(* Properties *)

TypeOK ==
  /\ user \in User /\ others \in BOOLEAN /\ keys \subseteq Value /\ orgs \in Seq(Organisation)
  /\ user.org \in 0 .. Len(orgs)
  /\ hostOrg \in 0 .. Len(orgs) /\ orgId \in 0 .. Len(orgs)
  /\ env \in Env \union {NoEnv} /\ settled \in Env \union {None}
  /\ pc \in {"idle", "init", "email", "org", "adopt", "insert", "inserted", "assign", "rename",
             "host", "password", "unforce", "key", "done"}
  /\ runs \in 0 .. MaxRuns /\ faults \in 0 .. MaxFaults
  /\ \A flag \in {touched, doubt, unforced, wrote} : flag \in BOOLEAN

(* The environment's organisation is user 1's and MISP's host. *)
OrgAsEnv ==
  /\ user.org # 0 /\ hostOrg = user.org
  /\ env.uuid # None => orgs[user.org].uuid = env.uuid
  /\ env.org # DefaultOrg => orgs[user.org].name = env.org

CredentialsAsEnv ==
  /\ env.password # None => user.password = env.password
  /\ env.key # None => env.key \in keys

(* A run that ends without a failed console command, whatever the runs      *)
(* before it left half done, leaves user 1, its organisation, password and  *)
(* key as its environment says.  No new password is asked for, once the     *)
(* statement after a change of the password was executed: a run that ended  *)
(* between the two leaves a right password, at which no later run looks     *)
(* again (setup_admin).                                                     *)
SetupTells ==
  pc = "done" /\ ~doubt /\ user # NoUser =>
    /\ env.email # DefaultEmail => user.email = env.email
    /\ OrgAsEnv /\ CredentialsAsEnv
    /\ unforced => ~user.forced

(* A run over a database that is as its environment says, with nothing      *)
(* changed since, writes nothing: no audit row, no workflow, no change of   *)
(* password that would end sessions (setup_admin's tests).                  *)
WarmSetup == pc # "idle" /\ settled = env => ~wrote

(* The types; no UUID has two organisations, wherever runs ended            *)
(* (_configure_admin_org looks before it inserts); and a warm run writes    *)
(* nothing.                                                                 *)
AdminInv ==
  /\ TypeOK
  /\ WarmSetup
  /\ \A i, j \in DOMAIN orgs : orgs[i].uuid = orgs[j].uuid /\ orgs[i].uuid # None => i = j

(* "Change the value in misp-admin and upgrade: the configure Job sets both *)
(* on user 1" (docs/operations.md, of ADMIN_PASSWORD and ADMIN_KEY).        *)
CredentialsSet == pc = "done" /\ ~touched /\ user # NoUser => CredentialsAsEnv
=============================================================================
