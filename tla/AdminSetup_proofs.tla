-------------------------- MODULE AdminSetup_proofs --------------------------
(***************************************************************************)
(* The step of the admin user, for any environments, databases and numbers *)
(* of runs: what is done at each step of a run, whatever the runs before   *)
(* it left half done, and what a whole run leaves for the next             *)
(* (SetupOrderly) is inductive.  From it follow that a run that ends well  *)
(* leaves user 1 as its environment says, that a run after it writes       *)
(* nothing, and that no UUID has two organisations.                        *)
(***************************************************************************)
EXTENDS AdminSetup, SequenceTheorems, WellFoundedInduction, TLAPS

(* User 1 is there with an email and an organisation or is not there, and   *)
(* no demand for a new password survives the statement that ends it.        *)
UserInOrder ==
  /\ user = NoUser \/ (user.email # None /\ user.org # 0)
  /\ unforced => user # NoUser /\ ~user.forced

(* An organisation with this UUID is there. *)
HasUuid(uuid) == \E id \in DOMAIN orgs : orgs[id].uuid = uuid

(* The organisation id is the one that environment e means, and user 1's;  *)
(* it has its name; it is the host.                                        *)
IsOrg(e, id) ==
  /\ IF e.uuid = None THEN id = user.org ELSE id # 0 /\ orgs[id].uuid = e.uuid
  /\ user # NoUser => user.org = id
IsNamed(e, id) == id = 0 \/ e.org = DefaultOrg \/ orgs[id].name = e.org
IsHost(id) == id = 0 \/ hostOrg = id

IsEmail(e) == user # NoUser => e.email \in {DefaultEmail, user.email}
IsPassword(e) == e.password \in {None, user.password}
IsKey(e) == e.key = None \/ e.key \in keys

(* The steps after the one at hand have what those before it did. *)
LookedUp == {"rename", "host", "password", "unforce", "key", "done"}
RunInOrder ==
  /\ pc # "idle" => env \in Env /\ settled \in {None, env}
  /\ pc \notin {"idle", "init"} => user # NoUser \/ others
  /\ pc \notin {"idle", "init", "email"} /\ ~doubt => IsEmail(env)
  /\ pc \in {"adopt", "insert"} => env.uuid # None /\ ~HasUuid(env.uuid)
  /\ pc = "inserted" => env.uuid # None /\ HasUuid(env.uuid) /\ wrote
  /\ pc = "assign" => env.uuid # None /\ orgId # 0 /\ orgs[orgId].uuid = env.uuid
  /\ pc \in LookedUp => IsOrg(env, orgId)
  /\ pc = "host" => orgId # 0
  /\ pc \in LookedUp \ {"rename"} => IsNamed(env, orgId)
  /\ pc \in LookedUp \ {"rename", "host"} /\ ~doubt => IsHost(orgId)
  /\ pc = "unforce" => user # NoUser /\ wrote
  /\ pc \in {"unforce", "key", "done"} /\ ~doubt => IsPassword(env)
  /\ pc = "done" /\ ~doubt => IsKey(env)

(* The database is as the environment e says: nothing is left to write. *)
IsAs(e) ==
  /\ user # NoUser \/ others
  /\ IsEmail(e)
  /\ \E id \in 0 .. Len(orgs) : IsOrg(e, id) /\ IsNamed(e, id) /\ IsHost(id)
  /\ IsPassword(e) /\ IsKey(e)
SettledInOrder == settled # None => IsAs(settled)

(* The inductive invariant. *)
SetupOrderly == AdminInv /\ UserInOrder /\ RunInOrder /\ SettledInOrder

UniqueUuids ==
  \A i, j \in DOMAIN orgs : orgs[i].uuid = orgs[j].uuid /\ orgs[i].uuid # None => i = j

-----------------------------------------------------------------------------
(* Organisations *)

(* The first of some positive numbers, or 0 for none. *)
LEMMA OneFound ==
  ASSUME NEW T, T \subseteq Nat \ {0}
  PROVE  One(T) \in T \/ (T = {} /\ One(T) = 0)
<1> SUFFICES ASSUME T # {}
             PROVE  One(T) \in T
  BY DEF One
<1> DEFINE R == OpToRel(<, Nat)
<1>1. IsWellFoundedOn(R, Nat)
  BY NatLessThanWellFounded
<1>2. \A i, k \in Nat : <<i, k>> \in R <=> i < k
  BY DEF OpToRel
<1> HIDE DEF R
<1>3. T \subseteq Nat
  OBVIOUS
<1>4. PICK k \in T : \A i \in T : ~ (<<i, k>> \in R)
  BY <1>1, <1>3, WFMin
<1>5. \A i \in T : k <= i
  <2> TAKE i \in T
  <2>1. ~ (i < k) /\ i \in Nat /\ k \in Nat
    BY <1>2, <1>3, <1>4
  <2>2. QED
    BY <2>1
<1>6. QED
  BY <1>5 DEF One

(* The organisation of a UUID, and the one that MISP generated. *)
LEMMA LookedUpOrg ==
  ASSUME NEW uuid, orgs \in Seq(Organisation)
  PROVE  /\ ByUuid(uuid) \in 0 .. Len(orgs)
         /\ ByUuid(uuid) = 0 <=> ~HasUuid(uuid)
         /\ ByUuid(uuid) # 0 => ByUuid(uuid) \in DOMAIN orgs /\ orgs[ByUuid(uuid)].uuid = uuid
<1> DEFINE T == {id \in DOMAIN orgs : orgs[id].uuid = uuid}
<1>1. Len(orgs) \in Nat /\ DOMAIN orgs = 1 .. Len(orgs)
  OBVIOUS
<1>2. T \subseteq Nat \ {0} /\ T \subseteq 0 .. Len(orgs) /\ 0 \notin T /\ 0 \in 0 .. Len(orgs)
  BY <1>1
<1>3. One(T) \in T \/ (T = {} /\ One(T) = 0)
  BY <1>2, OneFound
<1>4. ByUuid(uuid) = One(T) /\ (HasUuid(uuid) <=> T # {})
  BY DEF ByUuid, HasUuid
<1> HIDE DEF T
<1>5. ASSUME One(T) \in T
      PROVE  One(T) \in DOMAIN orgs /\ orgs[One(T)].uuid = uuid
  BY <1>5 DEF T
<1>6. QED
  BY <1>2, <1>3, <1>4, <1>5

LEMMA GeneratedOrg ==
  ASSUME NEW name, orgs \in Seq(Organisation)
  PROVE  /\ Generated(name) \in 0 .. Len(orgs)
         /\ Generated(name) # 0 => Generated(name) \in DOMAIN orgs
<1> DEFINE T == {id \in DOMAIN orgs : orgs[id].generated /\ orgs[id].name = name}
<1>1. Len(orgs) \in Nat /\ DOMAIN orgs = 1 .. Len(orgs)
  OBVIOUS
<1>2. T \subseteq Nat \ {0} /\ T \subseteq 0 .. Len(orgs) /\ 0 \in 0 .. Len(orgs) /\ T \subseteq DOMAIN orgs
  BY <1>1
<1>3. One(T) \in T \/ (T = {} /\ One(T) = 0)
  BY <1>2, OneFound
<1>4. Generated(name) = One(T)
  BY DEF Generated
<1> HIDE DEF T
<1>5. QED
  BY <1>2, <1>3, <1>4

(* A new organisation comes after those that are there. *)
LEMMA OrgAdded ==
  ASSUME orgs \in Seq(Organisation), NEW o \in Organisation, orgs' = Append(orgs, o)
  PROVE  /\ orgs' \in Seq(Organisation) /\ Len(orgs') = Len(orgs) + 1
         /\ 0 .. Len(orgs) \subseteq 0 .. Len(orgs') /\ Len(orgs) + 1 \in DOMAIN orgs' /\ Len(orgs) + 1 # 0
         /\ DOMAIN orgs' = DOMAIN orgs \union {Len(orgs) + 1}
         /\ \A id \in DOMAIN orgs : orgs'[id] = orgs[id]
         /\ orgs'[Len(orgs) + 1] = o
<1>1. Len(orgs) \in Nat /\ DOMAIN orgs = 1 .. Len(orgs)
  OBVIOUS
<1>2. /\ orgs' \in Seq(Organisation) /\ Len(orgs') = Len(orgs) + 1
      /\ \A id \in 1 .. Len(orgs) : orgs'[id] = orgs[id]
      /\ orgs'[Len(orgs) + 1] = o
  BY AppendProperties
<1>3. DOMAIN orgs' = 1 .. Len(orgs) + 1
  BY <1>2
<1>4. 1 .. Len(orgs) + 1 = (1 .. Len(orgs)) \union {Len(orgs) + 1} /\ Len(orgs) + 1 # 0
  BY <1>1
<1>5. 0 .. Len(orgs) \subseteq 0 .. Len(orgs) + 1
  BY <1>1
<1>6. QED
  BY <1>1, <1>2, <1>3, <1>4, <1>5

(* An organisation that gets another UUID or name is the same for the rest. *)
LEMMA OrgChanged ==
  ASSUME orgs \in Seq(Organisation), NEW id \in DOMAIN orgs, NEW v \in Value
  PROVE  /\ orgs' = [orgs EXCEPT ![id].uuid = v] =>
              /\ orgs' \in Seq(Organisation) /\ Len(orgs') = Len(orgs) /\ DOMAIN orgs' = DOMAIN orgs
              /\ orgs'[id].uuid = v
              /\ \A i \in DOMAIN orgs : i # id => orgs'[i] = orgs[i]
         /\ orgs' = [orgs EXCEPT ![id].name = v] =>
              /\ orgs' \in Seq(Organisation) /\ Len(orgs') = Len(orgs) /\ DOMAIN orgs' = DOMAIN orgs
              /\ orgs'[id].name = v
              /\ \A i \in DOMAIN orgs : orgs'[i].uuid = orgs[i].uuid
<1>1. Len(orgs) \in Nat /\ DOMAIN orgs = 1 .. Len(orgs) /\ orgs[id] \in Organisation
  OBVIOUS
<1>2. ASSUME NEW o \in Organisation, orgs' = [orgs EXCEPT ![id] = o]
      PROVE  /\ orgs' \in Seq(Organisation) /\ Len(orgs') = Len(orgs) /\ DOMAIN orgs' = DOMAIN orgs
             /\ \A i \in DOMAIN orgs : orgs'[i] = IF i = id THEN o ELSE orgs[i]
  BY <1>1, <1>2, ExceptSeq
<1>3. ASSUME orgs' = [orgs EXCEPT ![id].uuid = v]
      PROVE  /\ orgs' \in Seq(Organisation) /\ Len(orgs') = Len(orgs) /\ DOMAIN orgs' = DOMAIN orgs
             /\ orgs'[id].uuid = v
             /\ \A i \in DOMAIN orgs : i # id => orgs'[i] = orgs[i]
  <2> DEFINE o == [orgs[id] EXCEPT !.uuid = v]
  <2>1. o \in Organisation /\ o.uuid = v
    BY <1>1 DEF Organisation
  <2>2. orgs' = [orgs EXCEPT ![id] = o]
    BY <1>3
  <2> HIDE DEF o
  <2>3. QED
    BY <1>2, <2>1, <2>2
<1>4. ASSUME orgs' = [orgs EXCEPT ![id].name = v]
      PROVE  /\ orgs' \in Seq(Organisation) /\ Len(orgs') = Len(orgs) /\ DOMAIN orgs' = DOMAIN orgs
             /\ orgs'[id].name = v
             /\ \A i \in DOMAIN orgs : orgs'[i].uuid = orgs[i].uuid
  <2> DEFINE o == [orgs[id] EXCEPT !.name = v]
  <2>1. o \in Organisation /\ o.name = v /\ o.uuid = orgs[id].uuid
    BY <1>1 DEF Organisation
  <2>2. orgs' = [orgs EXCEPT ![id] = o]
    BY <1>4
  <2> HIDE DEF o
  <2>3. QED
    BY <1>2, <2>1, <2>2
<1>5. QED
  BY <1>3, <1>4

-----------------------------------------------------------------------------
(* Types *)

(* The types of the database, and of the rest. *)
DatabaseTypes ==
  /\ user \in User /\ others \in BOOLEAN /\ keys \subseteq Value /\ orgs \in Seq(Organisation)
  /\ user.org \in 0 .. Len(orgs) /\ hostOrg \in 0 .. Len(orgs)
FlagTypes ==
  touched \in BOOLEAN /\ doubt \in BOOLEAN /\ unforced \in BOOLEAN /\ wrote \in BOOLEAN
RunTypes ==
  /\ env \in Env \union {NoEnv} /\ settled \in Env \union {None}
  /\ pc \in {"idle", "init", "email", "org", "adopt", "insert", "inserted", "assign", "rename",
             "host", "password", "unforce", "key", "done"}
  /\ runs \in 0 .. MaxRuns /\ faults \in 0 .. MaxFaults

LEMMA TypesParted ==
  TypeOK <=> DatabaseTypes /\ orgId \in 0 .. Len(orgs) /\ FlagTypes /\ RunTypes
BY Zenon DEF TypeOK, DatabaseTypes, FlagTypes, RunTypes

LEMMA FaultCounted ==
  ASSUME AdminAssumption, faults \in 0 .. MaxFaults, Fault
  PROVE  faults' \in 0 .. MaxFaults
BY DEF AdminAssumption, Fault

LEMMA EnvTypes ==
  ASSUME AdminAssumption, NEW e \in Env
  PROVE  /\ e.email \in Value /\ e.org \in Value /\ e.uuid \in Value
         /\ e.password \in Value /\ e.key \in Value /\ e.email # None /\ e # None
BY DEF AdminAssumption

(* User 1 with another value in one of its columns. *)
LEMMA UserChanged ==
  ASSUME user \in User
  PROVE  /\ \A v \in Value :
              /\ [user EXCEPT !.email = v] \in User /\ [user EXCEPT !.email = v].email = v
              /\ [user EXCEPT !.email = v].org = user.org
              /\ [user EXCEPT !.email = v].password = user.password
              /\ [user EXCEPT !.email = v].forced = user.forced
         /\ \A v \in Value :
              /\ [user EXCEPT !.password = v] \in User /\ [user EXCEPT !.password = v].email = user.email
              /\ [user EXCEPT !.password = v].org = user.org
              /\ [user EXCEPT !.password = v].forced = user.forced
         /\ \A f \in BOOLEAN :
              /\ [user EXCEPT !.forced = f] \in User /\ [user EXCEPT !.forced = f].email = user.email
              /\ [user EXCEPT !.forced = f].org = user.org
              /\ [user EXCEPT !.forced = f].password = user.password
              /\ [user EXCEPT !.forced = f].forced = f
         /\ \A v \in Nat :
              /\ [user EXCEPT !.org = v] \in User /\ [user EXCEPT !.org = v].email = user.email
              /\ [user EXCEPT !.org = v].org = v
              /\ [user EXCEPT !.org = v].password = user.password
              /\ [user EXCEPT !.org = v].forced = user.forced
BY DEF User

LEMMA PasswordChanged ==
  ASSUME user \in User, NEW v \in Value, NEW f \in BOOLEAN,
         user' = [user EXCEPT !.password = v, !.forced = f]
  PROVE  /\ user' \in User /\ user'.email = user.email /\ user'.org = user.org
         /\ user'.password = v /\ user'.forced = f
BY DEF User

(* A step leaves the organisations or adds or changes one, so that what is  *)
(* an organisation's id stays one.                                          *)
LEMMA OrgsStep ==
  ASSUME AdminAssumption, TypeOK, RunInOrder, Next
  PROVE  /\ orgs' \in Seq(Organisation) /\ 0 .. Len(orgs) \subseteq 0 .. Len(orgs')
         /\ orgs' = orgs \/ pc \in {"init", "adopt", "insert", "rename"}
<1> USE DEF DatabaseTypes
<1>1. /\ pc \in {"init", "adopt", "insert", "rename"} => env \in Env
      /\ orgs \in Seq(Organisation) /\ orgId \in 0 .. Len(orgs) /\ Len(orgs) \in Nat
  BY TypesParted DEF RunInOrder
<1>2. CASE UserInit
  <2>1. env \in Env /\ pc = "init"
    BY <1>1, <1>2 DEF UserInit
  <2>2. [name |-> env.org, uuid |-> None, generated |-> TRUE] \in Organisation
    BY <2>1, EnvTypes DEF AdminAssumption, Organisation
  <2>3. orgs' = orgs \/ orgs' = Append(orgs, [name |-> env.org, uuid |-> None, generated |-> TRUE])
    BY <1>2 DEF UserInit, Writes
  <2>4. QED
    BY <1>1, <2>1, <2>2, <2>3, OrgAdded
<1>3. CASE Insert
  <2>1. env \in Env /\ pc = "insert"
    BY <1>1, <1>3 DEF Insert
  <2>2. [name |-> env.org, uuid |-> env.uuid, generated |-> FALSE] \in Organisation
    BY <2>1, EnvTypes DEF Organisation
  <2>3. orgs' = Append(orgs, [name |-> env.org, uuid |-> env.uuid, generated |-> FALSE])
    BY <1>3 DEF Insert, Writes
  <2>4. QED
    BY <1>1, <2>1, <2>2, <2>3, OrgAdded
<1>4. CASE Adopt
  <2>1. env \in Env /\ pc = "adopt" /\ env.uuid \in Value
    BY <1>1, <1>4, EnvTypes DEF Adopt
  <2>2. orgId' = Generated(env.org) /\ (orgId' # 0 => orgId' \in DOMAIN orgs)
    BY <1>1, <1>4, GeneratedOrg DEF Adopt
  <2>3. orgs' = orgs \/ (orgId' # 0 /\ orgs' = [orgs EXCEPT ![orgId'].uuid = env.uuid])
    BY <1>4 DEF Adopt, Writes
  <2>4. QED
    BY <1>1, <2>1, <2>2, <2>3, OrgChanged
<1>5. CASE Rename
  <2>1. env \in Env /\ pc = "rename" /\ env.org \in Value
    BY <1>1, <1>5, EnvTypes DEF Rename
  <2>2. orgs' = orgs \/ (orgId # 0 /\ orgs' = [orgs EXCEPT ![orgId].name = env.org])
    BY <1>5 DEF Rename, Writes
  <2>3. orgId # 0 => orgId \in DOMAIN orgs
    BY <1>1
  <2>4. QED
    BY <1>1, <2>1, <2>2, <2>3, OrgChanged
<1>6. CASE Start \/ Fails \/ Email \/ FindOrg \/ Inserted \/ Assign \/ Host \/ Password \/ Unforce \/ Key \/ End \/ Touch
  <2>1. orgs' = orgs
    BY <1>6 DEF Start, Fails, Email, FindOrg, Inserted, Assign, Host, Password, Unforce, Key, End, Touch, Writes, database
  <2>2. QED
    BY <1>1, <2>1
<1>7. QED
  BY <1>2, <1>3, <1>4, <1>5, <1>6 DEF Next

(* What a step makes of user 1. *)
LEMMA UserStep ==
  ASSUME AdminAssumption, TypeOK, UserInOrder, RunInOrder, Next
  PROVE  /\ user' \in User /\ user'.org \in 0 .. Len(orgs')
         /\ user' = NoUser \/ (user'.email # None /\ user'.org # 0)
         /\ user # NoUser => user' # NoUser
         /\ user = NoUser /\ user' # NoUser => UserInit /\ ~others
         /\ pc # "assign" /\ ~UserInit => user'.org = user.org
         /\ user' = user \/ user'.forced \in {FALSE, user.forced} \/ (UserInit /\ user = NoUser)
<1>1. /\ user \in User /\ user.org \in 0 .. Len(orgs) /\ orgId \in 0 .. Len(orgs) /\ orgs \in Seq(Organisation)
      /\ 0 .. Len(orgs) \subseteq 0 .. Len(orgs') /\ Len(orgs) \in Nat
  BY TypesParted, OrgsStep DEF DatabaseTypes
<1>2. \A u : u.email # None => u # NoUser
  BY DEF NoUser
<1>3. user # NoUser => user.email # None /\ user.org # 0
  BY DEF UserInOrder
<1>4. CASE UNCHANGED user
  BY <1>1, <1>3, <1>4
<1>5. CASE UserInit /\ user' # user
  <2>1. /\ user = NoUser /\ ~others /\ orgs' = Append(orgs, [name |-> env.org, uuid |-> None, generated |-> TRUE])
        /\ user' = [email |-> DefaultEmail, org |-> Len(orgs) + 1, password |-> None, forced |-> TRUE]
    BY <1>5 DEF UserInit, Writes
  <2>2. env \in Env
    BY <1>5 DEF UserInit, RunInOrder
  <2>3. [name |-> env.org, uuid |-> None, generated |-> TRUE] \in Organisation
    BY <2>2, EnvTypes DEF AdminAssumption, Organisation
  <2>4. Len(orgs') = Len(orgs) + 1
    BY <1>1, <2>1, <2>3, OrgAdded
  <2>5. Len(orgs) + 1 \in Nat /\ Len(orgs) + 1 # 0 /\ Len(orgs) + 1 \in 0 .. Len(orgs')
    BY <1>1, <2>4
  <2>6. DefaultEmail # None /\ DefaultEmail \in Value /\ None \in Value
    BY DEF AdminAssumption
  <2>7. user' \in User /\ user'.org = Len(orgs) + 1 /\ user'.email # None
    BY <2>1, <2>5, <2>6 DEF User
  <2>8. QED
    BY <1>2, <1>5, <2>1, <2>5, <2>7
<1>6. CASE Email /\ user' # user
  <2>1. pc = "email" /\ env \in Env /\ user # NoUser /\ user' = [user EXCEPT !.email = env.email]
    BY <1>6 DEF Email, Writes, RunInOrder
  <2>2. /\ user' \in User /\ user'.email = env.email /\ env.email # None /\ user'.org = user.org
        /\ user'.forced = user.forced
    BY <1>1, <2>1, EnvTypes, UserChanged
  <2>3. QED
    BY <1>1, <1>2, <1>3, <2>1, <2>2
<1>7. CASE Assign /\ user' # user
  <2>1. pc = "assign" /\ orgId # 0 /\ user # NoUser /\ user' = [user EXCEPT !.org = orgId]
    BY <1>7 DEF Assign, Writes, RunInOrder
  <2>2. orgId \in Nat
    BY <1>1
  <2>3. user' \in User /\ user'.email = user.email /\ user'.org = orgId /\ user'.forced = user.forced
    BY <1>1, <2>1, <2>2, UserChanged
  <2>4. QED
    BY <1>1, <1>2, <1>3, <2>1, <2>3
<1>8. CASE Password /\ user' # user
  <2>1. pc = "password" /\ env \in Env
    BY <1>8 DEF Password, RunInOrder
  <2>2. user.email = env.email /\ ChangesPassword
    BY <1>8 DEF Password, Console
  <2>3. PICK f \in {FALSE, user.forced} : user' = [user EXCEPT !.password = env.password, !.forced = f]
    BY <2>2 DEF ChangesPassword
  <2>4. f \in BOOLEAN
    BY Zenon, <1>1, <2>3 DEF User
  <2>5. user' \in User /\ user'.email = user.email /\ user'.org = user.org /\ user'.forced = f
    <3>1. env.password \in Value
      BY <2>1, EnvTypes
    <3>2. user \in User
      BY <1>1
    <3>3. QED
      BY Zenon, <2>3, <2>4, <3>1, <3>2, PasswordChanged
  <2>6. user # NoUser
    BY <1>2, <2>1, <2>2, EnvTypes
  <2>7. QED
    BY <1>1, <1>2, <1>3, <2>1, <2>3, <2>5, <2>6
<1>9. CASE Unforce
  <2>1. pc = "unforce" /\ user # NoUser /\ user' = [user EXCEPT !.forced = FALSE]
    BY <1>9 DEF Unforce, RunInOrder
  <2>2. user' \in User /\ user'.email = user.email /\ user'.org = user.org /\ user'.forced = FALSE
    BY Zenon, <1>1, <2>1, UserChanged
  <2>3. QED
    BY <1>1, <1>2, <1>3, <2>1, <2>2
<1>10. CASE Touch /\ user' # user
  <2>1. user # NoUser /\ (user' = [user EXCEPT !.password = "other"] \/ user' = [user EXCEPT !.email = "other"])
    BY <1>10 DEF Touch
  <2>2. "other" \in Value
    BY DEF AdminAssumption
  <2>3. /\ user' \in User /\ user'.email \in {user.email, "other"} /\ user'.org = user.org
        /\ user'.forced = user.forced
    <3>1. user \in User
      BY <1>1
    <3>2. CASE user' = [user EXCEPT !.password = "other"]
      BY Zenon, <2>2, <3>1, <3>2, UserChanged
    <3>3. CASE user' = [user EXCEPT !.email = "other"]
      BY Zenon, <2>2, <3>1, <3>3, UserChanged
    <3>4. QED
      BY <2>1, <3>2, <3>3
  <2>4. "other" # None
    BY DEF AdminAssumption
  <2>5. QED
    BY <1>1, <1>2, <1>3, <2>1, <2>3, <2>4
<1>11. CASE \/ Start \/ Fails \/ FindOrg \/ Adopt \/ Insert \/ Inserted \/ Rename \/ Host \/ Key \/ End
  <2>1. UNCHANGED user
    BY <1>11 DEF Start, Fails, FindOrg, Adopt, Insert, Inserted, Rename, Host, Key, Console, ChangesKey, End,
                 Writes, database
  <2>2. QED
    BY <1>4, <2>1
<1>12. QED
  BY <1>4, <1>5, <1>6, <1>7, <1>8, <1>9, <1>10, <1>11 DEF Next

LEMMA TypesStep ==
  ASSUME AdminAssumption, TypeOK, UserInOrder, RunInOrder, Next
  PROVE  TypeOK'
<1>1. /\ user' \in User /\ user'.org \in 0 .. Len(orgs') /\ orgs' \in Seq(Organisation)
      /\ 0 .. Len(orgs) \subseteq 0 .. Len(orgs') /\ 0 \in 0 .. Len(orgs)
  <2>1. Len(orgs) \in Nat
    BY TypesParted DEF DatabaseTypes
  <2>2. 0 \in 0 .. Len(orgs)
    BY <2>1
  <2>3. QED
    BY <2>2, OrgsStep, UserStep
<1>2. DatabaseTypes /\ orgId \in 0 .. Len(orgs) /\ FlagTypes /\ RunTypes
  BY TypesParted
<1>3. others' \in BOOLEAN
  BY <1>2 DEF Next, DatabaseTypes, Start, Fails, UserInit, Email, FindOrg, Adopt, Insert, Inserted, Assign,
              Rename, Host, Password, Unforce, Key, End, Touch, Writes, database
<1>4. keys' \subseteq Value
  <2>1. CASE Key
    <3>1. env \in Env
      BY <2>1 DEF Key, RunInOrder
    <3>2. keys' = keys \/ keys' = {env.key} \/ keys' = keys \union {env.key}
      BY <2>1 DEF Key, Console, ChangesKey
    <3>3. QED
      BY <1>2, <3>1, <3>2, EnvTypes DEF DatabaseTypes
  <2>2. keys' = keys \/ keys' = {} \/ Key
    BY DEF Next, Start, Fails, UserInit, Email, FindOrg, Adopt, Insert, Inserted, Assign,
              Rename, Host, Password, Console, ChangesPassword, Unforce, End, Touch, Writes, database
  <2>3. QED
    BY <1>2, <2>1, <2>2 DEF DatabaseTypes
<1>5. hostOrg' \in 0 .. Len(orgs')
  <2>1. hostOrg' = hostOrg \/ hostOrg' = orgId
    BY DEF Next, Start, Fails, UserInit, Email, FindOrg, Adopt, Insert, Inserted, Assign,
              Rename, Host, Password, Unforce, Key, End, Touch, Writes, database
  <2>2. QED
    BY <1>1, <1>2, <2>1 DEF DatabaseTypes
<1>6. orgId' \in 0 .. Len(orgs')
  <2>1. CASE FindOrg
    <3>1. orgId' = user.org \/ orgId' = ByUuid(env.uuid)
      BY <2>1 DEF FindOrg
    <3>2. QED
      BY <1>1, <1>2, <3>1, LookedUpOrg DEF DatabaseTypes
  <2>2. CASE Inserted
    <3>1. orgId' = ByUuid(env.uuid)
      BY <2>2 DEF Inserted
    <3>2. QED
      BY <1>1, <1>2, <3>1, LookedUpOrg DEF DatabaseTypes
  <2>3. CASE Adopt
    <3>1. orgId' = Generated(env.org)
      BY <2>3 DEF Adopt
    <3>2. QED
      BY <1>1, <1>2, <3>1, GeneratedOrg DEF DatabaseTypes
  <2>4. orgId' = orgId \/ orgId' = 0 \/ FindOrg \/ Adopt \/ Inserted
    BY DEF Next, Start, Fails, UserInit, Email, Insert, Assign, Rename, Host, Password, Unforce, Key, End, Touch,
           run, Goto
  <2>5. QED
    BY <1>1, <1>2, <2>1, <2>2, <2>3, <2>4
<1>7. FlagTypes'
  <2> USE <1>2 DEF FlagTypes
  <2>1. CASE Start
    BY <2>1 DEF Start
  <2>2. CASE Fails
    BY <2>2 DEF Fails, history
  <2>3. CASE UserInit
    BY <2>3 DEF UserInit, Writes
  <2>4. CASE Email
    BY <2>4 DEF Email, Writes
  <2>5. CASE FindOrg
    BY <2>5 DEF FindOrg, history
  <2>6. CASE Adopt
    BY <2>6 DEF Adopt, Writes
  <2>7. CASE Insert
    BY <2>7 DEF Insert, Writes
  <2>8. CASE Inserted
    BY <2>8 DEF Inserted, history
  <2>9. CASE Assign
    BY <2>9 DEF Assign, Writes
  <2>10. CASE Rename
    BY <2>10 DEF Rename, Writes
  <2>11. CASE Host
    BY <2>11 DEF Host
  <2>12. CASE Password
    BY <2>12 DEF Password, Console, ChangesPassword
  <2>13. CASE Unforce
    BY <2>13 DEF Unforce
  <2>14. CASE Key
    BY <2>14 DEF Key, Console, ChangesKey
  <2>15. CASE End
    BY <2>15 DEF End
  <2>16. CASE Touch
    BY <2>16 DEF Touch
  <2>17. QED
    BY <2>1, <2>2, <2>3, <2>4, <2>5, <2>6, <2>7, <2>8, <2>9, <2>10, <2>11, <2>12, <2>13, <2>14, <2>15, <2>16 DEF Next
<1>8. RunTypes'
  <2>1. faults' = faults \/ Fault
    BY DEF Next, Start, Fails, UserInit, Email, FindOrg, Adopt, Insert, Inserted, Assign,
           Rename, Host, Password, Console, Unforce, Key, End, Touch, Writes
  <2>2. faults' \in 0 .. MaxFaults
    BY <1>2, <2>1, FaultCounted DEF RunTypes
  <2>3. CASE Start
    <3>1. env' \in Env /\ settled' \in {settled, None} /\ pc' = "init"
      BY <2>3 DEF Start
    <3>2. runs' \in 0 .. MaxRuns
      BY <1>2, <2>3 DEF Start, RunTypes, AdminAssumption
    <3>3. QED
      BY <1>2, <2>2, <3>1, <3>2 DEF RunTypes
  <2>4. CASE Fails \/ Touch
    BY <1>2, <2>2, <2>4 DEF Fails, Touch, history, run, RunTypes
  <2>5. CASE UserInit \/ Email \/ FindOrg \/ Adopt \/ Insert \/ Inserted \/ Assign \/ Rename
    BY <1>2, <2>2, <2>5 DEF UserInit, Email, FindOrg, Adopt, Insert, Inserted, Assign, Rename, Writes, Goto,
                            history, RunTypes
  <2>6. CASE Host \/ Password \/ Unforce \/ Key
    BY <1>2, <2>2, <2>6 DEF Host, Password, Unforce, Key, Goto, RunTypes
  <2>7. CASE End
    BY <1>2, <2>2, <2>7 DEF End, RunInOrder, RunTypes
  <2>8. QED
    BY <2>3, <2>4, <2>5, <2>6, <2>7 DEF Next
<1>9. DatabaseTypes'
  BY <1>1, <1>3, <1>4, <1>5 DEF DatabaseTypes
<1>10. QED
  <2>1. TypeOK' <=> DatabaseTypes' /\ (orgId \in 0 .. Len(orgs))' /\ FlagTypes' /\ RunTypes'
    BY Zenon DEF TypeOK, DatabaseTypes, FlagTypes, RunTypes
  <2>2. QED
    BY <1>6, <1>7, <1>8, <1>9, <2>1

(* Two organisations never get one UUID. *)
LEMMA UuidsStep ==
  ASSUME AdminAssumption, TypeOK, UniqueUuids, RunInOrder, Next
  PROVE  UniqueUuids'
<1>1. orgs \in Seq(Organisation) /\ Len(orgs) \in Nat /\ orgId \in 0 .. Len(orgs)
  BY TypesParted DEF DatabaseTypes
<1>2. CASE UNCHANGED orgs
  BY <1>2 DEF UniqueUuids
<1>3. ASSUME NEW o \in Organisation, orgs' = Append(orgs, o), o.uuid = None \/ ~HasUuid(o.uuid)
      PROVE  UniqueUuids'
  <2>1. /\ DOMAIN orgs' = DOMAIN orgs \union {Len(orgs) + 1} /\ orgs'[Len(orgs) + 1] = o
        /\ \A id \in DOMAIN orgs : orgs'[id] = orgs[id]
    BY <1>1, <1>3, OrgAdded
  <2>2. QED
    BY <1>3, <2>1 DEF UniqueUuids, HasUuid
<1>4. CASE UserInit /\ orgs' # orgs
  <2>1. env \in Env
    BY <1>4 DEF UserInit, RunInOrder
  <2>2. orgs' = Append(orgs, [name |-> env.org, uuid |-> None, generated |-> TRUE])
    BY <1>4 DEF UserInit, Writes
  <2>3. [name |-> env.org, uuid |-> None, generated |-> TRUE] \in Organisation
    BY <2>1, EnvTypes DEF AdminAssumption, Organisation
  <2>4. QED
    BY <1>3, <2>2, <2>3
<1>5. CASE Insert
  <2>1. env \in Env /\ ~HasUuid(env.uuid)
    BY <1>5 DEF Insert, RunInOrder
  <2>2. orgs' = Append(orgs, [name |-> env.org, uuid |-> env.uuid, generated |-> FALSE])
    BY <1>5 DEF Insert, Writes
  <2>3. [name |-> env.org, uuid |-> env.uuid, generated |-> FALSE] \in Organisation
    BY <2>1, EnvTypes DEF Organisation
  <2>4. QED
    BY <1>3, <2>1, <2>2, <2>3
<1>6. CASE Adopt /\ orgs' # orgs
  <2>1. env \in Env /\ ~HasUuid(env.uuid)
    BY <1>6 DEF Adopt, RunInOrder
  <2>2. PICK id : id = Generated(env.org)
    OBVIOUS
  <2>3. orgs' = [orgs EXCEPT ![id].uuid = env.uuid] /\ id # 0
    BY <1>6, <2>2 DEF Adopt, Writes
  <2>4. id \in DOMAIN orgs
    BY <1>1, <2>2, <2>3, GeneratedOrg
  <2>5. /\ DOMAIN orgs' = DOMAIN orgs /\ orgs'[id].uuid = env.uuid
        /\ \A i \in DOMAIN orgs : i # id => orgs'[i] = orgs[i]
    BY <1>1, <2>1, <2>3, <2>4, EnvTypes, OrgChanged
  <2>6. QED
    BY <2>1, <2>5 DEF UniqueUuids, HasUuid
<1>7. CASE Rename /\ orgs' # orgs
  <2>1. env \in Env
    BY <1>7 DEF Rename, RunInOrder
  <2>2. orgId # 0 /\ orgs' = [orgs EXCEPT ![orgId].name = env.org]
    BY <1>7 DEF Rename, Writes
  <2>3. orgId \in DOMAIN orgs
    BY <1>1, <2>2
  <2>4. DOMAIN orgs' = DOMAIN orgs /\ \A i \in DOMAIN orgs : orgs'[i].uuid = orgs[i].uuid
    BY <1>1, <2>1, <2>2, <2>3, EnvTypes, OrgChanged
  <2>5. QED
    BY <2>4 DEF UniqueUuids
<1>8. CASE Start \/ Fails \/ Email \/ FindOrg \/ Inserted \/ Assign \/ Host \/ Password \/ Unforce \/ Key \/ End \/ Touch
  <2>1. orgs' = orgs
    BY <1>8 DEF Start, Fails, Email, FindOrg, Inserted, Assign, Host, Password, Unforce, Key, End, Touch, Writes, database
  <2>2. QED
    BY <1>2, <2>1
<1>9. QED
  BY <1>2, <1>4, <1>5, <1>6, <1>7, <1>8 DEF Next

LEMMA UserInOrderStep ==
  ASSUME AdminAssumption, TypeOK, UserInOrder, RunInOrder, Next
  PROVE  UserInOrder'
<1>1. unforced' = unforced \/ unforced' = FALSE \/ Unforce
  BY DEF Next, Start, Fails, UserInit, Email, FindOrg, Adopt, Insert, Inserted, Assign, Rename, Host,
         Password, Console, ChangesPassword, Key, ChangesKey, End, Touch, Writes, history
<1>2. ASSUME Unforce
      PROVE  user' # NoUser /\ ~user'.forced
  <2>1. user # NoUser /\ user \in User /\ user' = [user EXCEPT !.forced = FALSE]
    BY <1>2, TypesParted DEF Unforce, RunInOrder, DatabaseTypes
  <2>2. user'.forced = FALSE
    BY Zenon, <2>1, UserChanged
  <2>3. user' # NoUser
    BY <2>1, UserStep
  <2>4. QED
    BY <2>2, <2>3
<1>3. ASSUME unforced
      PROVE  user' # NoUser /\ ~user'.forced
  <2>1. user # NoUser /\ ~user.forced
    BY <1>3 DEF UserInOrder
  <2>2. user' # NoUser /\ (user' = user \/ user'.forced \in {FALSE, user.forced})
    BY <2>1, UserStep
  <2>3. QED
    BY Zenon, <2>1, <2>2
<1>4. unforced' => user' # NoUser /\ ~user'.forced
  BY <1>1, <1>2, <1>3
<1>5. user' = NoUser \/ (user'.email # None /\ user'.org # 0)
  BY UserStep
<1>6. QED
  BY <1>4, <1>5 DEF UserInOrder

-----------------------------------------------------------------------------
(* A run over what the run before it left *)

(* An environment means one organisation. *)
LEMMA OneOrg ==
  ASSUME orgs \in Seq(Organisation), UniqueUuids, NEW e,
         NEW i \in 0 .. Len(orgs), NEW k \in 0 .. Len(orgs),
         i # 0, k # 0, e.uuid # None, orgs[i].uuid = e.uuid, orgs[k].uuid = e.uuid
  PROVE  i = k
<1>1. i \in DOMAIN orgs /\ k \in DOMAIN orgs
  OBVIOUS
<1>2. QED
  BY <1>1 DEF UniqueUuids

(* Where the database is as the environment says, a step writes nothing.    *)
LEMMA NothingToWrite ==
  ASSUME AdminAssumption, TypeOK, UniqueUuids, WarmSetup, RunInOrder, SettledInOrder, Next,
         pc # "idle", settled = env, ~Touch
  PROVE  UNCHANGED <<database, wrote>>
<1>1. env \in Env /\ env # None /\ ~wrote
  BY EnvTypes DEF RunInOrder, WarmSetup
<1>2. IsAs(env)
  BY <1>1 DEF SettledInOrder
<1>3. PICK id \in 0 .. Len(orgs) : IsOrg(env, id) /\ IsNamed(env, id) /\ IsHost(id)
  BY <1>2 DEF IsAs
<1>4. orgs \in Seq(Organisation) /\ orgId \in 0 .. Len(orgs) /\ Len(orgs) \in Nat
  BY TypesParted DEF DatabaseTypes
<1>5. ASSUME env.uuid # None
      PROVE  HasUuid(env.uuid)
  <2>1. id # 0 /\ orgs[id].uuid = env.uuid
    BY <1>3, <1>5 DEF IsOrg
  <2>2. id \in DOMAIN orgs
    BY <1>3, <1>4, <2>1
  <2>3. QED
    BY <2>1, <2>2 DEF HasUuid
<1>6. ASSUME IsOrg(env, orgId)
      PROVE  orgId = id
  <2>1. CASE env.uuid = None
    BY <1>3, <1>6, <2>1 DEF IsOrg
  <2>2. CASE env.uuid # None
    BY <1>3, <1>4, <1>6, <2>2, OneOrg DEF IsOrg
  <2>3. QED
    BY <2>1, <2>2
<1>7. CASE Fails \/ FindOrg \/ Inserted \/ End
  BY <1>7 DEF Fails, FindOrg, Inserted, End, history
<1>8. CASE UserInit
  BY <1>2, <1>8 DEF UserInit, Writes, IsAs, database
<1>9. CASE Email
  BY <1>2, <1>9 DEF Email, Writes, IsAs, IsEmail, database
<1>10. CASE Adopt
  BY <1>5, <1>10 DEF Adopt, RunInOrder
<1>11. CASE Insert
  BY <1>5, <1>11 DEF Insert, RunInOrder
<1>12. CASE Assign
  <2>1. env.uuid # None /\ orgId # 0 /\ orgs[orgId].uuid = env.uuid
    BY <1>12 DEF Assign, RunInOrder
  <2>2. id # 0 /\ orgs[id].uuid = env.uuid /\ (user # NoUser => user.org = id)
    BY <1>3, <2>1 DEF IsOrg
  <2>3. orgId = id
    BY <1>3, <1>4, <2>1, <2>2, OneOrg
  <2>4. QED
    BY <1>12, <2>2, <2>3 DEF Assign, Writes, database
<1>13. CASE Rename
  <2>1. orgId = id
    BY <1>6, <1>13 DEF Rename, RunInOrder, LookedUp
  <2>2. orgId = 0 \/ env.org \in {DefaultOrg, orgs[orgId].name}
    BY <1>3, <2>1 DEF IsNamed
  <2>3. QED
    BY <1>13, <2>2 DEF Rename, Writes, database
<1>14. CASE Host
  <2>1. orgId = id /\ orgId # 0
    BY <1>6, <1>14 DEF Host, RunInOrder, LookedUp
  <2>2. hostOrg = orgId
    BY <1>3, <2>1 DEF IsHost
  <2>3. QED
    BY <1>14, <2>2 DEF Host, database
<1>15. CASE Password
  BY <1>2, <1>15 DEF Password, HasPassword, IsAs, IsPassword, database
<1>16. CASE Unforce
  BY <1>1, <1>16 DEF Unforce, RunInOrder
<1>17. CASE Key
  BY <1>2, <1>17 DEF Key, HasKey, IsAs, IsKey, database
<1>18. CASE Start
  BY <1>18 DEF Start
<1>19. QED
  BY <1>7, <1>8, <1>9, <1>10, <1>11, <1>12, <1>13, <1>14, <1>15, <1>16, <1>17, <1>18 DEF Next

(* What a step leaves of a database that is as an environment says.         *)
LEMMA SettledStep ==
  ASSUME AdminAssumption, TypeOK, UniqueUuids, WarmSetup, RunInOrder, SettledInOrder, Next
  PROVE  WarmSetup' /\ SettledInOrder'
<1>1. ASSUME UNCHANGED database, settled' \in {settled, None}
      PROVE  SettledInOrder'
  BY <1>1 DEF SettledInOrder, IsAs, IsEmail, IsOrg, IsNamed, IsHost, IsPassword, IsKey, database
<1>2. ASSUME settled' = None
      PROVE  SettledInOrder'
  BY <1>2 DEF SettledInOrder
<1>3. CASE Start
  <2>1. UNCHANGED database /\ settled' \in {settled, None} /\ wrote' = FALSE
    BY <1>3 DEF Start
  <2>2. QED
    BY <1>1, <2>1 DEF WarmSetup
<1>4. CASE Fails
  <2>1. UNCHANGED database /\ settled' = settled /\ pc' = "idle"
    BY <1>4 DEF Fails, history
  <2>2. QED
    BY <1>1, <2>1 DEF WarmSetup
<1>5. CASE End
  <2>1. UNCHANGED database /\ pc = "done" /\ pc' = "idle" /\ settled' = IF doubt THEN None ELSE env
    BY <1>5 DEF End
  <2>2. ASSUME ~doubt
        PROVE  IsAs(env)
    <3>1. orgId \in 0 .. Len(orgs)
      BY TypesParted
    <3>2. IsEmail(env) /\ IsOrg(env, orgId) /\ IsNamed(env, orgId) /\ IsHost(orgId)
      BY <2>1, <2>2 DEF RunInOrder, LookedUp
    <3>3. IsPassword(env) /\ IsKey(env)
      BY <2>1, <2>2 DEF RunInOrder
    <3>4. user # NoUser \/ others
      BY <2>1 DEF RunInOrder
    <3>5. QED
      BY <3>1, <3>2, <3>3, <3>4 DEF IsAs
  <2>3. ASSUME ~doubt
        PROVE  SettledInOrder'
    <3>1. IsAs(env)' <=> IsAs(env)
      BY <1>5, <2>1 DEF End, IsAs, IsEmail, IsOrg, IsNamed, IsHost, IsPassword, IsKey, database
    <3>2. settled' = env /\ env' = env
      BY <1>5, <2>1, <2>3 DEF End
    <3>3. QED
      BY <2>2, <2>3, <3>1, <3>2 DEF SettledInOrder
  <2>4. QED
    BY <1>2, <2>1, <2>3 DEF WarmSetup
<1>6. CASE Touch
  <2>1. settled' = None /\ pc' = pc /\ env' = env
    BY <1>6 DEF Touch, run
  <2>2. pc # "idle" => env # None
    BY EnvTypes DEF RunInOrder
  <2>3. QED
    BY <1>2, <2>1, <2>2 DEF WarmSetup
<1>7. CASE ~Start /\ ~Fails /\ ~End /\ ~Touch
  <2>1. pc # "idle" /\ env' = env /\ settled' = settled
    BY <1>7 DEF Next, UserInit, Email, FindOrg, Adopt, Insert, Inserted, Assign, Rename, Host, Password,
               Unforce, Key, Writes, Goto, history
  <2>2. settled \in {None, env} /\ env # None
    BY <2>1, EnvTypes DEF RunInOrder
  <2>3. CASE settled = env
    <3>1. UNCHANGED <<database, wrote>>
      BY <1>7, <2>1, <2>3, NothingToWrite
    <3>2. ~wrote'
      BY <2>1, <2>3, <3>1 DEF WarmSetup
    <3>3. QED
      BY <1>1, <2>1, <3>1, <3>2 DEF WarmSetup
  <2>4. CASE settled = None
    BY <1>2, <2>1, <2>2, <2>4 DEF WarmSetup
  <2>5. QED
    BY <2>2, <2>3, <2>4
<1>8. QED
  BY <1>3, <1>4, <1>5, <1>6, <1>7

-----------------------------------------------------------------------------
(* The steps of a run *)

(* A step that leaves organisations and the organisation of user 1 leaves   *)
(* whose organisation the run found, and its name.                          *)
LEMMA OrgKept ==
  ASSUME UNCHANGED <<orgs, orgId, env>>, user'.org = user.org, user' # NoUser => user # NoUser
  PROVE  /\ IsOrg(env, orgId) => IsOrg(env, orgId)'
         /\ IsNamed(env, orgId) => IsNamed(env, orgId)'
BY DEF IsOrg, IsNamed

LEMMA RunInOrderStep ==
  ASSUME AdminAssumption, TypeOK, UserInOrder, RunInOrder, Next
  PROVE  RunInOrder'
<1>1. orgs \in Seq(Organisation) /\ Len(orgs) \in Nat /\ orgId \in 0 .. Len(orgs) /\ user \in User
  BY TypesParted DEF DatabaseTypes
<1>2. pc # "idle" => env \in Env /\ settled \in {None, env}
  BY DEF RunInOrder
<1>3. CASE Start
  BY <1>3 DEF Start, RunInOrder, LookedUp
<1>4. CASE Fails \/ End
  <2>1. pc' = "idle"
    BY <1>4 DEF Fails, End
  <2>2. QED
    BY <2>1 DEF RunInOrder, LookedUp
<1>5. CASE UserInit
  <2>1. pc = "init" /\ pc' = "email" /\ UNCHANGED <<env, settled>>
    BY <1>5 DEF UserInit, Writes, Goto
  <2>2. user' # NoUser \/ others'
    <3>1. CASE user = NoUser /\ ~others
      <4>1. user'.email = DefaultEmail
        BY <1>5, <3>1 DEF UserInit, Writes
      <4>2. user' # NoUser
        BY <4>1 DEF AdminAssumption, NoUser
      <4>3. QED
        BY <4>2
    <3>2. CASE user # NoUser \/ others
      BY <1>5, <3>2 DEF UserInit, Writes
    <3>3. QED
      BY <3>1, <3>2
  <2>3. QED
    BY <1>2, <2>1, <2>2 DEF RunInOrder, LookedUp
<1>6. CASE Email
  <2>1. pc = "email" /\ pc' = "org" /\ UNCHANGED <<env, settled, others>>
    BY <1>6 DEF Email, Writes, Goto
  <2>2. user' # NoUser \/ others'
    BY <2>1, UserStep DEF RunInOrder
  <2>3. IsEmail(env)'
    <3>1. CASE user # NoUser /\ env.email \notin {DefaultEmail, user.email}
      <4>1. user' = [user EXCEPT !.email = env.email]
        BY <1>6, <3>1 DEF Email, Writes
      <4>2. user'.email = env.email
        BY <1>1, <1>2, <2>1, <4>1, EnvTypes, UserChanged
      <4>3. QED
        BY <2>1, <4>2 DEF IsEmail
    <3>2. CASE ~(user # NoUser /\ env.email \notin {DefaultEmail, user.email})
      BY <1>6, <2>1, <3>2 DEF Email, Writes, IsEmail
    <3>3. QED
      BY <3>1, <3>2
  <2>4. QED
    BY <1>2, <2>1, <2>2, <2>3 DEF RunInOrder, LookedUp
<1>7. CASE FindOrg
  <2>1. /\ pc = "org" /\ UNCHANGED <<env, settled, user, others, orgs, doubt>>
        /\ orgId' = IF env.uuid = None THEN user.org ELSE ByUuid(env.uuid)
        /\ pc' = IF env.uuid = None THEN "rename" ELSE IF orgId' # 0 THEN "assign" ELSE "adopt"
    BY <1>7 DEF FindOrg, Goto, database, history
  <2>2. user' # NoUser \/ others'
    BY <2>1 DEF RunInOrder
  <2>3. ~doubt' => IsEmail(env)'
    BY <2>1 DEF RunInOrder, IsEmail
  <2>4. CASE env.uuid = None
    <3>1. pc' = "rename" /\ IsOrg(env, orgId)'
      BY <2>1, <2>4 DEF IsOrg
    <3>2. QED
      BY <1>2, <2>1, <2>2, <2>3, <3>1 DEF RunInOrder, LookedUp
  <2>5. CASE env.uuid # None /\ ByUuid(env.uuid) # 0
    <3>1. pc' = "assign" /\ orgId' # 0 /\ orgs'[orgId'].uuid = env'.uuid /\ env'.uuid # None
      BY <1>1, <2>1, <2>5, LookedUpOrg
    <3>2. QED
      BY <1>2, <2>1, <2>2, <2>3, <3>1 DEF RunInOrder, LookedUp
  <2>6. CASE env.uuid # None /\ ByUuid(env.uuid) = 0
    <3>1. pc' = "adopt" /\ env'.uuid # None
      BY <2>1, <2>6
    <3>2. ~HasUuid(env.uuid)'
      BY <1>1, <2>1, <2>6, LookedUpOrg DEF HasUuid
    <3>3. QED
      BY <1>2, <2>1, <2>2, <2>3, <3>1, <3>2 DEF RunInOrder, LookedUp
  <2>7. QED
    BY <2>4, <2>5, <2>6
<1>8. CASE Adopt
  <2>1. /\ pc = "adopt" /\ UNCHANGED <<env, settled, user, others, doubt>>
        /\ orgId' = Generated(env.org) /\ pc' = IF orgId' # 0 THEN "assign" ELSE "insert"
    BY <1>8 DEF Adopt, Writes, Goto
  <2>2. (user' # NoUser \/ others') /\ env'.uuid # None
    BY <2>1 DEF RunInOrder
  <2>3. ~doubt' => IsEmail(env)'
    BY <2>1 DEF RunInOrder, IsEmail
  <2>4. CASE Generated(env.org) = 0
    <3>1. orgs' = orgs /\ pc' = "insert"
      BY <1>8, <2>1, <2>4 DEF Adopt, Writes
    <3>2. ~HasUuid(env.uuid)'
      BY <2>1, <3>1 DEF RunInOrder, HasUuid
    <3>3. QED
      BY <1>2, <2>1, <2>2, <2>3, <3>1, <3>2 DEF RunInOrder, LookedUp
  <2>5. CASE Generated(env.org) # 0
    <3>1. PICK id : id = Generated(env.org)
      OBVIOUS
    <3>2. orgs' = [orgs EXCEPT ![id].uuid = env.uuid] /\ pc' = "assign" /\ orgId' = id
      BY <1>8, <2>1, <2>5, <3>1 DEF Adopt, Writes
    <3>3. id \in DOMAIN orgs
      BY <1>1, <2>5, <3>1, GeneratedOrg
    <3>4. orgs'[orgId'].uuid = env'.uuid /\ orgId' # 0
      BY <1>1, <1>2, <2>1, <2>5, <3>1, <3>2, <3>3, EnvTypes, OrgChanged
    <3>5. QED
      BY <1>2, <2>1, <2>2, <2>3, <3>2, <3>4 DEF RunInOrder, LookedUp
  <2>6. QED
    BY <2>4, <2>5
<1>9. CASE Insert
  <2>1. /\ pc = "insert" /\ pc' = "inserted" /\ UNCHANGED <<env, settled, user, others, doubt>> /\ wrote' = TRUE
        /\ orgs' = Append(orgs, [name |-> env.org, uuid |-> env.uuid, generated |-> FALSE])
    BY <1>9 DEF Insert, Writes, Goto
  <2>2. (user' # NoUser \/ others') /\ env'.uuid # None
    BY <2>1 DEF RunInOrder
  <2>3. ~doubt' => IsEmail(env)'
    BY <2>1 DEF RunInOrder, IsEmail
  <2>4. [name |-> env.org, uuid |-> env.uuid, generated |-> FALSE] \in Organisation
    BY <1>2, <2>1, EnvTypes DEF Organisation
  <2>5. Len(orgs) + 1 \in DOMAIN orgs' /\ orgs'[Len(orgs) + 1].uuid = env'.uuid
    BY <1>1, <2>1, <2>4, OrgAdded
  <2>6. HasUuid(env.uuid)'
    BY <2>5 DEF HasUuid
  <2>7. QED
    BY <1>2, <2>1, <2>2, <2>3, <2>6 DEF RunInOrder, LookedUp
<1>10. CASE Inserted
  <2>1. /\ pc = "inserted" /\ pc' = "assign" /\ UNCHANGED <<env, settled, user, others, doubt, orgs>>
        /\ orgId' = ByUuid(env.uuid)
    BY <1>10 DEF Inserted, Goto, database, history
  <2>2. (user' # NoUser \/ others') /\ env'.uuid # None /\ HasUuid(env.uuid)
    BY <2>1 DEF RunInOrder
  <2>3. ~doubt' => IsEmail(env)'
    BY <2>1 DEF RunInOrder, IsEmail
  <2>4. orgId' # 0 /\ orgs'[orgId'].uuid = env'.uuid
    BY <1>1, <2>1, <2>2, LookedUpOrg
  <2>5. QED
    BY <1>2, <2>1, <2>2, <2>3, <2>4 DEF RunInOrder, LookedUp
<1>11. CASE Assign
  <2>1. pc = "assign" /\ pc' = "rename" /\ UNCHANGED <<env, settled, others, doubt, orgId>>
    BY <1>11 DEF Assign, Writes, Goto
  <2>2. env.uuid # None /\ orgId # 0 /\ orgs[orgId].uuid = env.uuid
    BY <2>1 DEF RunInOrder
  <2>3. CASE user # NoUser /\ user.org # orgId
    <3>1. user' = [user EXCEPT !.org = orgId] /\ orgs' = orgs
      BY <1>11, <2>3 DEF Assign, Writes
    <3>2. orgId \in Nat
      BY <1>1
    <3>3. user'.org = orgId /\ user'.email = user.email
      BY <1>1, <3>1, <3>2, UserChanged
    <3>4. user' # NoUser
      BY <2>3, UserStep
    <3>5. IsOrg(env, orgId)'
      BY <2>1, <2>2, <3>1, <3>3 DEF IsOrg
    <3>6. ~doubt' => IsEmail(env)'
      BY <2>1, <2>3, <3>3 DEF RunInOrder, IsEmail
    <3>7. QED
      BY <1>2, <2>1, <3>4, <3>5, <3>6 DEF RunInOrder, LookedUp
  <2>4. CASE user = NoUser \/ user.org = orgId
    <3>1. user' = user /\ orgs' = orgs
      BY <1>11, <2>4 DEF Assign, Writes
    <3>2. IsOrg(env, orgId)'
      BY <2>1, <2>2, <2>4, <3>1 DEF IsOrg
    <3>3. user' # NoUser \/ others'
      BY <2>1, <3>1 DEF RunInOrder
    <3>4. ~doubt' => IsEmail(env)'
      BY <2>1, <3>1 DEF RunInOrder, IsEmail
    <3>5. QED
      BY <1>2, <2>1, <3>2, <3>3, <3>4 DEF RunInOrder, LookedUp
  <2>5. QED
    BY <2>3, <2>4
<1>12. CASE Rename
  <2>1. /\ pc = "rename" /\ pc' = IF orgId = 0 THEN "password" ELSE "host"
        /\ UNCHANGED <<env, settled, user, others, doubt, orgId>>
    BY <1>12 DEF Rename, Writes, Goto
  <2>2. (user' # NoUser \/ others') /\ IsOrg(env, orgId)
    BY <2>1 DEF RunInOrder, LookedUp
  <2>3. ~doubt' => IsEmail(env)'
    BY <2>1 DEF RunInOrder, IsEmail
  <2>4. /\ orgId # 0 => orgs'[orgId].uuid = orgs[orgId].uuid
        /\ orgId = 0 \/ env.org = DefaultOrg \/ orgs'[orgId].name = env.org
    <3>1. orgId # 0 => orgId \in DOMAIN orgs
      BY <1>1
    <3>2. CASE orgId # 0 /\ env.org \notin {DefaultOrg, orgs[orgId].name}
      <4>1. orgs' = [orgs EXCEPT ![orgId].name = env.org]
        BY <1>12, <3>2 DEF Rename, Writes
      <4>2. QED
        BY <1>1, <1>2, <2>1, <3>1, <3>2, <4>1, EnvTypes, OrgChanged
    <3>3. CASE orgId = 0 \/ env.org \in {DefaultOrg, orgs[orgId].name}
      <4>1. orgs' = orgs
        BY <1>12, <3>3 DEF Rename, Writes
      <4>2. QED
        BY <3>3, <4>1
    <3>4. QED
      BY <3>2, <3>3
  <2>5. IsOrg(env, orgId)' /\ IsNamed(env, orgId)'
    BY <2>1, <2>2, <2>4 DEF IsOrg, IsNamed
  <2>6. pc' = "password" => IsHost(orgId)'
    BY <2>1 DEF IsHost
  <2>7. pc' = "host" => orgId' # 0
    BY <2>1
  <2>8. pc' \in {"password", "host"}
    BY <2>1
  <2>9. QED
    BY <1>2, <2>1, <2>2, <2>3, <2>5, <2>6, <2>7, <2>8 DEF RunInOrder, LookedUp
<1>13. CASE Host
  <2>1. /\ pc = "host" /\ pc' = "password"
        /\ UNCHANGED <<env, settled, user, others, orgs, orgId>>
    BY <1>13 DEF Host, Goto
  <2>2. (user' # NoUser \/ others') /\ IsOrg(env, orgId) /\ IsNamed(env, orgId)
    BY <2>1 DEF RunInOrder, LookedUp
  <2>3. IsOrg(env, orgId)' /\ IsNamed(env, orgId)'
    BY <2>1, <2>2, OrgKept
  <2>4. ~doubt' => IsEmail(env)'
    <3>1. ~doubt' => ~doubt
      BY <1>13 DEF Host
    <3>2. QED
      BY <2>1, <3>1 DEF RunInOrder, IsEmail
  <2>5. ~doubt' => IsHost(orgId)'
    BY <1>13, <2>1 DEF Host, IsHost
  <2>6. QED
    BY <1>2, <2>1, <2>2, <2>3, <2>4, <2>5 DEF RunInOrder, LookedUp
<1>14. CASE Password
  <2>1. /\ pc = "password" /\ pc' \in {"key", "unforce"}
        /\ UNCHANGED <<env, settled, others, orgs, hostOrg, orgId>>
    BY <1>14 DEF Password, Goto
  <2>2. (user # NoUser \/ others) /\ IsOrg(env, orgId) /\ IsNamed(env, orgId)
    BY <2>1 DEF RunInOrder, LookedUp
  <2>3. ~doubt => IsHost(orgId) /\ IsEmail(env)
    BY <2>1 DEF RunInOrder, LookedUp
  <2>4. user'.org = user.org /\ (user # NoUser => user' # NoUser) /\ (user' # NoUser => user # NoUser)
    <3>1. ~UserInit
      BY <2>1 DEF UserInit
    <3>2. QED
      BY <2>1, <3>1, UserStep
  <2>5. IsOrg(env, orgId)' /\ IsNamed(env, orgId)' /\ (user' # NoUser \/ others')
    BY <2>1, <2>2, <2>4, OrgKept
  <2>6. CASE HasPassword
    <3>1. UNCHANGED <<user, doubt>> /\ pc' = "key"
      BY <1>14, <2>6 DEF Password, Goto
    <3>2. IsPassword(env)'
      BY <2>1, <2>6, <3>1 DEF HasPassword, IsPassword
    <3>3. ~doubt' => IsHost(orgId)' /\ IsEmail(env)'
      BY <2>1, <2>3, <3>1 DEF IsHost, IsEmail
    <3>4. QED
      BY <1>2, <2>1, <2>5, <3>1, <3>2, <3>3 DEF RunInOrder, LookedUp
  <2>7. CASE ~HasPassword
    <3>1. PICK ok \in BOOLEAN : Console(ChangesPassword, ok) /\ pc' = IF ok THEN "unforce" ELSE "key"
      BY <1>14, <2>7 DEF Password, Goto
    <3>2. CASE ~ok
      <4>1. doubt' /\ pc' = "key"
        BY Zenon, <3>1, <3>2 DEF Console
      <4>2. QED
        BY <1>2, <2>1, <2>5, <4>1 DEF RunInOrder, LookedUp
    <3>3. CASE ok
      <4>1. /\ user.email = env.email /\ ChangesPassword /\ wrote' = TRUE /\ (doubt' <=> doubt)
            /\ pc' = "unforce"
        BY Zenon, <3>1, <3>3 DEF Console
      <4>2. PICK f \in {FALSE, user.forced} : user' = [user EXCEPT !.password = env.password, !.forced = f]
        BY <4>1 DEF ChangesPassword
      <4>3. f \in BOOLEAN
        BY Zenon, <1>1, <4>2 DEF User
      <4>4. env.password \in Value /\ env.email # None
        BY <1>2, <2>1, EnvTypes
      <4>5. user'.email = user.email /\ user'.password = env.password
        BY Zenon, <1>1, <4>2, <4>3, <4>4, PasswordChanged
      <4>6. user' # NoUser /\ IsPassword(env)' /\ IsEmail(env)'
        BY <2>1, <4>1, <4>4, <4>5 DEF NoUser, IsPassword, IsEmail
      <4>7. ~doubt' => IsHost(orgId)'
        BY <2>1, <2>3, <4>1 DEF IsHost
      <4>8. QED
        BY <1>2, <2>1, <2>5, <4>1, <4>6, <4>7 DEF RunInOrder, LookedUp
    <3>4. QED
      BY <3>2, <3>3
  <2>8. QED
    BY <2>6, <2>7
<1>15. CASE Unforce
  <2>1. /\ pc = "unforce" /\ pc' = "key" /\ user' = [user EXCEPT !.forced = FALSE]
        /\ UNCHANGED <<env, settled, others, orgs, hostOrg, orgId, doubt>>
    BY <1>15 DEF Unforce, Goto
  <2>2. user # NoUser /\ IsOrg(env, orgId) /\ IsNamed(env, orgId)
    BY <2>1 DEF RunInOrder, LookedUp
  <2>3. ~doubt => IsHost(orgId) /\ IsEmail(env) /\ IsPassword(env)
    BY <2>1 DEF RunInOrder, LookedUp
  <2>4. user'.org = user.org /\ user'.email = user.email /\ user'.password = user.password
    BY Zenon, <1>1, <2>1, UserChanged
  <2>5. user' # NoUser
    BY <2>2, UserStep
  <2>6. IsOrg(env, orgId)' /\ IsNamed(env, orgId)'
    BY <2>1, <2>2, <2>4, OrgKept
  <2>7. ~doubt' => IsHost(orgId)' /\ IsEmail(env)' /\ IsPassword(env)'
    BY <2>1, <2>2, <2>3, <2>4 DEF IsHost, IsEmail, IsPassword
  <2>8. QED
    BY <1>2, <2>1, <2>5, <2>6, <2>7 DEF RunInOrder, LookedUp
<1>16. CASE Key
  <2>1. /\ pc = "key" /\ pc' = "done" /\ UNCHANGED <<env, settled, user, others, orgs, hostOrg, orgId>>
    BY <1>16 DEF Key, Console, ChangesKey, Goto
  <2>2. (user # NoUser \/ others) /\ IsOrg(env, orgId) /\ IsNamed(env, orgId)
    BY <2>1 DEF RunInOrder, LookedUp
  <2>3. ~doubt => IsHost(orgId) /\ IsEmail(env) /\ IsPassword(env)
    BY <2>1 DEF RunInOrder, LookedUp
  <2>4. IsOrg(env, orgId)' /\ IsNamed(env, orgId)'
    BY <2>1, <2>2, OrgKept
  <2>5. ~doubt => IsHost(orgId)' /\ IsEmail(env)' /\ IsPassword(env)'
    BY <2>1, <2>3 DEF IsHost, IsEmail, IsPassword
  <2>6. ~doubt' => ~doubt /\ IsKey(env)'
    <3>1. CASE env.key = None \/ HasKey
      BY <1>16, <2>1, <3>1 DEF Key, HasKey, IsKey
    <3>2. CASE ~(env.key = None \/ HasKey)
      <4>1. PICK ok \in BOOLEAN : Console(ChangesKey, ok)
        BY <1>16, <3>2 DEF Key
      <4>2. CASE ~ok
        BY Zenon, <4>1, <4>2 DEF Console
      <4>3. CASE ok
        <5>1. ChangesKey /\ (doubt' <=> doubt)
          BY Zenon, <4>1, <4>3 DEF Console
        <5>2. env'.key \in keys'
          BY <2>1, <5>1 DEF ChangesKey
        <5>3. QED
          BY <5>1, <5>2 DEF IsKey
      <4>4. QED
        BY <4>2, <4>3
    <3>3. QED
      BY <3>1, <3>2
  <2>7. QED
    BY <1>2, <2>1, <2>2, <2>4, <2>5, <2>6 DEF RunInOrder, LookedUp
<1>17. CASE Touch
  <2>1. /\ UNCHANGED <<env, others, orgs, hostOrg, orgId, pc, wrote>> /\ doubt' = TRUE /\ settled' = None
        /\ user # NoUser
    BY <1>17 DEF Touch, run
  <2>2. user' # NoUser
    BY <2>1, UserStep
  <2>3. user'.org = user.org
    <3>1. CASE UNCHANGED user
      BY <3>1
    <3>2. CASE user' = [user EXCEPT !.email = "other"] \/ user' = [user EXCEPT !.password = "other"]
      BY <1>1, <3>2 DEF User
    <3>3. QED
      BY <1>17, <3>1, <3>2 DEF Touch
  <2>4. /\ IsOrg(env, orgId) => IsOrg(env, orgId)'
        /\ IsNamed(env, orgId) => IsNamed(env, orgId)'
    BY <2>1, <2>3, OrgKept
  <2>5. HasUuid(env.uuid)' <=> HasUuid(env.uuid)
    BY <2>1 DEF HasUuid
  <2>6. QED
    BY <2>1, <2>2, <2>4, <2>5 DEF RunInOrder, LookedUp
<1>18. QED
  BY <1>3, <1>4, <1>5, <1>6, <1>7, <1>8, <1>9, <1>10, <1>11, <1>12, <1>13, <1>14, <1>15, <1>16, <1>17 DEF Next

-----------------------------------------------------------------------------
(* The inductive invariant holds in every state of every run *)

LEMMA SetupInit ==
  ASSUME AdminAssumption, Init
  PROVE  SetupOrderly
<1>1. PICK db \in Database : user = db.user /\ others = db.others /\ orgs = db.orgs
  BY DEF Init
<1>2. /\ user \in User /\ others \in BOOLEAN /\ orgs \in Seq(Organisation)
      /\ user = NoUser \/ (user.email # None /\ user.org \in DOMAIN orgs)
      /\ UniqueUuids
  BY <1>1 DEF AdminAssumption, UniqueUuids
<1>3. Len(orgs) \in Nat /\ 0 \in 0 .. Len(orgs) /\ \A id \in DOMAIN orgs : id \in 0 .. Len(orgs) /\ id # 0
  <2>1. Len(orgs) \in Nat /\ DOMAIN orgs = 1 .. Len(orgs)
    BY <1>2
  <2>2. QED
    BY <2>1
<1>4. user.org \in 0 .. Len(orgs) /\ (user = NoUser \/ (user.email # None /\ user.org # 0))
  BY <1>2, <1>3 DEF NoUser
<1>5. DatabaseTypes
  BY <1>2, <1>3, <1>4 DEF Init, DatabaseTypes
<1>6. FlagTypes
  BY DEF Init, FlagTypes
<1>7. RunTypes
  <2>1. 0 \in 0 .. MaxRuns /\ 0 \in 0 .. MaxFaults
    BY DEF AdminAssumption
  <2>2. QED
    BY <2>1 DEF Init, RunTypes
<1>8. orgId \in 0 .. Len(orgs)
  BY <1>3 DEF Init
<1>9. UserInOrder
  BY <1>4 DEF Init, UserInOrder
<1>10. RunInOrder /\ SettledInOrder /\ WarmSetup
  BY DEF Init, RunInOrder, LookedUp, SettledInOrder, WarmSetup
<1>11. QED
  BY <1>2, <1>5, <1>6, <1>7, <1>8, <1>9, <1>10, TypesParted DEF SetupOrderly, AdminInv, UniqueUuids

LEMMA SetupStep ==
  ASSUME AdminAssumption, SetupOrderly, [Next]_vars
  PROVE  SetupOrderly'
<1>1. TypeOK /\ WarmSetup /\ UniqueUuids /\ UserInOrder /\ RunInOrder /\ SettledInOrder
  BY DEF SetupOrderly, AdminInv, UniqueUuids
<1>2. ASSUME Next
      PROVE  /\ TypeOK' /\ WarmSetup' /\ UniqueUuids'
             /\ UserInOrder' /\ RunInOrder' /\ SettledInOrder'
  BY <1>1, <1>2, TypesStep, SettledStep, UuidsStep, UserInOrderStep, RunInOrderStep
<1>3. ASSUME UNCHANGED vars
      PROVE  /\ TypeOK' /\ WarmSetup' /\ UniqueUuids'
             /\ UserInOrder' /\ RunInOrder' /\ SettledInOrder'
  <2> USE <1>3 DEF vars, database, run, history
  <2>1. TypeOK'
    BY <1>1 DEF TypeOK
  <2>2. WarmSetup' /\ UniqueUuids' /\ UserInOrder'
    BY <1>1 DEF WarmSetup, UniqueUuids, UserInOrder
  <2>3. RunInOrder'
    BY <1>1 DEF RunInOrder, IsOrg, IsNamed, IsHost, IsEmail, IsPassword, IsKey, HasUuid
  <2>4. SettledInOrder'
    BY <1>1 DEF SettledInOrder, IsAs, IsOrg, IsNamed, IsHost, IsEmail, IsPassword, IsKey
  <2>5. QED
    BY <2>1, <2>2, <2>3, <2>4
<1>4. QED
  BY <1>2, <1>3 DEF SetupOrderly, AdminInv, UniqueUuids

LEMMA RunsOrderly == Spec => []SetupOrderly
<1>1. Init => SetupOrderly
  BY AdminAssumption, SetupInit
<1>2. SetupOrderly /\ [Next]_vars => SetupOrderly'
  BY AdminAssumption, SetupStep
<1>3. QED
  BY <1>1, <1>2, PTL DEF Spec

(* No UUID ever has two organisations (admin.py: _configure_admin_org), and *)
(* a run over a database that is as its environment says writes nothing     *)
(* (setup_admin's tests), for any environments and however runs ended.      *)
THEOREM AdminInvariant == Spec => []AdminInv
<1>1. SetupOrderly => AdminInv
  BY DEF SetupOrderly
<1>2. QED
  BY RunsOrderly, <1>1, PTL

(* A run that ends without a failed console command leaves user 1, its      *)
(* organisation, password and key as its environment says, whatever the    *)
(* runs before it left half done (admin.py: setup_admin).                   *)
THEOREM SetupIsTrue == Spec => []SetupTells
<1>1. SetupOrderly => SetupTells
  <2> SUFFICES ASSUME SetupOrderly, pc = "done", ~doubt, user # NoUser
               PROVE  /\ env.email # DefaultEmail => user.email = env.email
                      /\ OrgAsEnv /\ CredentialsAsEnv
                      /\ unforced => ~user.forced
    BY DEF SetupTells
  <2>1. RunInOrder /\ UserInOrder
    BY DEF SetupOrderly
  <2>2. IsEmail(env) /\ IsOrg(env, orgId) /\ IsNamed(env, orgId) /\ IsHost(orgId)
    BY <2>1 DEF RunInOrder, LookedUp
  <2>3. IsPassword(env) /\ IsKey(env)
    BY <2>1 DEF RunInOrder
  <2>4. user.org = orgId /\ user.org # 0
    BY <2>1, <2>2 DEF IsOrg, UserInOrder
  <2>5. OrgAsEnv
    BY <2>2, <2>4 DEF IsOrg, IsNamed, IsHost, OrgAsEnv
  <2>6. CredentialsAsEnv
    BY <2>3 DEF IsPassword, IsKey, CredentialsAsEnv
  <2>7. env.email # DefaultEmail => user.email = env.email
    BY <2>2 DEF IsEmail
  <2>8. QED
    BY <2>1, <2>5, <2>6, <2>7 DEF UserInOrder
<1>2. QED
  BY RunsOrderly, <1>1, PTL
=============================================================================
