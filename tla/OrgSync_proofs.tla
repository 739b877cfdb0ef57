---------------------------- MODULE OrgSync_proofs ----------------------------
(***************************************************************************)
(* For any items and files: exit 0 of org-sync tells the truth, a run after *)
(* one that succeeded only reads, and nothing is disabled without cause.    *)
(***************************************************************************)
EXTENDS OrgSync, TLAPS

KindName == {"role", "org", "tag", "user", "server", "list", "group"}

(* The steps at which the items of a kind are brought to what the file says, *)
(* and at which those that it does not name are disabled.                    *)
Place(kind) ==
  IF kind = "role" THEN 1 ELSE IF kind = "org" THEN 2 ELSE IF kind = "tag" THEN 3
  ELSE IF kind = "user" THEN 4 ELSE IF kind = "server" THEN 5 ELSE IF kind = "list" THEN 6 ELSE 8
OffPlace(kind) ==
  IF kind = "list" THEN 7 ELSE IF kind = "user" THEN 9 ELSE IF kind = "server" THEN 10 ELSE 0

-----------------------------------------------------------------------------
(* The steps *)

LEMMA StepNames ==
  /\ DOMAIN Steps = 1..10
  /\ Steps[1] = "role" /\ Steps[2] = "org" /\ Steps[3] = "tag" /\ Steps[4] = "user"
  /\ Steps[5] = "server" /\ Steps[6] = "list" /\ Steps[7] = "lists_off" /\ Steps[8] = "group"
  /\ Steps[9] = "users_off" /\ Steps[10] = "servers_off"
  BY DEF Steps

LEMMA OffNames ==
  /\ DOMAIN Off = {"lists_off", "users_off", "servers_off"}
  /\ Off["lists_off"] = "list" /\ Off["users_off"] = "user" /\ Off["servers_off"] = "server"
  BY DEF Off

LEMMA TenSteps ==
  \A p \in 1..10 : p = 1 \/ p = 2 \/ p = 3 \/ p = 4 \/ p = 5 \/ p = 6 \/ p = 7 \/ p = 8 \/ p = 9 \/ p = 10
  OBVIOUS

(* Every kind has its step, and users, servers and lists one more.          *)
LEMMA Places ==
  ASSUME NEW p \in 1..10
  PROVE  /\ Steps[p] \in DOMAIN Off <=> p \in {7, 9, 10}
         /\ \A kind \in KindName : Steps[p] = kind <=> p = Place(kind)
         /\ p \notin {7, 9, 10} => Steps[p] \in KindName
         /\ p \in {7, 9, 10} => Off[Steps[p]] \in KindName
         /\ p \in {7, 9, 10} => \A kind \in KindName : Off[Steps[p]] = kind <=> p = OffPlace(kind)
<1>1. Steps[p] \in DOMAIN Off <=> p \in {7, 9, 10}
  BY StepNames, OffNames, TenSteps
<1>2. \A kind \in KindName : Steps[p] = kind <=> p = Place(kind)
  BY DEF Steps, Place, KindName
<1>3. p \notin {7, 9, 10} => Steps[p] \in KindName
  BY StepNames, TenSteps DEF KindName
<1>4. p \in {7, 9, 10} => Off[Steps[p]] \in KindName
  BY StepNames, OffNames DEF KindName
<1>5. ASSUME p \in {7, 9, 10}, NEW kind \in KindName
      PROVE  Off[Steps[p]] = kind <=> p = OffPlace(kind)
  <2>1. CASE p = 7
    BY <1>5, <2>1, StepNames, OffNames DEF OffPlace, KindName
  <2>2. CASE p = 9
    BY <1>5, <2>2, StepNames, OffNames DEF OffPlace, KindName
  <2>3. CASE p = 10
    BY <1>5, <2>3, StepNames, OffNames DEF OffPlace, KindName
  <2>4. QED
    BY <1>5, <2>1, <2>2, <2>3
<1>6. QED
  BY <1>1, <1>2, <1>3, <1>4, <1>5

LEMMA KindNames == \A i \in Item : Kind[i] \in KindName
  BY SyncAssumption DEF KindName

LEMMA PlaceBounds ==
  \A kind \in KindName :
    /\ Place(kind) \in 1..8 /\ OffPlace(kind) \in 0..10
    /\ OffPlace(kind) # 0 => Place(kind) < OffPlace(kind)
    /\ kind \in {"user", "server", "list"} => OffPlace(kind) \in {7, 9, 10}
    /\ Place(kind) = 5 <=> kind = "server"
    /\ Place(kind) = 6 <=> kind = "list"
  BY DEF Place, OffPlace, KindName

(* What a step has to do is of its kind.                                    *)
LEMMA TodoOfStep ==
  ASSUME NEW r \in Run, NEW m, m.step \in 1..10, NEW i \in Item, file[r].items \subseteq Item,
         i \in Todo(r, m)
  PROVE  IF m.step \in {7, 9, 10}
         THEN /\ i \notin file[r].items /\ m.step = OffPlace(Kind[i])
              /\ Kind[i] \in file[r].disables /\ Kind[i] \in m.done
              /\ i \notin m.backed /\ m.known[i] \in {"on", "differs"}
         ELSE /\ i \in file[r].items /\ m.step = Place(Kind[i])
              /\ ~(Kind[i] = "list" /\ "list" \notin file[r].disables)
<1>1. CASE m.step \in {7, 9, 10}
  <2>1. Steps[m.step] \in DOMAIN Off
    BY <1>1, Places
  <2>2. i \in Unnamed(r, Off[Steps[m.step]], m) /\ Disables(r, Steps[m.step], m)
    BY <2>1 DEF Todo
  <2>3. Kind[i] = Off[Steps[m.step]]
    BY <2>2 DEF Unnamed
  <2>4. m.step = OffPlace(Kind[i])
    BY <2>3, <1>1, Places, KindNames
  <2>5. QED
    BY <1>1, <2>2, <2>3, <2>4 DEF Unnamed, Disables
<1>2. CASE m.step \notin {7, 9, 10}
  <2>1. Steps[m.step] \notin DOMAIN Off
    BY <1>2, Places
  <2>2. /\ i \in Named(r, Steps[m.step])
        /\ ~(Steps[m.step] = "list" /\ "list" \notin file[r].disables)
    BY <2>1 DEF Todo
  <2>3. Kind[i] = Steps[m.step] /\ i \in file[r].items
    BY <2>2 DEF Named
  <2>4. m.step = Place(Kind[i])
    BY <2>3, Places, KindNames
  <2>5. QED
    BY <1>2, <2>2, <2>3, <2>4
<1>3. QED
  BY <1>1, <1>2

(* What a step has not to do, although it is the item's step.               *)
LEMMA NotTodo ==
  ASSUME NEW r \in Run, NEW m, m.step \in 1..10, NEW i \in Item, i \notin Todo(r, m)
  PROVE  /\ i \in file[r].items /\ m.step = Place(Kind[i]) =>
              Kind[i] = "list" /\ "list" \notin file[r].disables
         /\ i \notin file[r].items /\ m.step = OffPlace(Kind[i]) /\ m.step # 0 =>
              \/ Kind[i] \notin file[r].disables \/ Kind[i] \notin m.done
              \/ i \in m.backed \/ m.known[i] \notin {"on", "differs"}
<1>1. ASSUME i \in file[r].items, m.step = Place(Kind[i])
      PROVE  Kind[i] = "list" /\ "list" \notin file[r].disables
  <2>1. Steps[m.step] = Kind[i]
    BY <1>1, Places, KindNames
  <2>2. Steps[m.step] \notin DOMAIN Off
    BY <2>1, KindNames, OffNames DEF KindName
  <2>3. i \in Named(r, Steps[m.step])
    BY <1>1, <2>1 DEF Named
  <2>4. QED
    BY <2>1, <2>2, <2>3 DEF Todo
<1>2. ASSUME i \notin file[r].items, m.step = OffPlace(Kind[i])
      PROVE  \/ Kind[i] \notin file[r].disables \/ Kind[i] \notin m.done
             \/ i \in m.backed \/ m.known[i] \notin {"on", "differs"}
  <2>1. m.step \in {7, 9, 10}
    BY <1>2, KindNames DEF OffPlace
  <2>2. Steps[m.step] \in DOMAIN Off /\ Off[Steps[m.step]] = Kind[i]
    BY <1>2, <2>1, Places, KindNames
  <2>3. QED
    BY <1>2, <2>2 DEF Todo, Unnamed, Disables
<1>3. QED
  BY <1>1, <1>2

-----------------------------------------------------------------------------
(* The memory of a run *)

KindAt(p) == IF p \in {7, 9, 10} THEN Off[Steps[p]] ELSE Steps[p]

(* The memory with which a run goes into its next step.                     *)
NextStep(r, m, n) ==
  /\ n.step = m.step + 1 /\ n.known = m.known /\ n.backed = m.backed /\ n.sent = m.sent
  /\ n.done = IF m.failed THEN m.done ELSE m.done \union {KindAt(m.step)}
  /\ n.todo = Todo(r, n)
  /\ n.failed = FALSE
  /\ n.errors = (m.errors \/ m.failed)
  /\ n.warm = m.warm /\ n.posted = m.posted

LEMMA TodoTypes ==
  ASSUME OrgSyncTypeOK, NEW r \in Run, NEW m
  PROVE  Todo(r, m) \subseteq Item
<1>1. file[r].items \subseteq Item
  BY SyncAssumption DEF OrgSyncTypeOK
<1>2. QED
  BY <1>1 DEF Todo, Unnamed, Named

(* No other run's memory changes.                                           *)
OnlyRun(r) == run' \in [Run -> Memory] /\ \A q \in Run : q # r => run'[q] = run[q]

LEMMA RemembersOnly ==
  ASSUME OrgSyncTypeOK, NEW r \in Run, NEW n \in Memory, run' = [run EXCEPT ![r] = n]
  PROVE  OnlyRun(r) /\ run'[r] = n
<1>1. run \in [Run -> Memory]
  BY DEF OrgSyncTypeOK
<1>2. QED
  BY <1>1 DEF OnlyRun

LEMMA MemoryTodo ==
  ASSUME NEW m \in Memory, NEW todo \in SUBSET Item
  PROVE  [m EXCEPT !.todo = todo] \in Memory
  BY DEF Memory

LEMMA Advances ==
  ASSUME OrgSyncTypeOK, NEW r \in Run, NEW m \in Memory, m.step = run[r].step, m.step # 10,
         Advance(r, m)
  PROVE  /\ UNCHANGED pc
         /\ OnlyRun(r)
         /\ NextStep(r, m, run'[r])
<1> DEFINE next == [m EXCEPT !.step = @ + 1, !.failed = FALSE, !.made = FALSE,
                             !.done = IF m.failed THEN @ ELSE @ \union {KindAt(m.step)},
                             !.errors = @ \/ m.failed]
           n == [next EXCEPT !.todo = Todo(r, next)]
<1>1. m.step \in 1..9
  BY StepNames DEF Memory
<1>2. (IF StepOf(r) \in DOMAIN Off THEN Off[StepOf(r)] ELSE StepOf(r)) = KindAt(m.step)
  BY <1>1, Places DEF StepOf, KindAt
<1>3. UNCHANGED pc /\ run' = [run EXCEPT ![r] = n]
  BY <1>2, Zenon DEF Advance, Remember
<1>4. KindAt(m.step) \in KindName
  BY <1>1, Places DEF KindAt
<1>5. next \in Memory
  <2>1. m.done \union {KindAt(m.step)} \in SUBSET KindName
    BY <1>4 DEF Memory, KindName
  <2>2. m.step + 1 \in DOMAIN Steps
    BY <1>1, StepNames
  <2>3. (m.errors \/ m.failed) \in BOOLEAN
    OBVIOUS
  <2>4. QED
    BY <2>1, <2>2, <2>3 DEF Memory, KindName
<1>6. Todo(r, next) = Todo(r, n)
  <2>1. n.step = next.step /\ n.done = next.done /\ n.known = next.known /\ n.backed = next.backed
    BY <1>5 DEF Memory
  <2>2. QED
    BY <2>1 DEF Todo, Unnamed, Disables
<1>7. n \in Memory
  <2>1. Todo(r, next) \in SUBSET Item
    BY TodoTypes, Zenon
  <2>2. QED
    BY <1>5, <2>1, MemoryTodo, Zenon
<1>8. NextStep(r, m, n)
  <2>1. n.step = m.step + 1 /\ n.known = m.known /\ n.backed = m.backed /\ n.sent = m.sent
    BY DEF Memory
  <2>2. n.done = IF m.failed THEN m.done ELSE m.done \union {KindAt(m.step)}
    BY DEF Memory
  <2>3. n.todo = Todo(r, n)
    BY <1>5, <1>6 DEF Memory
  <2>4. n.failed = FALSE
    BY DEF Memory
  <2>5. n.errors = (m.errors \/ m.failed)
    BY DEF Memory
  <2>6. n.warm = m.warm /\ n.posted = m.posted
    BY DEF Memory
  <2>7. QED
    BY <2>1, <2>2, <2>3, <2>4, <2>5, <2>6 DEF NextStep
<1>9. QED
  <2>1. OnlyRun(r) /\ run'[r] = n
    BY <1>3, <1>7, RemembersOnly, Zenon
  <2>2. QED
    BY <1>3, <1>8, <2>1, Zenon

(* What the items of a step do not change.                                  *)
StepKept(m, n) ==
  /\ n.step = m.step /\ n.known = m.known /\ n.backed = m.backed
  /\ n.done = m.done /\ n.errors = m.errors /\ n.warm = m.warm

(* One item of a step less.                                                 *)
Ticks(r, i) ==
  /\ At(r, "apply") /\ i \in run[r].todo /\ OnlyRun(r)
  /\ run'[r].todo = run[r].todo \ {i}
  /\ StepKept(run[r], run'[r])

LEMMA TickedFields ==
  ASSUME NEW m \in Memory, NEW i \in Item, NEW n, n = [m EXCEPT !.todo = @ \ {i}]
  PROVE  /\ n \in Memory /\ StepKept(m, n) /\ n.todo = m.todo \ {i} /\ n.sent = m.sent
         /\ n.failed = m.failed /\ n.posted = m.posted
  BY DEF Memory, StepKept

LEMMA FailedFields ==
  ASSUME NEW m \in Memory, NEW n, n = [m EXCEPT !.failed = TRUE]
  PROVE  /\ n \in Memory /\ StepKept(m, n) /\ n.todo = m.todo /\ n.sent = m.sent
         /\ n.failed = TRUE /\ n.posted = m.posted
  BY DEF Memory, StepKept

LEMMA PostedFields ==
  ASSUME NEW m \in Memory, NEW n, n = [m EXCEPT !.posted = TRUE]
  PROVE  /\ n \in Memory /\ StepKept(m, n) /\ n.todo = m.todo /\ n.sent = m.sent
         /\ n.posted = TRUE /\ n.failed = m.failed
  BY DEF Memory, StepKept

LEMMA FailingFields ==
  ASSUME NEW m \in Memory, NEW posted \in BOOLEAN, NEW n,
         n = [m EXCEPT !.failed = TRUE, !.posted = posted]
  PROVE  /\ n \in Memory /\ StepKept(m, n) /\ n.todo = m.todo /\ n.sent = m.sent
         /\ n.failed = TRUE /\ n.posted = posted
  BY DEF Memory, StepKept

LEMMA RefusedFields ==
  ASSUME NEW m \in Memory
  PROVE  /\ [m EXCEPT !.failed = TRUE, !.posted = TRUE]
              = [[m EXCEPT !.failed = TRUE] EXCEPT !.posted = TRUE]
         /\ [m EXCEPT !.posted = TRUE, !.failed = TRUE]
              = [[m EXCEPT !.posted = TRUE] EXCEPT !.failed = TRUE]
  BY DEF Memory

(* What a step does to the memory of its run.                               *)
LEMMA SkipTicks ==
  ASSUME OrgSyncTypeOK, NEW r \in Run, NEW i \in Item, Skip(r, i)
  PROVE  /\ Ticks(r, i) /\ run'[r].sent = run[r].sent /\ run'[r].failed = run[r].failed
         /\ run'[r].posted = run[r].posted
<1>1. run[r] \in Memory /\ At(r, "apply") /\ i \in run[r].todo
  BY DEF OrgSyncTypeOK, Skip
<1>2. OnlyRun(r) /\ run'[r] = Ticked(r, i)
  BY <1>1, TickedFields, RemembersOnly, Zenon DEF Skip, Remember, Ticked
<1>3. QED
  BY <1>1, <1>2, TickedFields DEF Ticks, Ticked

LEMMA TickedRun ==
  ASSUME OrgSyncTypeOK, NEW r \in Run, NEW i \in Item
  PROVE  /\ Ticked(r, i) \in Memory
         /\ StepKept(run[r], Ticked(r, i)) /\ Ticked(r, i).todo = run[r].todo \ {i}
         /\ Ticked(r, i).sent = run[r].sent
         /\ Ticked(r, i).failed = run[r].failed /\ Ticked(r, i).posted = run[r].posted
<1>1. run[r] \in Memory
  BY DEF OrgSyncTypeOK
<1>2. QED
  BY <1>1, TickedFields DEF Ticked

LEMMA FailsTicks ==
  ASSUME OrgSyncTypeOK, NEW r \in Run, NEW i \in Item, NEW posts \in BOOLEAN,
         At(r, "apply"), i \in run[r].todo, Fails(r, i, posts)
  PROVE  /\ Ticks(r, i) /\ run'[r].sent = run[r].sent /\ run'[r].failed = TRUE
         /\ ~posts => run'[r].posted = run[r].posted
<1>1. PICK m : m = Ticked(r, i)
  OBVIOUS
<1>2. m \in Memory
  BY <1>1, TickedRun
<1>3. PICK posted : posted = (m.posted \/ posts)
  OBVIOUS
<1>4. posted \in BOOLEAN
  BY <1>3
<1>5. ~posts => posted = m.posted
  <2>1. m.posted \in BOOLEAN
    BY <1>2 DEF Memory
  <2>2. QED
    BY <1>3, <2>1, Zenon
<1>6. PICK n : n = [m EXCEPT !.failed = TRUE, !.posted = posted]
  OBVIOUS
<1>7. run' = [run EXCEPT ![r] = n]
  BY <1>1, <1>3, <1>6, Zenon DEF Fails, Remember
<1>8. /\ n \in Memory /\ StepKept(m, n) /\ n.todo = m.todo /\ n.sent = m.sent
      /\ n.failed = TRUE /\ n.posted = posted
  BY <1>2, <1>4, <1>6, FailingFields, Zenon
<1>9. OnlyRun(r) /\ run'[r] = n
  BY <1>7, <1>8, RemembersOnly, Zenon
<1>10. Ticks(r, i) /\ run'[r].sent = run[r].sent /\ run'[r].failed = TRUE
  BY <1>1, <1>8, <1>9, TickedRun DEF Ticks, StepKept
<1>11. ~posts => run'[r].posted = run[r].posted
  BY <1>1, <1>5, <1>8, <1>9, TickedRun, Zenon
<1>12. QED
  BY <1>10, <1>11

LEMMA UnresolvedTicks ==
  ASSUME OrgSyncTypeOK, NEW r \in Run, NEW i \in Item, Unresolved(r, i)
  PROVE  /\ Ticks(r, i) /\ run'[r].sent = run[r].sent /\ run'[r].failed = TRUE
         /\ (Kind[i] = "group" => run[r].known[i] = "on") =>
              run'[r].posted = run[r].posted /\ misp' = misp
<1>1. PICK posts \in BOOLEAN : posts = (Kind[i] = "group" /\ run[r].known[i] # "on")
  OBVIOUS
<1>2. At(r, "apply") /\ i \in run[r].todo /\ Fails(r, i, posts)
  BY <1>1, Zenon DEF Unresolved
<1>3. /\ Ticks(r, i) /\ run'[r].sent = run[r].sent /\ run'[r].failed = TRUE
      /\ ~posts => run'[r].posted = run[r].posted
  BY <1>2, FailsTicks
<1>4. (Kind[i] = "group" => run[r].known[i] = "on") => misp' = misp
  BY DEF Unresolved
<1>5. QED
  BY <1>1, <1>3, <1>4

LEMMA MakeTicks ==
  ASSUME OrgSyncTypeOK, NEW r \in Run, NEW i \in Item, Make(r, i)
  PROVE  /\ Ticks(r, i) /\ run'[r].failed = run[r].failed /\ run'[r].posted = TRUE
         /\ run'[r].sent = IF i \in Server THEN [run[r].sent EXCEPT ![i] = file[r].key]
                           ELSE run[r].sent
<1> DEFINE keys == IF i \in Server THEN [run[r].sent EXCEPT ![i] = file[r].key] ELSE run[r].sent
<1>1. At(r, "apply") /\ i \in run[r].todo
  BY DEF Make, Makes
<1>2. PICK t : t = Ticked(r, i)
  OBVIOUS
<1>3. PICK made : made = (t.made \/ run[r].known[i] = "missing")
  OBVIOUS
<1>4. t \in Memory /\ made \in BOOLEAN
  BY <1>2, <1>3, TickedRun
<1>5. keys \in [Server -> Keys]
  BY DEF OrgSyncTypeOK, Keys, Memory
<1>6. PICK n : /\ n = [t EXCEPT !.made = made, !.posted = TRUE, !.sent = keys]
               /\ run' = [run EXCEPT ![r] = n]
  <2>1. t.sent = run[r].sent
    BY <1>2, TickedRun
  <2>2. run' = [run EXCEPT ![r] =
                 [t EXCEPT !.made = @ \/ run[r].known[i] = "missing", !.posted = TRUE,
                           !.sent = IF i \in Server THEN [@ EXCEPT ![i] = file[r].key] ELSE @]]
    BY <1>2, Zenon DEF Make, Remember
  <2>3. QED
    BY <2>1, <2>2, <1>3, Zenon
<1> HIDE DEF keys
<1>7. /\ n \in Memory /\ StepKept(t, n) /\ n.todo = t.todo
      /\ n.failed = t.failed /\ n.posted = TRUE /\ n.sent = keys
  <2>1. n \in Memory
    BY <1>4, <1>5, <1>6 DEF Memory
  <2>2. n.sent = keys /\ n.posted = TRUE
    BY <1>4, <1>6 DEF Memory
  <2>3. StepKept(t, n) /\ n.todo = t.todo /\ n.failed = t.failed
    BY <1>4, <1>6 DEF Memory, StepKept
  <2>4. QED
    BY <2>1, <2>2, <2>3
<1>8. OnlyRun(r) /\ run'[r] = n
  BY <1>6, <1>7, RemembersOnly, Zenon
<1>9. QED
  BY <1>1, <1>2, <1>7, <1>8, TickedRun DEF Ticks, StepKept, keys

LEMMA MakeFailsTicks ==
  ASSUME OrgSyncTypeOK, NEW r \in Run, NEW i \in Item, MakeFails(r, i)
  PROVE  /\ Ticks(r, i) /\ run'[r].sent = run[r].sent /\ run'[r].failed = TRUE
<1>1. At(r, "apply") /\ i \in run[r].todo /\ Fails(r, i, TRUE)
  BY DEF MakeFails, Makes
<1>2. QED
  BY <1>1, FailsTicks

LEMMA DisableTicks ==
  ASSUME OrgSyncTypeOK, NEW r \in Run, NEW i \in Item, Disable(r, i)
  PROVE  /\ Ticks(r, i) /\ run'[r].sent = run[r].sent
         /\ \/ misp' = [misp EXCEPT ![i] = "off"] /\ run'[r].failed = run[r].failed
            \/ misp' \in {misp, [misp EXCEPT ![i] = "off"]} /\ run'[r].failed = TRUE
<1>1. At(r, "apply") /\ i \in run[r].todo
  BY DEF Disable
<1>2. PICK m : m = [Ticked(r, i) EXCEPT !.posted = TRUE]
  OBVIOUS
<1>3. /\ m \in Memory /\ StepKept(Ticked(r, i), m) /\ m.todo = Ticked(r, i).todo
      /\ m.sent = Ticked(r, i).sent /\ m.failed = Ticked(r, i).failed
  BY <1>2, TickedRun, PostedFields, Zenon
<1>4. CASE run' = [run EXCEPT ![r] = m] /\ misp' = [misp EXCEPT ![i] = "off"]
  <2>1. OnlyRun(r) /\ run'[r] = m
    BY <1>3, <1>4, RemembersOnly, Zenon
  <2>2. QED
    BY <1>1, <1>3, <1>4, <2>1, TickedRun DEF Ticks, StepKept
<1>5. ASSUME run' = [run EXCEPT ![r] = [Ticked(r, i) EXCEPT !.posted = TRUE, !.failed = TRUE]],
             misp' \in {misp, [misp EXCEPT ![i] = "off"]}
      PROVE  /\ Ticks(r, i) /\ run'[r].sent = run[r].sent /\ run'[r].failed = TRUE
  <2>1. PICK n : /\ n = [Ticked(r, i) EXCEPT !.posted = TRUE, !.failed = TRUE]
                 /\ run' = [run EXCEPT ![r] = n]
    BY <1>5, Zenon
  <2>2. n = [m EXCEPT !.failed = TRUE]
    BY <1>2, <2>1, TickedRun, RefusedFields, Zenon
  <2>3. /\ n \in Memory /\ StepKept(m, n) /\ n.todo = m.todo /\ n.sent = m.sent
        /\ n.failed = TRUE
    BY <1>3, <2>2, FailedFields, Zenon
  <2>4. OnlyRun(r) /\ run'[r] = n
    BY <2>1, <2>3, RemembersOnly, Zenon
  <2>5. QED
    BY <1>1, <1>3, <2>3, <2>4, TickedRun DEF Ticks, StepKept
<1>6. QED
  BY <1>2, <1>4, <1>5 DEF Disable, Remember

(* What a run takes from a step to the next: some of the snapshot is new.   *)
Carries(r, m) ==
  /\ m \in Memory /\ m.step = run[r].step /\ m.done = run[r].done /\ m.errors = run[r].errors
  /\ m.warm = run[r].warm /\ m.posted = run[r].posted
  /\ \A i \in Item : m.known[i] = run[r].known[i] \/ m.known[i] = misp[i]
  /\ run[r].failed => m.failed
  /\ m.backed = IF run[r].step = 4 THEN backed ELSE run[r].backed
  /\ m.sent = IF run[r].step = 4 THEN sent ELSE run[r].sent

LEMMA RefreshedFields ==
  ASSUME OrgSyncTypeOK, NEW r \in Run, NEW kind, NEW m, m = Refreshed(r, kind)
  PROVE  /\ m \in Memory
         /\ m.step = run[r].step /\ m.done = run[r].done /\ m.errors = run[r].errors
         /\ m.warm = run[r].warm /\ m.posted = run[r].posted /\ m.failed = run[r].failed
         /\ m.backed = run[r].backed /\ m.sent = run[r].sent
         /\ \A i \in Item : m.known[i] = run[r].known[i] \/ m.known[i] = misp[i]
<1>1. run[r] \in Memory /\ misp \in [Item -> Level]
  BY DEF OrgSyncTypeOK
<1>2. PICK known : known = [i \in Item |-> IF Kind[i] = kind THEN misp[i] ELSE run[r].known[i]]
  OBVIOUS
<1>3. known \in [Item -> Level]
  BY <1>1, <1>2 DEF Memory
<1>4. m = [run[r] EXCEPT !.known = known]
  BY <1>2 DEF Refreshed
<1>5. m \in Memory /\ m.known = known
  BY <1>1, <1>3, <1>4 DEF Memory
<1>6. /\ m.step = run[r].step /\ m.done = run[r].done /\ m.errors = run[r].errors
      /\ m.warm = run[r].warm /\ m.posted = run[r].posted /\ m.failed = run[r].failed
      /\ m.backed = run[r].backed /\ m.sent = run[r].sent
  BY <1>1, <1>4 DEF Memory
<1>7. QED
  BY <1>2, <1>5, <1>6

LEMMA RefreshedCarries ==
  ASSUME OrgSyncTypeOK, NEW r \in Run, NEW kind, run[r].step # 4
  PROVE  Carries(r, Refreshed(r, kind))
  BY RefreshedFields DEF Carries

LEMMA KeptCarries ==
  ASSUME OrgSyncTypeOK, NEW r \in Run, run[r].step # 4
  PROVE  Carries(r, run[r])
<1>1. run[r] \in Memory
  BY DEF OrgSyncTypeOK
<1>2. QED
  BY <1>1 DEF Carries

LEMMA FailedCarries ==
  ASSUME OrgSyncTypeOK, NEW r \in Run, run[r].step # 4, NEW m, m = [run[r] EXCEPT !.failed = TRUE]
  PROVE  Carries(r, m) /\ m.failed
<1>1. run[r] \in Memory
  BY DEF OrgSyncTypeOK
<1>2. /\ m \in Memory /\ StepKept(run[r], m) /\ m.sent = run[r].sent /\ m.failed = TRUE
      /\ m.posted = run[r].posted
  BY <1>1, FailedFields, Zenon
<1>3. QED
  BY <1>2 DEF Carries, StepKept

(* The end of the step of users reads the logins and the digests again.     *)
LEMMA UsersCarry ==
  ASSUME OrgSyncTypeOK, NEW r \in Run, NEW kind, NEW m,
         m = [Refreshed(r, kind) EXCEPT !.backed = IF run[r].step = 4 THEN backed ELSE @,
                                        !.sent = IF run[r].step = 4 THEN sent ELSE @]
  PROVE  Carries(r, m)
<1>1. PICK t : t = Refreshed(r, kind)
  OBVIOUS
<1>2. t \in Memory /\ backed \subseteq Item /\ sent \in [Server -> Keys]
  BY <1>1, RefreshedFields DEF OrgSyncTypeOK
<1>3. PICK users, keys : /\ users = IF run[r].step = 4 THEN backed ELSE run[r].backed
                         /\ keys = IF run[r].step = 4 THEN sent ELSE run[r].sent
  OBVIOUS
<1>4. users \subseteq Item /\ keys \in [Server -> Keys]
  BY <1>2, <1>3 DEF OrgSyncTypeOK, Memory
<1>5. m = [t EXCEPT !.backed = users, !.sent = keys]
  <2>1. t.backed = run[r].backed /\ t.sent = run[r].sent
    BY <1>1, RefreshedFields
  <2>2. m = [t EXCEPT !.backed = IF run[r].step = 4 THEN backed ELSE t.backed,
                      !.sent = IF run[r].step = 4 THEN sent ELSE t.sent]
    BY <1>1, <1>2 DEF Memory
  <2>3. QED
    BY <1>3, <2>1, <2>2, Zenon
<1>6. m \in Memory /\ m.backed = users /\ m.sent = keys
  BY <1>2, <1>4, <1>5 DEF Memory
<1>7. /\ m.step = t.step /\ m.done = t.done /\ m.errors = t.errors /\ m.warm = t.warm
      /\ m.posted = t.posted /\ m.failed = t.failed /\ m.known = t.known
  BY <1>2, <1>5 DEF Memory
<1>8. QED
  BY <1>1, <1>3, <1>6, <1>7, RefreshedFields DEF Carries

LEMMA StepsAt ==
  ASSUME OrgSyncTypeOK, NEW r \in Run
  PROVE  /\ run[r].step \in 1..10
         /\ \A kind \in KindName : StepOf(r) = kind <=> run[r].step = Place(kind)
         /\ StepOf(r) = "lists_off" <=> run[r].step = 7
         /\ StepOf(r) = "users_off" <=> run[r].step = 9
         /\ StepOf(r) = "servers_off" <=> run[r].step = 10
         /\ StepOf(r) \in DOMAIN Off <=> run[r].step \in {7, 9, 10}
<1>1. run[r].step \in 1..10
  BY StepNames DEF OrgSyncTypeOK, Memory
<1>2. /\ StepOf(r) = "lists_off" <=> run[r].step = 7
      /\ StepOf(r) = "users_off" <=> run[r].step = 9
      /\ StepOf(r) = "servers_off" <=> run[r].step = 10
  BY <1>1, StepNames, TenSteps DEF StepOf
<1>3. QED
  BY <1>1, <1>2, Places DEF StepOf

(* The run goes to its next step, or ends with an error.                    *)
GoesOn(r) ==
  /\ UNCHANGED pc /\ OnlyRun(r)
  /\ \E m \in Memory : /\ Carries(r, m) /\ NextStep(r, m, run'[r])
                       /\ run[r].step = 5 => sent' = run[r].sent \/ m.failed
GivesUp(r) == Goto(r, "failing") /\ UNCHANGED run

LEMMA CarriedOn ==
  ASSUME OrgSyncTypeOK, NEW r \in Run, NEW m, Carries(r, m), run[r].step # 10, Advance(r, m),
         run[r].step = 5 => sent' = run[r].sent \/ m.failed
  PROVE  GoesOn(r)
<1>1. m \in Memory /\ m.step = run[r].step
  BY DEF Carries
<1>2. UNCHANGED pc /\ OnlyRun(r) /\ NextStep(r, m, run'[r])
  BY <1>1, Advances
<1>3. QED
  BY <1>1, <1>2 DEF GoesOn

LEMMA StepEnds ==
  ASSUME OrgSyncTypeOK, NEW r \in Run,
         EndRefs(r) \/ EndTagsUsers(r) \/ EndServers(r) \/ EndStep(r)
  PROVE  /\ At(r, "apply") /\ run[r].todo = {}
         /\ GoesOn(r) \/ GivesUp(r)
         /\ run[r].step # 5 => UNCHANGED <<sent, doubt>>
<1>1. CASE EndRefs(r)
  <2>1. StepOf(r) \in {"role", "org"} /\ At(r, "apply") /\ run[r].todo = {}
    BY <1>1 DEF EndRefs, Ready, AtStep
  <2>2. run[r].step \in {1, 2}
    BY <2>1, StepsAt DEF KindName, Place
  <2>3. PICK m : /\ Carries(r, m)
                 /\ IF StepOf(r) = "org" /\ m.failed THEN Quit(r) ELSE Advance(r, m)
    <3>1. CASE run[r].made /\ (IF StepOf(r) = "org" /\ Refreshed(r, StepOf(r)).failed THEN Quit(r)
                               ELSE Advance(r, Refreshed(r, StepOf(r))))
      BY <2>2, <3>1, RefreshedCarries
    <3>2. CASE IF StepOf(r) = "org" /\ run[r].failed THEN Quit(r) ELSE Advance(r, run[r])
      BY <2>2, <3>2, KeptCarries
    <3>3. CASE IF StepOf(r) = "org" /\ [run[r] EXCEPT !.failed = TRUE].failed THEN Quit(r)
               ELSE Advance(r, [run[r] EXCEPT !.failed = TRUE])
      <4>1. PICK m : m = [run[r] EXCEPT !.failed = TRUE]
        OBVIOUS
      <4>2. Carries(r, m)
        BY <2>2, <4>1, FailedCarries
      <4>3. IF StepOf(r) = "org" /\ m.failed THEN Quit(r) ELSE Advance(r, m)
        BY <3>3, <4>1, Zenon
      <4>4. QED
        BY <4>2, <4>3
    <3>4. QED
      BY <1>1, <3>1, <3>2, <3>3 DEF EndRefs
  <2>4. Advance(r, m) => GoesOn(r)
    BY <2>2, <2>3, CarriedOn
  <2>5. Quit(r) => GivesUp(r)
    BY DEF Quit, GivesUp
  <2>6. UNCHANGED <<sent, doubt>>
    BY <1>1 DEF EndRefs
  <2>7. QED
    BY <2>1, <2>3, <2>4, <2>5, <2>6
<1>2. CASE EndTagsUsers(r)
  <2>1. StepOf(r) \in {"tag", "user"} /\ At(r, "apply") /\ run[r].todo = {}
    BY <1>2 DEF EndTagsUsers, Ready, AtStep
  <2>2. run[r].step \in {3, 4} /\ (StepOf(r) = "user" <=> run[r].step = 4)
    BY <2>1, StepsAt DEF KindName, Place
  <2>3. PICK m : m = [Refreshed(r, StepOf(r)) EXCEPT
                        !.backed = IF run[r].step = 4 THEN backed ELSE @,
                        !.sent = IF run[r].step = 4 THEN sent ELSE @]
    OBVIOUS
  <2>4. Carries(r, m)
    BY <2>3, UsersCarry, Zenon
  <2>5. Advance(r, m) \/ Quit(r)
    BY <1>2, <2>2, <2>3 DEF EndTagsUsers
  <2>6. Advance(r, m) => GoesOn(r)
    BY <2>2, <2>4, CarriedOn
  <2>7. Quit(r) => GivesUp(r)
    BY DEF Quit, GivesUp
  <2>8. UNCHANGED <<sent, doubt>>
    BY <1>2 DEF EndTagsUsers
  <2>9. QED
    BY <2>1, <2>5, <2>6, <2>7, <2>8
<1>3. CASE EndServers(r)
  <2>1. StepOf(r) = "server" /\ At(r, "apply") /\ run[r].todo = {}
    BY <1>3 DEF EndServers, Ready, AtStep
  <2>2. run[r].step = 5
    BY <2>1, StepsAt DEF KindName, Place
  <2>3. CASE sent' = run[r].sent /\ Advance(r, run[r])
    <3>1. Carries(r, run[r])
      BY <2>2, KeptCarries
    <3>2. QED
      BY <2>1, <2>2, <2>3, <3>1, CarriedOn
  <2>4. CASE Advance(r, [run[r] EXCEPT !.failed = TRUE])
    <3>1. PICK m : m = [run[r] EXCEPT !.failed = TRUE]
      OBVIOUS
    <3>2. Carries(r, m) /\ m.failed
      BY <2>2, <3>1, FailedCarries
    <3>3. Advance(r, m)
      BY <2>4, <3>1, Zenon
    <3>4. QED
      BY <2>1, <2>2, <3>2, <3>3, CarriedOn
  <2>5. QED
    BY <1>3, <2>3, <2>4 DEF EndServers
<1>4. CASE EndStep(r)
  <2>1. StepOf(r) \in {"list", "lists_off", "group", "users_off"}
        /\ At(r, "apply") /\ run[r].todo = {} /\ Advance(r, run[r])
        /\ UNCHANGED <<sent, doubt>>
    BY <1>4 DEF EndStep, Ready, AtStep, history, byOthers
  <2>2. run[r].step \in {6, 7, 8, 9}
    BY <2>1, StepsAt DEF KindName, Place
  <2>3. Carries(r, run[r])
    BY <2>2, KeptCarries
  <2>4. QED
    BY <2>1, <2>2, <2>3, CarriedOn
<1>5. QED
  BY <1>1, <1>2, <1>3, <1>4

LEMMA NoMemoryFields ==
  /\ NoMemory \in Memory
  /\ NoMemory.step = 1 /\ NoMemory.done = {} /\ NoMemory.todo = {}
  /\ NoMemory.failed = FALSE /\ NoMemory.errors = FALSE
  /\ NoMemory.warm = FALSE /\ NoMemory.posted = FALSE
<1>1. 1 \in DOMAIN Steps
  BY StepNames
<1>2. [i \in Item |-> "missing"] \in [Item -> Level]
  BY DEF Level
<1>3. [s \in Server |-> None] \in [Server -> Keys]
  BY DEF Keys
<1>4. NoMemory \in Memory
  BY <1>1, <1>2, <1>3 DEF NoMemory, Memory
<1>5. QED
  BY <1>4 DEF NoMemory

(* The snapshot.                                                            *)
LEMMA Fetched ==
  ASSUME OrgSyncTypeOK, NEW r \in Run, Fetch(r)
  PROVE  /\ OnlyRun(r)
         /\ run'[r].step = 1 /\ run'[r].known = misp /\ run'[r].backed = backed
         /\ run'[r].done = {} /\ run'[r].todo = Todo(r, run'[r])
         /\ run'[r].posted = FALSE
         /\ run'[r].errors = FALSE
         /\ run'[r].warm = (settled = file[r])
<1>1. PICK warm : warm = (settled = file[r])
  OBVIOUS
<1>2. warm \in BOOLEAN
  BY <1>1
<1>3. PICK m : m = [NoMemory EXCEPT !.known = misp, !.backed = backed, !.warm = warm]
  OBVIOUS
<1>4. PICK todo : todo = Todo(r, m)
  OBVIOUS
<1>5. PICK n : n = [m EXCEPT !.todo = todo]
  OBVIOUS
<1>6. m \in Memory
  BY <1>2, <1>3, NoMemoryFields DEF OrgSyncTypeOK, Memory
<1>7. /\ m.step = 1 /\ m.done = {} /\ m.known = misp /\ m.backed = backed
      /\ m.posted = FALSE /\ m.errors = FALSE /\ m.warm = warm
  <2>1. m.step = 1 /\ m.done = {} /\ m.known = misp /\ m.backed = backed
    BY <1>3, NoMemoryFields DEF Memory
  <2>2. m.posted = FALSE
    BY <1>3, NoMemoryFields DEF Memory
  <2>3. m.errors = FALSE
    BY <1>3, NoMemoryFields DEF Memory
  <2>4. m.warm = warm
    BY <1>3, NoMemoryFields DEF Memory
  <2>5. QED
    BY <2>1, <2>2, <2>3, <2>4
<1>8. n \in Memory
  BY <1>4, <1>5, <1>6, TodoTypes, MemoryTodo, Zenon
<1>9. /\ n.step = m.step /\ n.done = m.done /\ n.known = m.known /\ n.backed = m.backed
      /\ n.todo = todo /\ n.posted = m.posted /\ n.errors = m.errors /\ n.warm = m.warm
  BY <1>5, <1>6 DEF Memory
<1>10. n.todo = Todo(r, n)
  BY <1>4, <1>9 DEF Todo, Unnamed, Disables
<1>11. run' = [run EXCEPT ![r] = n]
  BY <1>1, <1>3, <1>4, <1>5, Zenon DEF Fetch, Remember
<1>12. OnlyRun(r) /\ run'[r] = n
  BY <1>8, <1>11, RemembersOnly, Zenon
<1>13. QED
  BY <1>1, <1>7, <1>9, <1>10, <1>12

LEMMA Unread ==
  ASSUME OrgSyncTypeOK, NEW r \in Run, ServersUnread(r)
  PROVE  /\ OnlyRun(r) /\ StepKept(run[r], run'[r]) /\ run'[r].sent = run[r].sent
         /\ run'[r].todo = {} /\ run'[r].failed = TRUE
         /\ run'[r].posted = run[r].posted
<1>1. run[r] \in Memory
  BY DEF OrgSyncTypeOK
<1>2. PICK m : m = [run[r] EXCEPT !.todo = {}, !.failed = TRUE]
  OBVIOUS
<1>3. m \in Memory /\ StepKept(run[r], m) /\ m.sent = run[r].sent /\ m.todo = {}
  BY <1>1, <1>2 DEF Memory, StepKept
<1>4. m.failed = TRUE /\ m.posted = run[r].posted
  BY <1>1, <1>2 DEF Memory
<1>5. OnlyRun(r) /\ run'[r] = m
  <2>1. run' = [run EXCEPT ![r] = m]
    BY <1>2, Zenon DEF ServersUnread, Remember
  <2>2. QED
    BY <1>3, <2>1, RemembersOnly, Zenon
<1>6. QED
  BY <1>3, <1>4, <1>5

LEMMA Forgotten ==
  ASSUME OrgSyncTypeOK, NEW r \in Run, run' = [run EXCEPT ![r] = NoMemory]
  PROVE  OnlyRun(r) /\ run'[r] = NoMemory
  BY NoMemoryFields, RemembersOnly, Zenon

-----------------------------------------------------------------------------
(* Types *)

LEMMA MISPTypes ==
  \A m \in MISPs : m.misp \in [Item -> Level] /\ m.key \in Keys /\ m.of \in Files \union {None}
<1>1. /\ FreshMISP.misp \in [Item -> Level] /\ FreshMISP.key \in Keys
      /\ FreshMISP.of \in Files \union {None}
  BY DEF FreshMISP, Level, Keys
<1>2. ASSUME NEW f \in Files
      PROVE  /\ MISPOf(f).misp \in [Item -> Level] /\ MISPOf(f).key \in Keys
             /\ MISPOf(f).of \in Files \union {None}
  BY DEF MISPOf, Level, Keys
<1>3. QED
  BY <1>1, <1>2 DEF MISPs

LEMMA TypesInit == Init => OrgSyncTypeOK
<1> SUFFICES ASSUME Init PROVE OrgSyncTypeOK
  OBVIOUS
<1>1. Lock!LockTypeOK
  BY DEF Init, Lock!LockInit, Lock!LockTypeOK
<1>2. /\ misp \in [Item -> Level] /\ key \in [Server -> Keys] /\ sent \in [Server -> Keys]
      /\ settled \in Files \union {None}
  BY MISPTypes DEF Init
<1>3. run \in [Run -> Memory]
  BY NoMemoryFields DEF Init
<1>4. QED
  BY <1>1, <1>2, <1>3 DEF Init, OrgSyncTypeOK, PCs

LEMMA GotoTypes ==
  ASSUME OrgSyncTypeOK, NEW r \in Run, NEW step \in PCs, Goto(r, step)
  PROVE  pc' \in [Run -> PCs]
  BY DEF OrgSyncTypeOK, Goto

LEMMA LockTypes ==
  ASSUME Lock!LockTypeOK, NEW r \in Run,
         \/ Lock!Connect(r) \/ Lock!TryLock(r) \/ Lock!TimeOut(r) \/ Lock!PollFails(r)
         \/ Lock!Release(r) \/ Lock!Die(r) \/ Lock!SessionEnds(r)
  PROVE  Lock!LockTypeOK'
  BY DEF Lock!LockTypeOK, Lock!Connect, Lock!TryLock, Lock!TimeOut, Lock!PollFails, Lock!Release,
     Lock!Die, Lock!SessionEnds, Lock!HolderWithout

(* What a step leaves alone keeps its type.                                 *)
LEMMA MISPLevels ==
  ASSUME OrgSyncTypeOK, NEW i \in Item, NEW level \in Level, misp' = [misp EXCEPT ![i] = level]
  PROVE  misp' \in [Item -> Level]
  BY DEF OrgSyncTypeOK

LEMMA TakeTypes ==
  ASSUME OrgSyncTypeOK, NEW r \in Run, NEW i \in Item, NEW level \in Level, Take(r, i, level)
  PROVE  misp' \in [Item -> Level] /\ key' \in [Server -> Keys] /\ backed' = backed
<1>1. misp' \in [Item -> Level] /\ backed' = backed
  BY MISPLevels DEF Take
<1>2. file[r].key \in Keys
  BY DEF OrgSyncTypeOK, Keys
<1>3. key' \in [Server -> Keys]
  BY <1>2 DEF Take, SendsKey, OrgSyncTypeOK
<1>4. QED
  BY <1>1, <1>3

LEMMA MakeTypes ==
  ASSUME OrgSyncTypeOK, NEW r \in Run, NEW i \in Item, Make(r, i) \/ MakeFails(r, i)
  PROVE  misp' \in [Item -> Level] /\ key' \in [Server -> Keys] /\ backed' = backed
<1>1. "on" \in Level /\ "differs" \in Level
  BY DEF Level
<1>2. \/ UNCHANGED mispVars
      \/ Take(r, i, "on") \/ Take(r, i, "differs")
  BY DEF Make, MakeFails
<1>3. QED
  BY <1>1, <1>2, TakeTypes DEF mispVars, OrgSyncTypeOK

LEMMA TypesStep == OrgSyncTypeOK /\ [Next]_vars => OrgSyncTypeOK'
<1> SUFFICES ASSUME OrgSyncTypeOK, [Next]_vars PROVE OrgSyncTypeOK'
  OBVIOUS
<1> USE DEF lockVars, mispVars, history, byOthers
<1>1. ASSUME NEW r \in Run, Start(r) \/ NothingToApply(r) \/ Refuse(r) \/ TakeLock(r) \/ GiveUpLock(r)
      PROVE  OrgSyncTypeOK'
  <2>1. pc' \in [Run -> PCs]
    BY <1>1, GotoTypes DEF Start, NothingToApply, Refuse, TakeLock, GiveUpLock, PCs
  <2>2. Lock!LockTypeOK'
    BY <1>1, LockTypes DEF Start, NothingToApply, Refuse, TakeLock, GiveUpLock, OrgSyncTypeOK, Lock!LockTypeOK
  <2>3. UNCHANGED <<file, mispVars, sent, run, history>>
    BY <1>1 DEF Start, NothingToApply, Refuse, TakeLock, GiveUpLock
  <2>4. QED
    BY <2>1, <2>2, <2>3 DEF OrgSyncTypeOK
<1>2. ASSUME NEW r \in Run, Fetch(r)
      PROVE  OrgSyncTypeOK'
  <2>1. pc' \in [Run -> PCs]
    BY <1>2, GotoTypes DEF Fetch, PCs
  <2>2. run' \in [Run -> Memory]
    BY <1>2, Fetched DEF OnlyRun
  <2>3. /\ UNCHANGED <<lockVars, file, mispVars, sent, doubt>>
        /\ touched' = {} /\ late' = {} /\ settled' = None
    BY <1>2 DEF Fetch
  <2>4. QED
    BY <2>1, <2>2, <2>3 DEF OrgSyncTypeOK, Lock!LockTypeOK
<1>3. ASSUME NEW r \in Run, FetchFails(r) \/ EndApply(r)
      PROVE  OrgSyncTypeOK'
  <2>1. pc' \in [Run -> PCs]
    BY <1>3, GotoTypes DEF FetchFails, EndApply, Quit, PCs
  <2>2. UNCHANGED <<lockVars, file, mispVars, sent, run, touched, late, doubt, settled>>
    BY <1>3 DEF FetchFails, EndApply, Quit
  <2>3. QED
    BY <2>1, <2>2 DEF OrgSyncTypeOK, Lock!LockTypeOK
<1>4. ASSUME NEW r \in Run, EndRefs(r) \/ EndTagsUsers(r) \/ EndServers(r) \/ EndStep(r)
      PROVE  OrgSyncTypeOK'
  <2>1. pc' \in [Run -> PCs] /\ run' \in [Run -> Memory]
    BY <1>4, StepEnds, GotoTypes DEF GoesOn, GivesUp, OnlyRun, PCs, OrgSyncTypeOK
  <2>2. sent' \in [Server -> Keys] /\ doubt' \subseteq Server
    BY <1>4 DEF EndRefs, EndTagsUsers, EndServers, EndStep, OrgSyncTypeOK, Memory
  <2>3. UNCHANGED <<lockVars, file, mispVars, touched, settled>> /\ late' \in {late, {}}
    BY <1>4 DEF EndRefs, EndTagsUsers, EndServers, EndStep
  <2>4. QED
    BY <2>1, <2>2, <2>3 DEF OrgSyncTypeOK, Lock!LockTypeOK
<1>5. ASSUME NEW r \in Run, ServersUnread(r)
      PROVE  OrgSyncTypeOK'
  <2>1. run' \in [Run -> Memory]
    BY <1>5, Unread DEF OnlyRun
  <2>2. UNCHANGED <<lockVars, pc, file, mispVars, sent, touched, late, doubt, settled>>
    BY <1>5 DEF ServersUnread
  <2>3. QED
    BY <2>1, <2>2 DEF OrgSyncTypeOK, Lock!LockTypeOK
<1>6. ASSUME NEW r \in Run, ReleaseLock(r) \/ Die(r)
      PROVE  OrgSyncTypeOK'
  <2>1. pc' \in [Run -> PCs]
    BY <1>6, GotoTypes DEF ReleaseLock, Die, PCs, OrgSyncTypeOK
  <2>2. run' \in [Run -> Memory]
    BY <1>6, Forgotten DEF ReleaseLock, Die, OnlyRun
  <2>3. Lock!LockTypeOK'
    BY <1>6, LockTypes DEF ReleaseLock, Die, OrgSyncTypeOK
  <2>4. settled' \in Files \union {None} /\ doubt' \subseteq Server
    BY <1>6 DEF ReleaseLock, Die, OrgSyncTypeOK
  <2>5. UNCHANGED <<file, mispVars, sent, touched, late>>
    BY <1>6 DEF ReleaseLock, Die
  <2>6. QED
    BY <2>1, <2>2, <2>3, <2>4, <2>5 DEF OrgSyncTypeOK
<1>7. ASSUME NEW r \in Run, SessionEnds(r)
      PROVE  OrgSyncTypeOK'
  <2>1. Lock!LockTypeOK'
    BY <1>7, LockTypes DEF SessionEnds, OrgSyncTypeOK
  <2>2. QED
    BY <1>7, <2>1 DEF SessionEnds, OrgSyncTypeOK
<1>8. ASSUME NEW r \in Run, NEW i \in Item,
             Skip(r, i) \/ Unresolved(r, i) \/ Make(r, i) \/ MakeFails(r, i) \/ Disable(r, i)
      PROVE  OrgSyncTypeOK'
  <2>1. run' \in [Run -> Memory]
    BY <1>8, SkipTicks, UnresolvedTicks, MakeTicks, MakeFailsTicks, DisableTicks DEF Ticks, OnlyRun
  <2>2. misp' \in [Item -> Level] /\ key' \in [Server -> Keys] /\ backed' = backed
    <3>1. CASE Skip(r, i)
      BY <3>1 DEF Skip, OrgSyncTypeOK
    <3>2. CASE Unresolved(r, i)
      <4>1. UNCHANGED <<key, backed>> /\ "differs" \in Level
        BY <3>2 DEF Unresolved, Level
      <4>2. misp' = misp \/ misp' = [misp EXCEPT ![i] = "differs"]
        BY <3>2 DEF Unresolved
      <4>3. QED
        BY <4>1, <4>2, MISPLevels DEF OrgSyncTypeOK
    <3>3. CASE Make(r, i) \/ MakeFails(r, i)
      BY <3>3, MakeTypes
    <3>4. CASE Disable(r, i)
      <4>1. misp' = [misp EXCEPT ![i] = "off"] \/ misp' = misp
        BY <3>4, DisableTicks
      <4>2. "off" \in Level /\ UNCHANGED <<key, backed>>
        BY <3>4 DEF Disable, Level
      <4>3. QED
        BY <4>1, <4>2, MISPLevels DEF OrgSyncTypeOK
    <3>5. QED
      BY <1>8, <3>1, <3>3, <3>4, <3>2
  <2>3. doubt' \subseteq Server
    <3>1. CASE MakeFails(r, i) \/ Make(r, i)
      BY <3>1 DEF Make, MakeFails, SendsKey, OrgSyncTypeOK
    <3>2. QED
      BY <1>8, <3>1 DEF Skip, Unresolved, Disable, OrgSyncTypeOK
  <2>4. UNCHANGED <<lockVars, pc, file, sent, touched, late, settled>>
    BY <1>8 DEF Skip, Unresolved, Make, MakeFails, Disable
  <2>5. QED
    BY <2>1, <2>2, <2>3, <2>4 DEF OrgSyncTypeOK, Lock!LockTypeOK
<1>9. ASSUME NEW i \in Item, Touch(i) \/ Login(i)
      PROVE  OrgSyncTypeOK'
  <2>1. misp' \in [Item -> Level] /\ key' \in [Server -> Keys]
    BY <1>9 DEF Touch, Login, OrgSyncTypeOK
  <2>2. backed' \subseteq Item /\ touched' \subseteq Item /\ late' \subseteq Item
    BY <1>9 DEF Touch, Login, OrgSyncTypeOK
  <2>3. doubt' \subseteq Server /\ settled' \in Files \union {None}
    <3>1. CASE Touch(i)
      <4>1. key' # key => i \in Server
        BY <3>1 DEF Touch
      <4>2. QED
        BY <3>1, <4>1 DEF Touch, OrgSyncTypeOK
    <3>2. CASE Login(i)
      BY <3>2 DEF Login, OrgSyncTypeOK
    <3>3. QED
      BY <1>9, <3>1, <3>2
  <2>4. UNCHANGED <<lockVars, pc, file, sent, run>>
    BY <1>9 DEF Touch, Login
  <2>5. QED
    BY <2>1, <2>2, <2>3, <2>4 DEF OrgSyncTypeOK, Lock!LockTypeOK
<1>10. CASE Migration
  <2>1. misp' \in [Item -> Level] /\ key' \in [Server -> Keys] /\ sent' \in [Server -> Keys]
    BY <1>10, MISPTypes DEF Migration
  <2>2. /\ backed' = {} /\ doubt' = {} /\ settled' = None
        /\ UNCHANGED <<lockVars, pc, file, run, touched, late>>
    BY <1>10 DEF Migration
  <2>3. QED
    BY <2>1, <2>2 DEF OrgSyncTypeOK, Lock!LockTypeOK
<1>11. CASE UNCHANGED vars
  BY <1>11 DEF vars, OrgSyncTypeOK, Lock!LockTypeOK
<1>12. QED
  BY <1>1, <1>2, <1>3, <1>4, <1>5, <1>6, <1>7, <1>8, <1>9, <1>10, <1>11 DEF Next

-----------------------------------------------------------------------------
(* The lock *)

UnderLock == {"fetch", "apply", "release", "failing"}
Alive(r) == client[r] # "gone"

(* A step of a run that leaves its lock alone.                              *)
LEMMA LockLeft ==
  ASSUME OrgSyncTypeOK, LockKept, UNCHANGED lockVars, NEW r \in Run, NEW step, Goto(r, step),
         step \in UnderLock <=> pc[r] \in UnderLock
  PROVE  LockKept'
<1>1. \A q \in Run : pc'[q] = IF q = r THEN step ELSE pc[q]
  BY DEF Goto, OrgSyncTypeOK
<1>2. QED
  BY <1>1 DEF lockVars, LockKept, UnderLock, Lock!HolderSession, Lock!Holds

LEMMA LockStep == OrgSyncTypeOK /\ LockKept /\ [Next]_vars => LockKept'
<1> SUFFICES ASSUME OrgSyncTypeOK, LockKept, [Next]_vars PROVE LockKept'
  OBVIOUS
<1>0. /\ client \in [Run -> {"out", "polling", "held", "gone"}]
      /\ backend \subseteq Run /\ holder \in Run \union {None} /\ lost \subseteq Run
      /\ pc \in [Run -> PCs] /\ None \notin Run
  BY SyncAssumption DEF OrgSyncTypeOK, Lock!LockTypeOK
<1> USE <1>0
<1>1. ASSUME NEW r \in Run, Start(r)
      PROVE  LockKept'
  BY <1>1 DEF Start, Lock!Connect, At, LockKept, Goto, PCs, Lock!HolderSession, Lock!Holds
<1>2. ASSUME NEW r \in Run, NothingToApply(r) \/ Refuse(r)
      PROVE  LockKept'
  <2>1. pc[r] = "start" /\ UNCHANGED lockVars /\ (Goto(r, "done") \/ Goto(r, "failed"))
    BY <1>2 DEF NothingToApply, Refuse, At
  <2>2. QED
    BY <2>1, LockLeft DEF UnderLock
<1>3. ASSUME NEW r \in Run, TakeLock(r)
      PROVE  LockKept'
  BY <1>3 DEF TakeLock, Lock!TryLock, At, LockKept, Goto, PCs, Lock!HolderSession, Lock!Holds
<1>4. ASSUME NEW r \in Run, GiveUpLock(r)
      PROVE  LockKept'
  <2>1. CASE Lock!TimeOut(r)
    BY <1>4, <2>1 DEF GiveUpLock, Lock!TimeOut, At, LockKept, Goto, PCs, Lock!HolderSession, Lock!Holds
  <2>2. CASE Lock!PollFails(r)
    BY <1>4, <2>2 DEF GiveUpLock, Lock!PollFails, At, LockKept, Goto, PCs, Lock!HolderSession, Lock!Holds
  <2>3. QED
    BY <1>4, <2>1, <2>2 DEF GiveUpLock
<1>5. ASSUME NEW r \in Run,
             \/ Fetch(r) \/ FetchFails(r) \/ EndRefs(r) \/ EndTagsUsers(r) \/ EndServers(r)
             \/ EndStep(r) \/ EndApply(r)
      PROVE  LockKept'
  <2>1. UNCHANGED lockVars
    BY <1>5 DEF Fetch, FetchFails, EndRefs, EndTagsUsers, EndServers, EndStep, EndApply
  <2>2. pc[r] \in UnderLock /\ (UNCHANGED pc \/ \E step \in UnderLock : Goto(r, step))
    <3>1. CASE Fetch(r) \/ FetchFails(r) \/ EndApply(r)
      BY <3>1 DEF Fetch, FetchFails, EndApply, Quit, At, Ready, AtStep, UnderLock
    <3>2. CASE EndRefs(r) \/ EndTagsUsers(r) \/ EndServers(r) \/ EndStep(r)
      <4>1. At(r, "apply") /\ (UNCHANGED pc \/ Goto(r, "failing"))
        BY <3>2, StepEnds DEF GoesOn, GivesUp
      <4>2. QED
        BY <4>1 DEF At, UnderLock
    <3>3. QED
      BY <1>5, <3>1, <3>2
  <2>3. CASE UNCHANGED pc
    BY <2>1, <2>3 DEF lockVars, LockKept, Lock!HolderSession, Lock!Holds
  <2>4. QED
    BY <2>1, <2>2, <2>3, LockLeft
<1>6. ASSUME NEW r \in Run, ReleaseLock(r)
      PROVE  LockKept'
  <2>1. /\ pc[r] \in UnderLock /\ client[r] = "held" /\ Lock!Release(r)
        /\ \A q \in Run : q # r => pc'[q] = pc[q]
        /\ pc'[r] \in {"done", "failed"}
    BY <1>6 DEF ReleaseLock, At, Goto, Lock!Release, UnderLock
  <2>2. QED
    BY <2>1 DEF Lock!Release, Lock!HolderWithout, LockKept, Lock!HolderSession, Lock!Holds
<1>7. ASSUME NEW r \in Run, Die(r)
      PROVE  LockKept'
  BY <1>7 DEF Die, Lock!Die, LockKept, Lock!HolderSession, Lock!Holds
<1>8. ASSUME NEW r \in Run, SessionEnds(r)
      PROVE  LockKept'
  BY <1>8 DEF SessionEnds, Lock!SessionEnds, Lock!HolderWithout, LockKept,
     Lock!HolderSession, Lock!Holds
<1>9. ASSUME UNCHANGED <<lockVars, pc>>
      PROVE  LockKept'
  BY <1>9 DEF lockVars, LockKept, Lock!HolderSession, Lock!Holds
<1>10. ASSUME NEW i \in Item, NEW r \in Run,
              \/ Skip(r, i) \/ Unresolved(r, i) \/ Make(r, i) \/ MakeFails(r, i) \/ Disable(r, i)
              \/ ServersUnread(r)
       PROVE  UNCHANGED <<lockVars, pc>>
  BY <1>10 DEF Skip, Unresolved, Make, MakeFails, Disable, ServersUnread
<1>11. ASSUME NEW r \in Run, ServersUnread(r)
       PROVE  UNCHANGED <<lockVars, pc>>
  BY <1>11 DEF ServersUnread
<1>12. ASSUME NEW i \in Item, Touch(i) \/ Login(i)
       PROVE  UNCHANGED <<lockVars, pc>>
  BY <1>12 DEF Touch, Login
<1>13. CASE Migration
  BY <1>9, <1>13 DEF Migration
<1>14. CASE UNCHANGED vars
  BY <1>9, <1>14 DEF vars
<1>15. QED
  BY <1>1, <1>2, <1>3, <1>4, <1>5, <1>6, <1>7, <1>8, <1>9, <1>10, <1>11, <1>12, <1>13, <1>14 DEF Next

(* Until a session is lost, one run at a time is under the lock, and the    *)
(* lock is its own.                                                         *)
LEMMA AloneAtWork ==
  ASSUME OrgSyncTypeOK, LockKept, lost = {}, NEW r \in Run, Alive(r), pc[r] \in UnderLock
  PROVE  holder = r /\ \A q \in Run : Alive(q) /\ pc[q] \in UnderLock => q = r
<1>1. \A q \in Run : Alive(q) /\ pc[q] \in UnderLock => holder = q
  <2>1. ASSUME NEW q \in Run, Alive(q), pc[q] \in UnderLock
        PROVE  holder = q
    <3>1. client[q] = "held"
      BY <2>1 DEF LockKept, Alive, UnderLock
    <3>2. q \in backend
      BY <3>1 DEF LockKept, Lock!HolderSession
    <3>3. QED
      BY <3>1, <3>2 DEF LockKept, Lock!HolderSession, Lock!Holds
  <2>2. QED
    BY <2>1
<1>2. QED
  BY <1>1

(* The dead stay dead and the lost stays lost.                              *)
LEMMA LockSteps ==
  ASSUME OrgSyncTypeOK, [Next]_vars
  PROVE  lost \subseteq lost' /\ \A r \in Run : Alive(r)' => Alive(r)
<1> USE DEF Alive, lockVars, OrgSyncTypeOK, Lock!LockTypeOK
<1>1. ASSUME NEW r \in Run, Start(r) \/ TakeLock(r) \/ GiveUpLock(r) \/ ReleaseLock(r)
      PROVE  lost \subseteq lost' /\ \A q \in Run : Alive(q)' => Alive(q)
  BY <1>1 DEF Start, TakeLock, GiveUpLock, ReleaseLock, Lock!Connect, Lock!TryLock,
     Lock!TimeOut, Lock!PollFails, Lock!Release
<1>2. ASSUME NEW r \in Run, Die(r) \/ SessionEnds(r)
      PROVE  lost \subseteq lost' /\ \A q \in Run : Alive(q)' => Alive(q)
  BY <1>2 DEF Die, SessionEnds, Lock!Die, Lock!SessionEnds
<1>3. ASSUME NEW r \in Run,
             \/ NothingToApply(r) \/ Refuse(r) \/ Fetch(r) \/ FetchFails(r) \/ EndRefs(r) \/ EndTagsUsers(r)
             \/ ServersUnread(r) \/ EndServers(r) \/ EndStep(r) \/ EndApply(r)
             \/ \E i \in Item : Skip(r, i) \/ Unresolved(r, i) \/ Make(r, i) \/ MakeFails(r, i)
                                \/ Disable(r, i)
      PROVE  UNCHANGED lockVars
  BY <1>3 DEF NothingToApply, Refuse, Fetch, FetchFails, EndRefs, EndTagsUsers, ServersUnread, EndServers, EndStep,
     EndApply, Skip, Unresolved, Make, MakeFails, Disable
<1>4. ASSUME NEW i \in Item, Touch(i) \/ Login(i)
      PROVE  UNCHANGED lockVars
  BY <1>4 DEF Touch, Login
<1>5. CASE Migration \/ UNCHANGED vars
  BY <1>5 DEF Migration, vars
<1>6. QED
  BY <1>1, <1>2, <1>3, <1>4, <1>5 DEF Next

-----------------------------------------------------------------------------
(* The inductive invariant *)

(* The step of apply at which the file is brought to item i, and whether the *)
(* run has not come to it yet.                                               *)
Turn(f, i) == IF i \in f.items THEN Place(Kind[i]) ELSE OffPlace(Kind[i])
Ahead(r, i) == i \in run[r].todo \/ run[r].step < Turn(file[r], i)

(* A run that has begun has something to apply.                             *)
Begun == {"lock", "fetch", "apply", "release", "failing"}
HasItems == \A r \in Run : pc[r] \in Begun => file[r].items # {}

TodoNarrows(r) == run[r].todo \subseteq Todo(r, run[r])

(* A kind is done only after its step, and one whose step failed is an error. *)
DoneInOrder(r) ==
  \A kind \in KindName :
    /\ kind \in run[r].done => Place(kind) < run[r].step
    /\ Place(kind) < run[r].step /\ kind \notin run[r].done => run[r].errors

RunsInOrder ==
  \A r \in Run :
    /\ At(r, "apply") => TodoNarrows(r) /\ DoneInOrder(r)
    /\ run[r].warm => At(r, "apply") \/ At(r, "release") \/ At(r, "failing")

(* The snapshot is right about what is still to come.                       *)
SnapshotHolds(r) ==
  \A i \in Item : i \notin touched /\ Ahead(r, i) => run[r].known[i] = misp[i]

(* The digests that the run goes by.                                        *)
KeyAt(r, i) == IF run[r].step <= 5 THEN run[r].sent[i] ELSE sent[i]

Made(r, i) ==
  \/ misp[i] = "on" /\ (i \in Server => KeyAt(r, i) = file[r].key)
  \/ Kind[i] = "list" /\ "list" \notin file[r].disables

(* The failure of an item counts: for its step, then for the run, and its   *)
(* kind is not done before the step that would disable some of it.          *)
Excused(r, i) ==
  IF run[r].step = Place(Kind[i]) THEN run[r].failed
  ELSE /\ run[r].errors
       /\ Kind[i] \in run[r].done => OffPlace(Kind[i]) \in 1..(run[r].step - 1)

NamedTells(r) ==
  \A i \in file[r].items : i \notin touched /\ ~Ahead(r, i) => Made(r, i) \/ Excused(r, i)

UnnamedTells(r) ==
  \A i \in Item \ file[r].items :
    /\ i \notin touched /\ ~Ahead(r, i)
    /\ Kind[i] \in file[r].disables /\ i \notin backed /\ Enabled(i)
    => run[r].errors \/ (run[r].step = OffPlace(Kind[i]) /\ run[r].failed)

BackedKnown(r) == run[r].backed \subseteq backed /\ backed \ late \subseteq run[r].backed

Working(r) == SnapshotHolds(r) /\ NamedTells(r) /\ UnnamedTells(r) /\ BackedKnown(r)

(* MISP has the key of which the row, or the run at its servers, has the    *)
(* digest, but for the doubtful ones.                                       *)
AtServers(r) == At(r, "apply") /\ run[r].step = 5
KeysTold ==
  /\ (\A r \in Run : ~AtServers(r)) => \A s \in Server : s \in doubt \/ key[s] = sent[s]
  /\ \A r \in Run : AtServers(r) => \A s \in Server :
       s \in doubt \/ key[s] = run[r].sent[s]

(* What the file says of item i is so in MISP, by the row of the digests.   *)
AsRow(f, i) ==
  IF i \in f.items
  THEN \/ misp[i] = "on" /\ (i \in Server => sent[i] = f.key)
       \/ Kind[i] = "list" /\ "list" \notin f.disables
  ELSE Kind[i] \in f.disables /\ i \notin backed => ~Enabled(i)

Released(r) == At(r, "release") => \A i \in Item : i \in touched \/ AsRow(file[r], i)

SettledHolds ==
  settled # None => /\ \A r \in Run : ~At(r, "apply") /\ ~At(r, "release")
                    /\ \A i \in Item : AsRow(settled, i)

(* What is left enabled of what the file does not name, the run will spare. *)
Spares(r) ==
  \A i \in Item \ file[r].items :
    Kind[i] \in file[r].disables /\ Enabled(i) => i \in run[r].backed

(* After a run that succeeded with the same file there is nothing to do.    *)
WarmHolds(r) ==
  run[r].warm /\ touched = {} =>
    /\ ~run[r].posted
    /\ At(r, "apply") => /\ run[r].known = misp
                         /\ Spares(r)
                         /\ \A i \in Item : AsRow(file[r], i)
                         /\ run[r].step = 5 => run[r].sent = sent

RowsInOrder ==
  lost = {} =>
    /\ \A r \in Run : At(r, "apply") => Working(r)
    /\ KeysTold
    /\ \A r \in Run : Released(r)
    /\ SettledHolds
    /\ \A r \in Run : WarmHolds(r)

SyncOrderly == OrgSyncTypeOK /\ LockKept /\ HasItems /\ RunsInOrder /\ RowsInOrder

-----------------------------------------------------------------------------
(* Who changes what *)

ItemAct(r, i) ==
  Skip(r, i) \/ Unresolved(r, i) \/ Make(r, i) \/ MakeFails(r, i) \/ Disable(r, i)
EndAct(r) == EndRefs(r) \/ EndTagsUsers(r) \/ EndServers(r) \/ EndStep(r)

(* The actions of a run under the lock.                                     *)
Works(r) ==
  \/ Fetch(r) \/ FetchFails(r) \/ EndAct(r) \/ ServersUnread(r) \/ EndApply(r) \/ ReleaseLock(r)
  \/ \E i \in Item : ItemAct(r, i)

(* The others, which change nothing but where the run is.                   *)
Waits(r) == Start(r) \/ NothingToApply(r) \/ Refuse(r) \/ TakeLock(r) \/ GiveUpLock(r) \/ SessionEnds(r)

LEMMA NextCases ==
  ASSUME [Next]_vars
  PROVE  \/ \E r \in Run : Works(r) \/ Waits(r) \/ Die(r)
         \/ Migration \/ UNCHANGED vars
         \/ \E i \in Item : Touch(i) \/ Login(i)
  BY Zenon DEF Next, Works, Waits, ItemAct, EndAct

LEMMA WorksUnderLock ==
  ASSUME NEW r \in Run, Works(r)
  PROVE  Alive(r) /\ pc[r] \in UnderLock
<1>1. CASE \E i \in Item : ItemAct(r, i)
  <2>1. At(r, "apply")
    BY <1>1 DEF ItemAct, Skip, Unresolved, Make, MakeFails, Makes, Disable
  <2>2. QED
    BY <2>1 DEF At, Alive, UnderLock
<1>2. CASE EndAct(r) \/ ServersUnread(r) \/ EndApply(r)
  <2>1. At(r, "apply")
    BY <1>2 DEF EndAct, EndRefs, EndTagsUsers, EndServers, EndStep, ServersUnread, EndApply,
       Ready, AtStep
  <2>2. QED
    BY <2>1 DEF At, Alive, UnderLock
<1>3. CASE Fetch(r) \/ FetchFails(r) \/ ReleaseLock(r)
  BY <1>3 DEF Fetch, FetchFails, ReleaseLock, At, Alive, UnderLock
<1>4. QED
  BY <1>1, <1>2, <1>3 DEF Works

(* The memory and the place of the other runs.                              *)
LEMMA OthersStay ==
  ASSUME OrgSyncTypeOK, NEW r \in Run, Works(r) \/ Waits(r) \/ Die(r)
  PROVE  /\ UNCHANGED file
         /\ \A q \in Run : q # r => run'[q] = run[q] /\ pc'[q] = pc[q] /\ client'[q] = client[q]
<1> USE DEF lockVars
<1>1. CASE \E i \in Item : ItemAct(r, i)
  <2>1. PICK i \in Item : ItemAct(r, i)
    BY <1>1
  <2>2. OnlyRun(r)
    BY <2>1, SkipTicks, UnresolvedTicks, MakeTicks, MakeFailsTicks, DisableTicks DEF ItemAct, Ticks
  <2>3. UNCHANGED <<file, pc, client>>
    BY <2>1 DEF ItemAct, Skip, Unresolved, Make, MakeFails, Disable
  <2>4. QED
    BY <2>2, <2>3 DEF OnlyRun
<1>2. CASE EndAct(r)
  <2>1. \A q \in Run : q # r => run'[q] = run[q] /\ pc'[q] = pc[q]
    BY <1>2, StepEnds DEF EndAct, GoesOn, GivesUp, OnlyRun, Goto, OrgSyncTypeOK
  <2>2. UNCHANGED <<file, client>>
    BY <1>2 DEF EndAct, EndRefs, EndTagsUsers, EndServers, EndStep
  <2>3. QED
    BY <2>1, <2>2
<1>3. CASE ServersUnread(r)
  BY <1>3, Unread DEF ServersUnread, OnlyRun
<1>4. CASE Fetch(r) \/ FetchFails(r) \/ EndApply(r)
  <2>1. \A q \in Run : q # r => run'[q] = run[q]
    BY <1>4, Fetched DEF FetchFails, EndApply, Quit, OnlyRun
  <2>2. \A q \in Run : q # r => pc'[q] = pc[q]
    BY <1>4 DEF Fetch, FetchFails, EndApply, Quit, Goto, OrgSyncTypeOK
  <2>3. UNCHANGED <<file, client>>
    BY <1>4 DEF Fetch, FetchFails, EndApply
  <2>4. QED
    BY <2>1, <2>2, <2>3
<1>5. CASE ReleaseLock(r) \/ Die(r)
  <2>1. \A q \in Run : q # r => run'[q] = run[q]
    BY <1>5, Forgotten DEF ReleaseLock, Die, OnlyRun
  <2>2. \A q \in Run : q # r => pc'[q] = pc[q] /\ client'[q] = client[q]
    BY <1>5 DEF ReleaseLock, Die, Goto, OrgSyncTypeOK, Lock!LockTypeOK, Lock!Release, Lock!Die
  <2>3. UNCHANGED file
    BY <1>5 DEF ReleaseLock, Die
  <2>4. QED
    BY <2>1, <2>2, <2>3
<1>6. CASE Waits(r)
  <2>1. \A q \in Run : q # r => pc'[q] = pc[q] /\ client'[q] = client[q]
    BY <1>6 DEF Waits, Start, NothingToApply, Refuse, TakeLock, GiveUpLock, SessionEnds, Goto, OrgSyncTypeOK,
       Lock!LockTypeOK, Lock!Connect, Lock!TryLock, Lock!TimeOut, Lock!PollFails, Lock!SessionEnds
  <2>2. UNCHANGED <<file, run>>
    BY <1>6 DEF Waits, Start, NothingToApply, Refuse, TakeLock, GiveUpLock, SessionEnds
  <2>3. QED
    BY <2>1, <2>2
<1>7. QED
  BY <1>1, <1>2, <1>3, <1>4, <1>5, <1>6 DEF Works

-----------------------------------------------------------------------------
(* The runs *)

(* The same step, with fewer items to go.                                   *)
LEMMA StepGoesOn ==
  ASSUME OrgSyncTypeOK, NEW r \in Run, UNCHANGED file, StepKept(run[r], run'[r]),
         run'[r].todo \subseteq run[r].todo
  PROVE  /\ TodoNarrows(r) => TodoNarrows(r)'
         /\ DoneInOrder(r) => DoneInOrder(r)'
<1>1. file'[r] = file[r]
  OBVIOUS
<1>2. Todo(r, run[r])' = Todo(r, run[r])
  BY <1>1 DEF Todo, Unnamed, Named, Disables, StepKept
<1>3. TodoNarrows(r) => TodoNarrows(r)'
  BY <1>2 DEF TodoNarrows
<1>4. DoneInOrder(r) => DoneInOrder(r)'
  BY DEF DoneInOrder, StepKept
<1>5. QED
  BY <1>3, <1>4

LEMMA FreshTodo ==
  ASSUME NEW r \in Run, UNCHANGED file, run'[r].todo = Todo(r, run'[r])
  PROVE  TodoNarrows(r)'
<1>1. PICK n : n = run'[r]
  OBVIOUS
<1>2. file'[r] = file[r]
  OBVIOUS
<1>3. Todo(r, run[r])' = Todo(r, n)
  BY <1>1, <1>2 DEF Todo, Unnamed, Named, Disables
<1>4. n.todo = Todo(r, n)
  BY <1>1
<1>5. QED
  BY <1>1, <1>3, <1>4 DEF TodoNarrows

(* The next step.                                                           *)
LEMMA StepComes ==
  ASSUME OrgSyncTypeOK, NEW r \in Run, UNCHANGED file, NEW m \in Memory, Carries(r, m),
         NextStep(r, m, run'[r]), DoneInOrder(r)
  PROVE  TodoNarrows(r)' /\ DoneInOrder(r)'
<1>1. TodoNarrows(r)'
  <2>1. run'[r].todo = Todo(r, run'[r])
    BY DEF NextStep
  <2>2. QED
    BY <2>1, FreshTodo
<1>2. /\ run[r].step \in 1..10 /\ m.step = run[r].step /\ m.done = run[r].done
      /\ run'[r].step = run[r].step + 1
      /\ run'[r].done = IF m.failed THEN run[r].done ELSE run[r].done \union {KindAt(run[r].step)}
  BY StepsAt DEF Carries, NextStep
<1>3. m.errors = run[r].errors
  BY DEF Carries
<1>4. run[r].errors \/ m.failed => run'[r].errors
  BY <1>3 DEF NextStep
<1>5. ASSUME NEW kind \in KindName
      PROVE  kind = KindAt(run[r].step)
               <=> run[r].step = Place(kind) \/ run[r].step = OffPlace(kind)
  <2>1. Place(kind) \notin {7, 9, 10} /\ OffPlace(kind) \in {0, 7, 9, 10}
    BY <1>5 DEF Place, OffPlace, KindName
  <2>2. QED
    BY <1>2, <1>5, <2>1, Places DEF KindAt
<1>6. ASSUME NEW kind \in KindName, kind \in run'[r].done
      PROVE  Place(kind) < run'[r].step
  <2>1. CASE kind \in run[r].done
    <3>1. Place(kind) < run[r].step
      BY <1>6, <2>1 DEF DoneInOrder
    <3>2. QED
      BY <1>2, <1>6, <3>1, PlaceBounds
  <2>2. CASE kind = KindAt(run[r].step)
    <3>1. Place(kind) \in 1..8 /\ (OffPlace(kind) # 0 => Place(kind) < OffPlace(kind))
          /\ OffPlace(kind) \in 0..10
      BY <1>6, PlaceBounds
    <3>2. run[r].step = Place(kind) \/ run[r].step = OffPlace(kind)
      BY <1>5, <1>6, <2>2
    <3>3. QED
      BY <1>2, <3>1, <3>2
  <2>3. QED
    BY <1>2, <1>6, <2>1, <2>2
<1>7. ASSUME NEW kind \in KindName, Place(kind) < run'[r].step, kind \notin run'[r].done
      PROVE  run'[r].errors
  <2>1. CASE Place(kind) < run[r].step
    <3>1. kind \notin run[r].done
      BY <1>2, <1>7
    <3>2. run[r].errors
      BY <1>7, <2>1, <3>1 DEF DoneInOrder
    <3>3. QED
      BY <1>4, <3>2
  <2>2. CASE Place(kind) = run[r].step
    <3>1. kind = KindAt(run[r].step)
      BY <1>5, <1>7, <2>2
    <3>2. m.failed
      BY <1>2, <1>7, <3>1
    <3>3. QED
      BY <1>4, <3>2
  <2>3. QED
    BY <1>2, <1>7, <2>1, <2>2, PlaceBounds
<1>8. QED
  BY <1>1, <1>6, <1>7 DEF DoneInOrder

LEMMA HasItemsStep == OrgSyncTypeOK /\ HasItems /\ [Next]_vars => HasItems'
<1> SUFFICES ASSUME OrgSyncTypeOK, HasItems, [Next]_vars, NEW r \in Run, pc'[r] \in Begun
             PROVE  file'[r].items # {}
  BY DEF HasItems
<1>1. ASSUME UNCHANGED file, pc'[r] = pc[r] \/ pc[r] \in Begun
      PROVE  file'[r].items # {}
  BY <1>1 DEF HasItems
<1>2. ASSUME NEW q \in Run, Works(q) \/ Waits(q) \/ Die(q), q # r
      PROVE  file'[r].items # {}
  BY <1>1, <1>2, OthersStay
<1>3. CASE Works(r)
  <2>1. UNCHANGED file /\ pc[r] \in Begun
    BY <1>3, OthersStay, WorksUnderLock DEF UnderLock, Begun
  <2>2. QED
    BY <1>1, <2>1
<1>4. CASE Waits(r) \/ Die(r)
  <2>1. UNCHANGED file
    BY <1>4, OthersStay
  <2>2. CASE Start(r)
    BY <2>1, <2>2 DEF Start
  <2>3. CASE NothingToApply(r) \/ Refuse(r)
    BY <2>3 DEF NothingToApply, Refuse, Goto, OrgSyncTypeOK, Begun
  <2>4. CASE TakeLock(r) \/ GiveUpLock(r)
    <3>1. pc[r] \in Begun
      BY <2>4 DEF TakeLock, GiveUpLock, At, Begun
    <3>2. QED
      BY <1>1, <2>1, <3>1
  <2>5. CASE SessionEnds(r) \/ Die(r)
    BY <1>1, <2>1, <2>5 DEF SessionEnds, Die
  <2>6. QED
    BY <1>4, <2>2, <2>3, <2>4, <2>5 DEF Waits
<1>5. ASSUME NEW i \in Item, Touch(i) \/ Login(i)
      PROVE  file'[r].items # {}
  BY <1>1, <1>5 DEF Touch, Login
<1>6. CASE Migration \/ UNCHANGED vars
  BY <1>1, <1>6 DEF Migration, vars
<1>7. QED
  BY <1>2, <1>3, <1>4, <1>5, <1>6, NextCases

LEMMA RunsInit == Init => RunsInOrder
  BY NoMemoryFields DEF Init, RunsInOrder, At

LEMMA RunsStep == OrgSyncTypeOK /\ RunsInOrder /\ [Next]_vars => RunsInOrder'
<1> SUFFICES ASSUME OrgSyncTypeOK, RunsInOrder, [Next]_vars, NEW r \in Run
             PROVE  /\ At(r, "apply")' => TodoNarrows(r)' /\ DoneInOrder(r)'
                    /\ run'[r].warm => At(r, "apply")' \/ At(r, "release")' \/ At(r, "failing")'
  BY DEF RunsInOrder
<1> DEFINE Goal == /\ At(r, "apply")' => TodoNarrows(r)' /\ DoneInOrder(r)'
                   /\ run'[r].warm => At(r, "apply")' \/ At(r, "release")' \/ At(r, "failing")'
<1>0. /\ At(r, "apply") => TodoNarrows(r) /\ DoneInOrder(r)
      /\ run[r].warm => At(r, "apply") \/ At(r, "release") \/ At(r, "failing")
  BY DEF RunsInOrder
<1>1. ASSUME run'[r] = run[r], pc'[r] = pc[r], client'[r] = client[r], UNCHANGED file
      PROVE  Goal
  <2>1. TodoNarrows(r)' = TodoNarrows(r) /\ DoneInOrder(r)' = DoneInOrder(r)
    BY <1>1 DEF TodoNarrows, Todo, Unnamed, Named, Disables, DoneInOrder
  <2>2. QED
    BY <1>0, <1>1, <2>1 DEF At
<1>2. ASSUME NEW q \in Run, Works(q) \/ Waits(q) \/ Die(q), q # r
      PROVE  Goal
  BY <1>1, <1>2, OthersStay
<1>3. CASE Waits(r)
  <2>1. run'[r] = run[r] /\ UNCHANGED file
    BY <1>3 DEF Waits, Start, NothingToApply, Refuse, TakeLock, GiveUpLock, SessionEnds
  <2>2. CASE SessionEnds(r)
    <3>1. UNCHANGED <<pc, client>>
      BY <2>2 DEF SessionEnds, Lock!SessionEnds
    <3>2. QED
      BY <1>1, <2>1, <3>1
  <2>3. CASE ~SessionEnds(r)
    <3>1. pc[r] \in {"start", "lock"} /\ pc'[r] \in {"lock", "fetch", "done", "failed"}
      BY <1>3, <2>3 DEF Waits, Start, NothingToApply, Refuse, TakeLock, GiveUpLock, At, Goto, OrgSyncTypeOK
    <3>2. ~run[r].warm
      BY <1>0, <3>1 DEF At
    <3>3. QED
      BY <2>1, <3>1, <3>2 DEF At
  <2>4. QED
    BY <2>2, <2>3
<1>4. CASE ReleaseLock(r) \/ Die(r)
  <2>1. ~run'[r].warm
    BY <1>4, Forgotten, NoMemoryFields DEF ReleaseLock, Die
  <2>2. ~At(r, "apply")'
    BY <1>4 DEF ReleaseLock, Die, Lock!Die, At, Goto, OrgSyncTypeOK, Lock!LockTypeOK
  <2>3. QED
    BY <2>1, <2>2
<1>5. CASE Fetch(r)
  <2>1. At(r, "apply")' /\ UNCHANGED file
    BY <1>5 DEF Fetch, At, Goto, OrgSyncTypeOK, lockVars
  <2>2. TodoNarrows(r)'
    <3>1. run'[r].todo = Todo(r, run'[r])
      BY <1>5, Fetched
    <3>2. QED
      BY <2>1, <3>1, FreshTodo
  <2>3. DoneInOrder(r)'
    <3>1. run'[r].done = {} /\ run'[r].step = 1
      BY <1>5, Fetched
    <3>2. QED
      BY <3>1, PlaceBounds DEF DoneInOrder
  <2>4. QED
    BY <2>1, <2>2, <2>3
<1>6. CASE FetchFails(r) \/ EndApply(r)
  <2>1. run'[r] = run[r] /\ client'[r] = client[r] /\ pc'[r] \in {"release", "failing"}
    BY <1>6 DEF FetchFails, EndApply, Quit, Goto, OrgSyncTypeOK, lockVars
  <2>2. At(r, "release")' \/ At(r, "failing")'
    BY <1>6, <2>1 DEF FetchFails, EndApply, Ready, AtStep, At
  <2>3. QED
    BY <2>1, <2>2 DEF At
<1>7. CASE EndAct(r)
  <2>1. At(r, "apply") /\ UNCHANGED <<file, client>> /\ (GoesOn(r) \/ GivesUp(r))
    BY <1>7, StepEnds DEF EndAct, EndRefs, EndTagsUsers, EndServers, EndStep, lockVars
  <2>2. CASE GoesOn(r)
    <3>1. At(r, "apply")'
      BY <2>1, <2>2 DEF GoesOn, At
    <3>2. PICK m \in Memory : Carries(r, m) /\ NextStep(r, m, run'[r])
      BY <2>2 DEF GoesOn
    <3>3. TodoNarrows(r)' /\ DoneInOrder(r)'
      BY <1>0, <2>1, <3>2, StepComes
    <3>4. QED
      BY <3>1, <3>3
  <2>3. CASE GivesUp(r)
    BY <2>1, <2>3 DEF GivesUp, At, Goto, OrgSyncTypeOK
  <2>4. QED
    BY <2>1, <2>2, <2>3
<1>8. ASSUME NEW i \in Item, ItemAct(r, i)
      PROVE  Goal
  <2>1. At(r, "apply") /\ StepKept(run[r], run'[r]) /\ run'[r].todo \subseteq run[r].todo
    BY <1>8, SkipTicks, UnresolvedTicks, MakeTicks, MakeFailsTicks, DisableTicks DEF ItemAct, Ticks
  <2>2. UNCHANGED <<file, pc, client>>
    BY <1>8 DEF ItemAct, Skip, Unresolved, Make, MakeFails, Disable, lockVars
  <2>3. TodoNarrows(r)' /\ DoneInOrder(r)'
    BY <1>0, <2>1, <2>2, StepGoesOn
  <2>4. QED
    BY <2>1, <2>2, <2>3 DEF At
<1>9. CASE ServersUnread(r)
  <2>1. At(r, "apply") /\ StepKept(run[r], run'[r]) /\ run'[r].todo \subseteq run[r].todo
    BY <1>9, Unread DEF ServersUnread, AtStep
  <2>2. UNCHANGED <<file, pc, client>>
    BY <1>9 DEF ServersUnread, lockVars
  <2>3. TodoNarrows(r)' /\ DoneInOrder(r)'
    BY <1>0, <2>1, <2>2, StepGoesOn
  <2>4. QED
    BY <2>1, <2>2, <2>3 DEF At
<1>10. ASSUME UNCHANGED <<run, pc, client, file>>
       PROVE  Goal
  BY <1>1, <1>10
<1>11. ASSUME NEW i \in Item, Touch(i) \/ Login(i)
       PROVE  Goal
  BY <1>10, <1>11 DEF Touch, Login, lockVars
<1>12. CASE Migration \/ UNCHANGED vars
  BY <1>10, <1>12 DEF Migration, vars, lockVars
<1>13. QED
  BY <1>2, <1>3, <1>4, <1>5, <1>6, <1>7, <1>8, <1>9, <1>11, <1>12, NextCases DEF Works

-----------------------------------------------------------------------------
(* The items *)

(* An item still to come is not at a step that is over.                     *)
LEMMA TodoTurn ==
  ASSUME OrgSyncTypeOK, NEW r \in Run, TodoNarrows(r), NEW i \in Item, i \in run[r].todo
  PROVE  /\ run[r].step = Turn(file[r], i)
         /\ IF i \in file[r].items
            THEN run[r].step = Place(Kind[i]) /\ ~(Kind[i] = "list" /\ "list" \notin file[r].disables)
            ELSE /\ run[r].step = OffPlace(Kind[i])
                 /\ Kind[i] \in file[r].disables /\ Kind[i] \in run[r].done
                 /\ i \notin run[r].backed /\ run[r].known[i] \in {"on", "differs"}
<1>1. i \in Todo(r, run[r]) /\ run[r].step \in 1..10 /\ file[r].items \subseteq Item
  BY StepsAt, SyncAssumption DEF TodoNarrows, OrgSyncTypeOK
<1>2. run[r].step \in {7, 9, 10} => run[r].step # Place(Kind[i])
  BY KindNames DEF Place
<1>3. QED
  BY <1>1, TodoOfStep DEF Turn

LEMMA TurnBounds ==
  ASSUME NEW f \in Files, NEW i \in Item
  PROVE  /\ Turn(f, i) \in 0..10
         /\ i \in f.items => Turn(f, i) = Place(Kind[i]) /\ Turn(f, i) \in 1..8
         /\ i \notin f.items => Turn(f, i) = OffPlace(Kind[i])
         /\ i \notin f.items /\ Kind[i] \in f.disables =>
              /\ Turn(f, i) \in {7, 9, 10}
              /\ Place(Kind[i]) < Turn(f, i)
<1>1. Kind[i] \in KindName /\ f.disables \subseteq {"user", "server", "list"}
  BY KindNames, SyncAssumption
<1>2. QED
  BY <1>1, PlaceBounds DEF Turn

(* Others change an item: it does not count any more.                       *)
LEMMA WorkingBeside ==
  ASSUME OrgSyncTypeOK, NEW r \in Run, Working(r), run'[r] = run[r], UNCHANGED <<file, sent>>,
         touched \subseteq touched', \A i \in Item : i \notin touched' => misp'[i] = misp[i],
         backed \subseteq backed', backed' \ late' \subseteq backed \ late
  PROVE  Working(r)'
<1>1. \A i \in Item : Ahead(r, i)' <=> Ahead(r, i)
  BY DEF Ahead, Turn
<1>2. SnapshotHolds(r)'
  BY <1>1 DEF Working, SnapshotHolds
<1>3. NamedTells(r)'
  <2>1. file[r].items \subseteq Item
    BY SyncAssumption DEF OrgSyncTypeOK
  <2>2. ASSUME NEW i \in file[r].items, i \notin touched', ~Ahead(r, i)'
        PROVE  Made(r, i)' \/ Excused(r, i)'
    <3>1. i \in Item /\ misp'[i] = misp[i] /\ ~Ahead(r, i) /\ i \notin touched
      BY <1>1, <2>1, <2>2
    <3>2. Made(r, i) \/ Excused(r, i)
      BY <3>1 DEF Working, NamedTells
    <3>3. QED
      BY <3>1, <3>2 DEF Made, Excused, KeyAt
  <2>3. QED
    BY <2>2 DEF NamedTells
<1>4. UnnamedTells(r)'
  BY <1>1 DEF Working, UnnamedTells, Enabled
<1>5. BackedKnown(r)'
  BY DEF Working, BackedKnown, OrgSyncTypeOK
<1>6. QED
  BY <1>2, <1>3, <1>4, <1>5 DEF Working

(* The run handles items of its step.                                       *)
LEMMA WorkingItems ==
  ASSUME OrgSyncTypeOK, NEW r \in Run, TodoNarrows(r), DoneInOrder(r), Working(r),
         StepKept(run[r], run'[r]), run'[r].todo \subseteq run[r].todo,
         run[r].failed => run'[r].failed,
         UNCHANGED <<file, sent, backed, touched, late>>,
         \A i \in Item : i \notin run[r].todo \/ i \in run'[r].todo =>
           misp'[i] = misp[i] /\ (i \in Server => run'[r].sent[i] = run[r].sent[i]),
         \A i \in Item : i \in run[r].todo /\ i \notin run'[r].todo /\ i \notin touched =>
           /\ i \in file[r].items => Made(r, i)' \/ run'[r].failed
           /\ i \notin file[r].items => misp'[i] = "off" \/ run'[r].failed
  PROVE  Working(r)'
<1>0. /\ run'[r].step = run[r].step /\ run'[r].known = run[r].known
      /\ run'[r].backed = run[r].backed /\ run'[r].done = run[r].done
  BY DEF StepKept
<1>e. run'[r].errors = run[r].errors
  BY DEF StepKept
<1>1. ASSUME NEW i \in Item, ~Ahead(r, i)'
      PROVE  ~Ahead(r, i) \/ (i \in run[r].todo /\ i \notin run'[r].todo)
  BY <1>0, <1>1 DEF Ahead, Turn
<1>2. SnapshotHolds(r)'
  <2>1. ASSUME NEW i \in Item, i \notin touched, Ahead(r, i)'
        PROVE  run[r].known[i] = misp'[i]
    <3>1. Ahead(r, i)
      BY <1>0, <2>1 DEF Ahead, Turn
    <3>2. i \notin run[r].todo \/ i \in run'[r].todo
      <4>1. CASE i \in run'[r].todo
        BY <4>1
      <4>2. CASE run[r].step < Turn(file[r], i)
        <5>1. run[r].step # Turn(file[r], i)
          BY <4>2, StepsAt, TurnBounds DEF OrgSyncTypeOK
        <5>2. QED
          BY <5>1, TodoTurn
      <4>3. QED
        BY <1>0, <2>1, <4>1, <4>2 DEF Ahead, Turn
    <3>3. QED
      BY <2>1, <3>1, <3>2 DEF Working, SnapshotHolds
  <2>2. QED
    BY <1>0, <2>1 DEF SnapshotHolds
<1>3. NamedTells(r)'
  <2>1. ASSUME NEW i \in file[r].items, i \notin touched, ~Ahead(r, i)'
        PROVE  Made(r, i)' \/ Excused(r, i)'
    <3>1. i \in Item
      BY SyncAssumption DEF OrgSyncTypeOK
    <3>2. CASE i \in run[r].todo /\ i \notin run'[r].todo
      <4>1. Made(r, i)' \/ run'[r].failed
        BY <2>1, <3>1, <3>2
      <4>2. run'[r].step = Place(Kind[i])
        BY <1>0, <3>1, <3>2, TodoTurn
      <4>3. QED
        BY <4>1, <4>2 DEF Excused
    <3>3. CASE ~Ahead(r, i) /\ ~(i \in run[r].todo /\ i \notin run'[r].todo)
      <4>1. Made(r, i) \/ Excused(r, i)
        BY <2>1, <3>3 DEF Working, NamedTells
      <4>2. misp'[i] = misp[i] /\ (i \in Server => run'[r].sent[i] = run[r].sent[i])
        BY <3>1, <3>3
      <4>3. Made(r, i) => Made(r, i)'
        BY <1>0, <4>2 DEF Made, KeyAt
      <4>4. Excused(r, i) => Excused(r, i)'
        BY <1>0, <1>e DEF Excused
      <4>5. QED
        BY <4>1, <4>3, <4>4
    <3>4. QED
      BY <1>1, <2>1, <3>1, <3>2, <3>3
  <2>2. QED
    BY <2>1 DEF NamedTells
<1>4. UnnamedTells(r)'
  <2>1. ASSUME NEW i \in Item \ file[r].items, i \notin touched, ~Ahead(r, i)',
               Kind[i] \in file[r].disables, i \notin backed, Enabled(i)'
        PROVE  run'[r].errors \/ (run'[r].step = OffPlace(Kind[i]) /\ run'[r].failed)
    <3>1. CASE i \in run[r].todo /\ i \notin run'[r].todo
      <4>1. misp'[i] # "off"
        BY <2>1 DEF Enabled
      <4>2. run'[r].failed
        BY <2>1, <3>1, <4>1
      <4>3. run'[r].step = OffPlace(Kind[i])
        BY <1>0, <2>1, <3>1, TodoTurn
      <4>4. QED
        BY <4>2, <4>3
    <3>2. CASE ~Ahead(r, i) /\ ~(i \in run[r].todo /\ i \notin run'[r].todo)
      <4>1. misp'[i] = misp[i]
        BY <3>2
      <4>2. run[r].errors \/ (run[r].step = OffPlace(Kind[i]) /\ run[r].failed)
        BY <2>1, <3>2, <4>1 DEF Working, UnnamedTells, Enabled
      <4>3. QED
        BY <1>0, <1>e, <4>2
    <3>3. QED
      BY <1>1, <2>1, <3>1, <3>2
  <2>2. QED
    BY <2>1 DEF UnnamedTells
<1>5. BackedKnown(r)'
  BY <1>0 DEF Working, BackedKnown
<1>6. QED
  BY <1>2, <1>3, <1>4, <1>5 DEF Working

(* The run goes to its next step.                                           *)
LEMMA WorkingOn ==
  ASSUME OrgSyncTypeOK, NEW r \in Run, DoneInOrder(r), Working(r),
         run[r].todo = {}, UNCHANGED <<file, misp, backed, touched>>, run[r].step = 4 \/ late' = late,
         NEW m \in Memory, Carries(r, m), NextStep(r, m, run'[r]), run'[r] \in Memory,
         DoneInOrder(r)',
         IF run[r].step = 5 THEN sent' = run[r].sent \/ m.failed ELSE sent' = sent
  PROVE  Working(r)'
<1> DEFINE p == run[r].step
<1>1. PICK n : n = run'[r]
  OBVIOUS
<1>2. /\ p \in 1..10 /\ n.step = p + 1 /\ n.step \in 1..10 /\ n.todo = Todo(r, n)
      /\ n.known = m.known
      /\ n.done = IF m.failed THEN run[r].done ELSE run[r].done \union {KindAt(p)}
      /\ n.backed = IF p = 4 THEN backed ELSE run[r].backed
      /\ n.sent = IF p = 4 THEN sent ELSE run[r].sent
  BY <1>1, StepsAt, StepNames DEF Carries, NextStep, Memory
<1>3. /\ run[r].errors => n.errors
      /\ m.failed => n.errors
      /\ run[r].failed => m.failed
  <2>1. run[r].errors => m.errors
    BY DEF Carries
  <2>2. run[r].failed => m.failed
    BY DEF Carries
  <2>3. m.errors \/ m.failed => n.errors
    BY <1>1 DEF NextStep
  <2>4. QED
    BY <2>1, <2>2, <2>3
<1>4. file[r] \in Files /\ file[r].items \subseteq Item /\ file'[r] = file[r]
  BY SyncAssumption DEF OrgSyncTypeOK
<1>5. ASSUME NEW i \in Item
      PROVE  /\ i \in Todo(r, n) => Turn(file[r], i) = p + 1
             /\ Turn(file[r], i) \in 0..10
  BY <1>2, <1>4, TodoOfStep, TurnBounds DEF Turn
<1>6. ASSUME NEW i \in Item
      PROVE  /\ Ahead(r, i) <=> p < Turn(file[r], i)
             /\ Ahead(r, i)' => Ahead(r, i)
             /\ ~Ahead(r, i)' => i \notin Todo(r, n) /\ Turn(file[r], i) <= p + 1
  <2>1. Ahead(r, i) <=> p < Turn(file[r], i)
    BY DEF Ahead
  <2>2. Ahead(r, i)' <=> i \in Todo(r, n) \/ p + 1 < Turn(file[r], i)
    BY <1>1, <1>2, <1>4 DEF Ahead, Turn
  <2>3. QED
    BY <1>2, <1>5, <2>1, <2>2
<1>7. SnapshotHolds(r)'
  <2>1. ASSUME NEW i \in Item, i \notin touched, Ahead(r, i)'
        PROVE  n.known[i] = misp[i]
    <3>1. run[r].known[i] = misp[i]
      BY <1>6, <2>1 DEF Working, SnapshotHolds
    <3>2. QED
      BY <1>2, <3>1 DEF Carries
  <2>2. QED
    BY <1>1, <2>1 DEF SnapshotHolds
<1>8. NamedTells(r)'
  <2>1. ASSUME NEW i \in file[r].items, i \notin touched, ~Ahead(r, i)', ~Made(r, i)'
        PROVE  Excused(r, i)'
    <3> DEFINE t == Place(Kind[i])
    <3>1. i \in Item /\ Kind[i] \in KindName /\ t \in 1..8 /\ Turn(file[r], i) = t
      BY <1>4, <2>1, KindNames, TurnBounds
    <3>2. t <= p + 1 /\ i \notin Todo(r, n)
      BY <1>6, <2>1, <3>1
    <3>3. t # p + 1
      <4>1. SUFFICES ASSUME t = p + 1 PROVE FALSE
        OBVIOUS
      <4>2. Kind[i] = "list" /\ "list" \notin file[r].disables
        BY <1>2, <2>1, <3>1, <3>2, <4>1, NotTodo
      <4>3. QED
        BY <1>4, <2>1, <4>2 DEF Made
    <3>4. t <= p /\ ~Ahead(r, i)
      BY <1>2, <1>6, <3>1, <3>2, <3>3
    <3>5. Made(r, i) => p = 5 /\ t = 5 /\ m.failed
      <4>1. SUFFICES ASSUME Made(r, i) PROVE p = 5 /\ t = 5 /\ m.failed
        OBVIOUS
      <4>2. misp[i] = "on" /\ i \in Server /\ KeyAt(r, i) = file[r].key /\ KeyAt(r, i)' # file[r].key
        BY <1>4, <2>1, <4>1 DEF Made
      <4>3. t = 5
        BY <4>2 DEF Server, Place
      <4>4. p >= 5
        BY <1>2, <3>4, <4>3
      <4>5. p = 5
        <5>1. SUFFICES ASSUME p > 5 PROVE FALSE
          BY <1>2, <4>4
        <5>2. KeyAt(r, i) = sent[i] /\ KeyAt(r, i)' = sent'[i] /\ sent' = sent
          BY <1>1, <1>2, <5>1 DEF KeyAt
        <5>3. QED
          BY <4>2, <5>2
      <4>6. KeyAt(r, i) = run[r].sent[i] /\ KeyAt(r, i)' = sent'[i]
        BY <1>1, <1>2, <4>5 DEF KeyAt
      <4>7. sent' # run[r].sent
        BY <4>2, <4>6
      <4>8. QED
        BY <4>3, <4>5, <4>7
    <3>6. ~Made(r, i) => Excused(r, i)
      BY <2>1, <3>4 DEF Working, NamedTells
    <3>7. CASE t = p
      <4>1. m.failed
        BY <1>3, <3>5, <3>6, <3>7 DEF Excused
      <4>2. Kind[i] \notin run[r].done
        BY <1>2, <3>1, <3>7 DEF DoneInOrder
      <4>3. n.errors /\ Kind[i] \notin n.done
        BY <1>2, <1>3, <4>1, <4>2
      <4>4. n.step # t
        BY <1>2, <3>7
      <4>5. QED
        BY <1>1, <4>3, <4>4 DEF Excused
    <3>8. CASE t < p
      <4>1. Excused(r, i)
        BY <1>2, <3>5, <3>6, <3>8
      <4>2. run[r].errors /\ (Kind[i] \in run[r].done => OffPlace(Kind[i]) \in 1..(p - 1))
        BY <1>2, <3>8, <4>1 DEF Excused
      <4>3. Kind[i] = KindAt(p) => p = OffPlace(Kind[i])
        BY <1>2, <3>1, <3>8, Places DEF KindAt
      <4>4. Kind[i] \in n.done => OffPlace(Kind[i]) \in 1..p
        <5>1. Kind[i] \in n.done => Kind[i] \in run[r].done \/ Kind[i] = KindAt(p)
          BY <1>2
        <5>2. QED
          BY <1>2, <4>2, <4>3, <5>1
      <4>5. n.errors /\ n.step # t
        BY <1>2, <1>3, <3>8, <4>2
      <4>6. n.step - 1 = p
        BY <1>2
      <4>7. QED
        BY <1>1, <4>4, <4>5, <4>6 DEF Excused
    <3>9. QED
      BY <1>2, <3>1, <3>4, <3>7, <3>8
  <2>2. QED
    BY <1>4, <2>1 DEF NamedTells
<1>9. UnnamedTells(r)'
  <2>1. ASSUME NEW i \in Item \ file[r].items, i \notin touched, ~Ahead(r, i)',
               Kind[i] \in file[r].disables, i \notin backed, Enabled(i)
        PROVE  n.errors
    <3> DEFINE t == Turn(file[r], i)
    <3>1. /\ t \in {7, 9, 10} /\ t = OffPlace(Kind[i]) /\ Place(Kind[i]) < t
          /\ Kind[i] \in KindName
      BY <1>4, <2>1, TurnBounds, KindNames
    <3>2. t <= p + 1 /\ i \notin Todo(r, n)
      BY <1>6, <2>1
    <3>3. CASE t = p + 1
      <4>1. \/ Kind[i] \notin n.done \/ i \in n.backed \/ n.known[i] \notin {"on", "differs"}
        <5>1. n.step = OffPlace(Kind[i]) /\ n.step # 0 /\ n.step \in 1..10
          BY <1>2, <3>1, <3>3
        <5>2. i \in Item /\ i \notin file[r].items /\ i \notin Todo(r, n)
          BY <2>1, <3>2
        <5>3. QED
          BY <2>1, <5>1, <5>2, NotTodo
      <4>2. i \notin n.backed
        BY <1>2, <2>1 DEF Working, BackedKnown
      <4>3. n.known[i] \in {"on", "differs"}
        <5>1. run[r].known[i] = misp[i]
          BY <1>2, <1>6, <2>1, <3>3 DEF Working, SnapshotHolds
        <5>2. QED
          BY <1>2, <2>1, <5>1 DEF Enabled, Carries
      <4>4. Kind[i] \notin n.done /\ Place(Kind[i]) < n.step
        BY <1>2, <3>1, <3>3, <4>1, <4>2, <4>3
      <4>5. QED
        BY <1>1, <3>1, <4>4 DEF DoneInOrder
    <3>4. CASE t <= p
      <4>1. ~Ahead(r, i)
        BY <1>2, <1>6, <3>1, <3>4
      <4>2. run[r].errors \/ run[r].failed
        BY <2>1, <4>1 DEF Working, UnnamedTells
      <4>3. QED
        BY <1>3, <4>2
    <3>5. QED
      BY <1>2, <3>1, <3>2, <3>3, <3>4
  <2>2. \A i \in Item : Enabled(i)' <=> Enabled(i)
    BY DEF Enabled
  <2>3. QED
    BY <1>1, <1>4, <2>1, <2>2 DEF UnnamedTells
<1>10. BackedKnown(r)'
  BY <1>1, <1>2 DEF Working, BackedKnown
<1>11. QED
  BY <1>7, <1>8, <1>9, <1>10 DEF Working

(* The run has its snapshot.                                                *)
LEMMA WorkingFirst ==
  ASSUME OrgSyncTypeOK, NEW r \in Run, Fetch(r)
  PROVE  Working(r)'
<1>1. PICK n : n = run'[r]
  OBVIOUS
<1>2. /\ n.step = 1 /\ n.known = misp /\ n.backed = backed /\ n.todo = Todo(r, n) /\ n.done = {}
  BY <1>1, Fetched
<1>3. /\ touched' = {} /\ UNCHANGED <<file, misp, backed>>
      /\ file[r] \in Files /\ file[r].items \subseteq Item /\ file'[r] = file[r]
  BY SyncAssumption DEF Fetch, mispVars, OrgSyncTypeOK
<1>4. SnapshotHolds(r)' /\ BackedKnown(r)'
  BY <1>1, <1>2, <1>3 DEF SnapshotHolds, BackedKnown
<1>5. ASSUME NEW i \in Item, ~Ahead(r, i)'
      PROVE  i \notin Todo(r, n) /\ Turn(file[r], i) \in 0..1
  <2>1. i \notin Todo(r, n) /\ ~(1 < Turn(file[r], i))
    BY <1>1, <1>2, <1>3, <1>5 DEF Ahead, Turn
  <2>2. QED
    BY <1>3, <2>1, TurnBounds
<1>6. NamedTells(r)'
  <2>1. ASSUME NEW i \in file[r].items, ~Ahead(r, i)'
        PROVE  Made(r, i)'
    <3>1. i \in Item /\ i \notin Todo(r, n) /\ 1 = Place(Kind[i])
      BY <1>3, <1>5, <2>1, TurnBounds
    <3>2. Kind[i] = "list" /\ "list" \notin file[r].disables
      BY <1>2, <2>1, <3>1, NotTodo
    <3>3. QED
      BY <1>3, <3>2 DEF Made
  <2>2. QED
    BY <1>3, <2>1 DEF NamedTells
<1>7. UnnamedTells(r)'
  BY <1>3, <1>5, TurnBounds DEF UnnamedTells
<1>8. QED
  BY <1>4, <1>6, <1>7 DEF Working

(* Where an item is handled, and what of MISP that touches.                 *)
LEMMA ItemPlace ==
  ASSUME OrgSyncTypeOK, NEW r \in Run, TodoNarrows(r), NEW i \in Item, ItemAct(r, i)
  PROVE  /\ At(r, "apply") /\ i \in run[r].todo
         /\ Disable(r, i) => i \notin file[r].items
         /\ ~Disable(r, i) => i \in file[r].items /\ (i \in Server <=> run[r].step = 5)
         /\ UNCHANGED <<lockVars, pc, file, sent, backed, touched, late, settled>>
<1>1. At(r, "apply") /\ i \in run[r].todo
  BY SkipTicks, UnresolvedTicks, MakeTicks, MakeFailsTicks, DisableTicks DEF ItemAct, Ticks
<1>2. Place(Kind[i]) \notin {7, 9, 10} /\ OffPlace(Kind[i]) \in {0, 7, 9, 10}
      /\ (Place(Kind[i]) = 5 <=> i \in Server)
  BY KindNames DEF Place, OffPlace, Server, KindName
<1>3. Disable(r, i) => i \notin file[r].items
  <2>1. Disable(r, i) => run[r].step \in {7, 9, 10}
    BY StepsAt DEF Disable
  <2>2. QED
    BY <1>1, <1>2, <2>1, TodoTurn
<1>4. ~Disable(r, i) => i \in file[r].items /\ (i \in Server <=> run[r].step = 5)
  <2>1. ~Disable(r, i) => run[r].step \notin {7, 9, 10} /\ run[r].step \in 1..10
    BY StepsAt DEF ItemAct, Skip, Unresolved, Make, MakeFails, Makes
  <2>2. QED
    BY <1>1, <1>2, <2>1, TodoTurn
<1>5. UNCHANGED <<lockVars, pc, file, sent, touched, late, settled>>
  BY DEF ItemAct, Skip, Unresolved, Make, MakeFails, Disable, history, byOthers
<1>6. backed' = backed
  BY MakeTypes DEF ItemAct, Skip, Unresolved, Disable, mispVars
<1>7. QED
  BY <1>1, <1>3, <1>4, <1>5, <1>6

LEMMA ItemEffects ==
  ASSUME OrgSyncTypeOK, NEW r \in Run, NEW i \in Item, ItemAct(r, i)
  PROVE  /\ Ticks(r, i)
         /\ \A j \in Item : j # i => misp'[j] = misp[j]
         /\ \A j \in Server : j # i => run'[r].sent[j] = run[r].sent[j] /\ key'[j] = key[j]
         /\ run[r].failed => run'[r].failed
<1>1. CASE Skip(r, i)
  <2>1. Ticks(r, i) /\ run'[r].sent = run[r].sent /\ (run[r].failed => run'[r].failed)
    BY <1>1, SkipTicks
  <2>2. QED
    BY <1>1, <2>1 DEF Skip, mispVars
<1>2. CASE Unresolved(r, i)
  <2>1. Ticks(r, i) /\ run'[r].sent = run[r].sent /\ run'[r].failed
    BY <1>2, UnresolvedTicks
  <2>2. key' = key /\ misp' \in {misp, [misp EXCEPT ![i] = "differs"]}
    BY <1>2 DEF Unresolved
  <2>3. QED
    BY <2>1, <2>2 DEF OrgSyncTypeOK
<1>3. CASE Make(r, i)
  <2>1. /\ Ticks(r, i) /\ run'[r].failed = run[r].failed
        /\ run'[r].sent = IF i \in Server THEN [run[r].sent EXCEPT ![i] = file[r].key]
                          ELSE run[r].sent
    BY <1>3, MakeTicks
  <2>2. run[r].sent \in [Server -> Keys]
    BY DEF OrgSyncTypeOK, Memory
  <2>3. Take(r, i, "on") \/ Take(r, i, "differs")
    BY <1>3 DEF Make
  <2>4. QED
    BY <2>1, <2>2, <2>3 DEF Take, OrgSyncTypeOK
<1>4. CASE MakeFails(r, i)
  <2>1. Ticks(r, i) /\ run'[r].sent = run[r].sent /\ run'[r].failed
    BY <1>4, MakeFailsTicks
  <2>2. UNCHANGED mispVars \/ Take(r, i, "on") \/ Take(r, i, "differs")
    BY <1>4 DEF MakeFails
  <2>3. QED
    BY <2>1, <2>2 DEF Take, mispVars, OrgSyncTypeOK
<1>5. CASE Disable(r, i)
  <2>1. Ticks(r, i) /\ run'[r].sent = run[r].sent
    BY <1>5, DisableTicks
  <2>2. run[r].failed => run'[r].failed
    BY <1>5, DisableTicks
  <2>3. misp' \in {misp, [misp EXCEPT ![i] = "off"]} /\ key' = key
    BY <1>5, DisableTicks DEF Disable
  <2>4. QED
    BY <2>1, <2>2, <2>3 DEF OrgSyncTypeOK
<1>6. QED
  BY <1>1, <1>3, <1>4, <1>5, <1>2 DEF ItemAct

LEMMA WorkingItem ==
  ASSUME OrgSyncTypeOK, NEW r \in Run, TodoNarrows(r), DoneInOrder(r), Working(r),
         NEW i \in Item, ItemAct(r, i)
  PROVE  Working(r)'
<1>1. /\ run'[r].todo = run[r].todo \ {i} /\ StepKept(run[r], run'[r]) /\ i \in run[r].todo
      /\ run'[r].step = run[r].step
  BY ItemEffects DEF Ticks, StepKept
<1>2. UNCHANGED <<file, sent, backed, touched, late>> /\ file'[r] = file[r]
  BY ItemPlace
<1>3. \A j \in Item : j \notin run[r].todo \/ j \in run'[r].todo =>
        misp'[j] = misp[j] /\ (j \in Server => run'[r].sent[j] = run[r].sent[j])
  BY <1>1, ItemEffects
<1>4. ASSUME i \notin touched
      PROVE  /\ i \in file[r].items => Made(r, i)' \/ run'[r].failed
             /\ i \notin file[r].items => misp'[i] = "off" \/ run'[r].failed
  <2>1. CASE Skip(r, i)
    <3>1. i \in file[r].items /\ (i \in Server => run[r].step = 5)
      <4>1. ~Disable(r, i)
        BY <2>1 DEF Skip, Disable
      <4>2. QED
        BY <4>1, ItemPlace
    <3>2. misp[i] = "on" /\ misp' = misp
      BY <1>1, <1>4, <2>1 DEF Working, SnapshotHolds, Ahead, Skip, mispVars
    <3>3. i \in Server => run'[r].sent[i] = file[r].key
      BY <2>1, SkipTicks DEF Skip, KeyChanged
    <3>4. QED
      BY <1>1, <1>2, <3>1, <3>2, <3>3 DEF Made, KeyAt
  <2>2. CASE Make(r, i)
    <3>1. i \in file[r].items /\ (i \in Server => run[r].step = 5)
      <4>1. ~Disable(r, i)
        BY <2>2 DEF Make, Makes, Disable
      <4>2. QED
        BY <4>1, ItemPlace
    <3>2. misp'[i] = "on"
      BY <1>4, <2>2 DEF Make, Take, OrgSyncTypeOK
    <3>3. i \in Server => run'[r].sent[i] = file[r].key
      <4>1. run[r].sent \in [Server -> Keys]
        BY DEF OrgSyncTypeOK, Memory
      <4>2. QED
        BY <2>2, <4>1, MakeTicks
    <3>4. QED
      BY <1>1, <1>2, <3>1, <3>2, <3>3 DEF Made, KeyAt
  <2>3. CASE Unresolved(r, i) \/ MakeFails(r, i)
    BY <2>3, UnresolvedTicks, MakeFailsTicks
  <2>4. CASE Disable(r, i)
    <3>1. i \notin file[r].items
      BY <2>4, ItemPlace
    <3>2. misp' = [misp EXCEPT ![i] = "off"] \/ run'[r].failed
      BY <2>4, DisableTicks
    <3>3. QED
      BY <3>1, <3>2 DEF OrgSyncTypeOK
  <2>5. QED
    BY <2>1, <2>2, <2>3, <2>4 DEF ItemAct
<1>5. \A j \in Item : j \in run[r].todo /\ j \notin run'[r].todo /\ j \notin touched =>
        /\ j \in file[r].items => Made(r, j)' \/ run'[r].failed
        /\ j \notin file[r].items => misp'[j] = "off" \/ run'[r].failed
  <2>1. \A j \in Item : j \in run[r].todo /\ j \notin run'[r].todo => j = i
    BY <1>1
  <2>2. QED
    BY <1>4, <2>1
<1>6. (run[r].failed => run'[r].failed) /\ run'[r].todo \subseteq run[r].todo
  BY <1>1, ItemEffects
<1>7. QED
  BY <1>1, <1>2, <1>3, <1>5, <1>6, WorkingItems

LEMMA WorkingUnread ==
  ASSUME OrgSyncTypeOK, NEW r \in Run, TodoNarrows(r), DoneInOrder(r), Working(r), ServersUnread(r)
  PROVE  Working(r)'
<1>1. /\ StepKept(run[r], run'[r]) /\ run'[r].sent = run[r].sent /\ run'[r].todo = {}
      /\ run'[r].failed
  BY Unread
<1>2. UNCHANGED <<file, sent, misp, backed, touched, late>>
  BY DEF ServersUnread, mispVars, byOthers
<1>3. QED
  BY <1>1, <1>2, WorkingItems

(* Of the runs under the lock there is one until a session is lost, and the *)
(* others do not get at MISP.                                               *)
LEMMA Quiet ==
  ASSUME NEW r \in Run, Waits(r) \/ Die(r)
  PROVE  UNCHANGED <<file, mispVars, sent, touched, late, settled>>
  BY DEF Waits, Start, NothingToApply, Refuse, TakeLock, GiveUpLock, SessionEnds, Die, history, byOthers

LEMMA WorkingStep ==
  ASSUME OrgSyncTypeOK, LockKept, RunsInOrder, RowsInOrder, lost = {}, [Next]_vars,
         OrgSyncTypeOK', RunsInOrder', NEW r \in Run, At(r, "apply")'
  PROVE  Working(r)'
<1>1. At(r, "apply") => Working(r) /\ TodoNarrows(r) /\ DoneInOrder(r)
  BY DEF RowsInOrder, RunsInOrder
<1>2. TodoNarrows(r)' /\ DoneInOrder(r)'
  BY DEF RunsInOrder
<1>3. ASSUME At(r, "apply"), run'[r] = run[r], UNCHANGED <<file, mispVars, sent, touched, late>>
      PROVE  Working(r)'
  BY <1>1, <1>3, WorkingBeside DEF mispVars, OrgSyncTypeOK
<1>4. ASSUME NEW q \in Run, Works(q) \/ Waits(q) \/ Die(q), q # r
      PROVE  Working(r)'
  <2>1. run'[r] = run[r] /\ At(r, "apply") /\ Alive(r) /\ pc[r] \in UnderLock
    BY <1>4, OthersStay DEF At, Alive, UnderLock
  <2>2. ~Works(q)
    BY <1>4, <2>1, AloneAtWork, WorksUnderLock
  <2>3. QED
    BY <1>3, <1>4, <2>1, <2>2, Quiet
<1>5. CASE Waits(r) \/ Die(r)
  <2>1. SessionEnds(r)
    BY <1>5 DEF Waits, Start, NothingToApply, Refuse, TakeLock, GiveUpLock, Die, Lock!Die, At, Goto, OrgSyncTypeOK,
       Lock!LockTypeOK
  <2>2. At(r, "apply") /\ run'[r] = run[r]
    BY <2>1 DEF SessionEnds, Lock!SessionEnds, At
  <2>3. QED
    BY <1>3, <1>5, <2>2, Quiet
<1>6. CASE Works(r)
  <2>1. CASE Fetch(r)
    BY <2>1, WorkingFirst
  <2>2. CASE FetchFails(r) \/ EndApply(r) \/ ReleaseLock(r)
    BY <2>2 DEF FetchFails, EndApply, ReleaseLock, Quit, Goto, At, OrgSyncTypeOK
  <2>3. CASE ServersUnread(r)
    <3>1. At(r, "apply")
      BY <2>3 DEF ServersUnread, AtStep
    <3>2. QED
      BY <1>1, <2>3, <3>1, WorkingUnread
  <2>4. ASSUME NEW i \in Item, ItemAct(r, i)
        PROVE  Working(r)'
    <3>1. At(r, "apply")
      BY <2>4, ItemEffects DEF Ticks
    <3>2. QED
      BY <1>1, <2>4, <3>1, WorkingItem
  <2>5. CASE EndAct(r)
    <3>1. At(r, "apply") /\ run[r].todo = {} /\ (GoesOn(r) \/ GivesUp(r))
          /\ (run[r].step # 5 => sent' = sent)
      BY <2>5, StepEnds DEF EndAct
    <3>2. GoesOn(r)
      BY <3>1 DEF GivesUp, Goto, At, OrgSyncTypeOK
    <3>3. PICK m \in Memory : /\ Carries(r, m) /\ NextStep(r, m, run'[r])
                              /\ run[r].step = 5 => sent' = run[r].sent \/ m.failed
      BY <3>2 DEF GoesOn
    <3>4. /\ UNCHANGED <<file, misp, backed, touched>> /\ run'[r] \in Memory
          /\ run[r].step = 4 \/ late' = late
      <4>1. UNCHANGED <<file, misp, backed, touched>> /\ run'[r] \in Memory
        BY <2>5 DEF EndAct, EndRefs, EndTagsUsers, EndServers, EndStep, mispVars, history, byOthers,
           OrgSyncTypeOK
      <4>2. "user" \in KindName /\ Place("user") = 4
        BY DEF KindName, Place
      <4>3. StepOf(r) = "user" <=> run[r].step = 4
        BY <4>2, StepsAt
      <4>4. StepOf(r) = "user" \/ late' = late
        BY <2>5 DEF EndAct, EndRefs, EndTagsUsers, EndServers, EndStep, history, byOthers
      <4>5. QED
        BY <4>1, <4>3, <4>4
    <3>5. QED
      BY <1>1, <1>2, <3>1, <3>3, <3>4, WorkingOn
  <2>6. QED
    BY <1>6, <2>1, <2>2, <2>3, <2>4, <2>5 DEF Works
<1>7. ASSUME NEW i \in Item, Touch(i) \/ Login(i)
      PROVE  Working(r)'
  <2>1. /\ run'[r] = run[r] /\ UNCHANGED <<file, sent>> /\ At(r, "apply")
        /\ touched \subseteq touched' /\ backed \subseteq backed'
        /\ backed' \ late' \subseteq backed \ late
    BY <1>7 DEF Touch, Login, At, lockVars
  <2>2. \A j \in Item : j \notin touched' => misp'[j] = misp[j]
    BY <1>7 DEF Touch, Login, OrgSyncTypeOK
  <2>3. QED
    BY <1>1, <2>1, <2>2, WorkingBeside
<1>8. CASE Migration
  <2>1. At(r, "apply") /\ holder = None
    BY <1>8 DEF Migration, At, lockVars
  <2>2. holder = r
    BY <2>1, AloneAtWork DEF At, Alive, UnderLock
  <2>3. QED
    BY <2>1, <2>2, SyncAssumption
<1>9. CASE UNCHANGED vars
  <2>1. UNCHANGED <<client, pc, run, file, mispVars, sent, touched, late>>
    BY <1>9 DEF vars, lockVars, history, byOthers
  <2>2. QED
    BY <1>3, <2>1 DEF At
<1>10. QED
  BY <1>4, <1>5, <1>6, <1>7, <1>8, <1>9, NextCases

-----------------------------------------------------------------------------
(* The digests of the keys *)

LEMMA ServerStep ==
  ASSUME OrgSyncTypeOK, NEW r \in Run
  PROVE  AtStep(r, {"server"}) <=> AtServers(r)
<1>1. Place("server") = 5 /\ "server" \in KindName
  BY DEF Place, KindName
<1>2. QED
  BY <1>1, StepsAt DEF AtStep, AtServers

LEMMA KeysInit == Init => KeysTold
  BY DEF Init, KeysTold, AtServers, At

(* A server's request: its key goes out, and the run notes the digest, or   *)
(* the digest stays in doubt.                                               *)
LEMMA KeysItem ==
  ASSUME OrgSyncTypeOK, NEW r \in Run, TodoNarrows(r), KeysTold, NEW i \in Item, ItemAct(r, i),
         \A q \in Run : AtServers(q)' => q = r, \A q \in Run : AtServers(q) => q = r
  PROVE  KeysTold'
<1>1. /\ Ticks(r, i) /\ run'[r].todo = run[r].todo \ {i} /\ run'[r].step = run[r].step
      /\ At(r, "apply") /\ i \in run[r].todo
      /\ \A j \in Server : j # i => run'[r].sent[j] = run[r].sent[j] /\ key'[j] = key[j]
  BY ItemEffects DEF Ticks, StepKept
<1>2. UNCHANGED <<client, pc, file, sent>>
  BY ItemPlace DEF lockVars
<1>3. AtServers(r)' <=> AtServers(r)
  BY <1>1, <1>2 DEF AtServers, At
<1>4. \A s \in Server : s # i /\ s \in doubt => s \in doubt'
  BY DEF ItemAct, Skip, Unresolved, Make, MakeFails, Disable, history, byOthers
<1>5. CASE i \notin Server
  <2>1. \A s \in Server : /\ run'[r].sent[s] = run[r].sent[s] /\ key'[s] = key[s]
                          /\ s \in doubt => s \in doubt'
    BY <1>1, <1>4, <1>5
  <2>2. QED
    BY <1>2, <1>3, <2>1 DEF KeysTold
<1>6. CASE i \in Server
  <2>1. Disable(r, i) => ~AtServers(r) /\ key' = key
    BY StepsAt DEF Disable, AtServers
  <2>2. ~Disable(r, i) => AtServers(r)
    BY <1>1, <1>6, ItemPlace DEF AtServers
  <2>3. CASE Disable(r, i)
    BY <1>1, <1>2, <1>3, <1>6, <2>1, <2>3 DEF KeysTold, Disable
  <2>4. CASE ~Disable(r, i)
    <3>1. AtServers(r) /\ (i \in doubt \/ key[i] = run[r].sent[i])
      BY <1>6, <2>2, <2>4 DEF KeysTold
    <3>2. i \in doubt' \/ key'[i] = run'[r].sent[i]
      <4>1. CASE Skip(r, i) \/ Unresolved(r, i)
        <5>1. run'[r].sent = run[r].sent /\ key' = key /\ doubt' = doubt
          BY <4>1, SkipTicks, UnresolvedTicks DEF Skip, Unresolved, mispVars, history
        <5>2. QED
          BY <3>1, <5>1
      <4>2. CASE Make(r, i)
        <5>1. run'[r].sent[i] = file[r].key
          <6>1. run[r].sent \in [Server -> Keys]
            BY DEF OrgSyncTypeOK, Memory
          <6>2. QED
            BY <1>6, <4>2, <6>1, MakeTicks
        <5>2. key' = IF SendsKey(r, i) THEN [key EXCEPT ![i] = file[r].key] ELSE key
          BY <4>2 DEF Make, Take
        <5>3. CASE SendsKey(r, i)
          BY <1>6, <5>1, <5>2, <5>3 DEF OrgSyncTypeOK
        <5>4. CASE ~SendsKey(r, i)
          <6>1. key' = key /\ doubt' = doubt /\ run[r].sent[i] = file[r].key
            BY <1>6, <4>2, <5>2, <5>4 DEF Make, SendsKey, KeyChanged
          <6>2. QED
            BY <3>1, <5>1, <6>1
        <5>5. QED
          BY <5>3, <5>4
      <4>3. CASE MakeFails(r, i)
        <5>1. run'[r].sent = run[r].sent
          BY <4>3, MakeFailsTicks
        <5>2. (key' = key /\ doubt' = doubt) \/ i \in doubt'
          BY <4>3 DEF MakeFails, Take, mispVars
        <5>3. QED
          BY <3>1, <5>1, <5>2
      <4>4. QED
        BY <2>4, <4>1, <4>2, <4>3 DEF ItemAct
    <3>3. \A s \in Server : s \in doubt' \/ key'[s] = run'[r].sent[s]
      <4>1. \A s \in Server : s \in doubt \/ key[s] = run[r].sent[s]
        BY <3>1 DEF KeysTold
      <4>2. QED
        BY <1>1, <1>4, <3>2, <4>1
    <3>4. QED
      BY <1>3, <3>1, <3>3 DEF KeysTold
  <2>5. QED
    BY <2>3, <2>4
<1>7. QED
  BY <1>5, <1>6

(* At the end of the servers the row has what the run noted, or the run's   *)
(* keys stay in doubt.                                                      *)
LEMMA KeysStored ==
  ASSUME OrgSyncTypeOK, NEW r \in Run, KeysTold, EndServers(r),
         \A q \in Run : ~AtServers(q)'
  PROVE  KeysTold'
<1>1. AtServers(r)
  BY ServerStep DEF EndServers, Ready
<1>2. \A s \in Server : s \in doubt \/ key[s] = run[r].sent[s]
  BY <1>1 DEF KeysTold
<1>3. key' = key
  BY DEF EndServers, mispVars
<1>4. \A s \in Server : s \in doubt' \/ key'[s] = sent'[s]
  <2>1. CASE sent' = run[r].sent /\ doubt' = doubt
    BY <1>2, <1>3, <2>1
  <2>2. CASE /\ sent' = sent
             /\ doubt' = doubt \union {s \in Server : run[r].sent[s] # sent[s]}
    BY <1>2, <1>3, <2>2
  <2>3. QED
    BY <2>1, <2>2 DEF EndServers
<1>5. QED
  BY <1>4 DEF KeysTold

LEMMA KeysStep ==
  ASSUME OrgSyncTypeOK, LockKept, RunsInOrder, RowsInOrder, lost = {}, [Next]_vars,
         OrgSyncTypeOK'
  PROVE  KeysTold'
<1>1. KeysTold
  BY DEF RowsInOrder
<1>2. ASSUME UNCHANGED <<key, sent>>, doubt \subseteq doubt',
             \A q \in Run : AtServers(q)' <=> AtServers(q),
             \A q \in Run : AtServers(q) => run'[q] = run[q]
      PROVE  KeysTold'
  BY <1>1, <1>2 DEF KeysTold
<1>3. ASSUME NEW r \in Run, Works(r)
      PROVE  KeysTold'
  <2>1. \A q \in Run : AtServers(q) => q = r
    <3>1. \A q \in Run : AtServers(q) => Alive(q) /\ pc[q] \in UnderLock
      BY DEF AtServers, At, Alive, UnderLock
    <3>2. QED
      BY <1>3, <3>1, AloneAtWork, WorksUnderLock
  <2>2. \A q \in Run : AtServers(q)' => q = r
    <3>1. \A q \in Run : q # r => (AtServers(q)' <=> AtServers(q))
      BY <1>3, OthersStay DEF AtServers, At
    <3>2. QED
      BY <2>1, <3>1
  <2>3. CASE Fetch(r) \/ FetchFails(r) \/ EndApply(r) \/ ReleaseLock(r)
    <3>1. ~AtServers(r)
      <4>1. CASE EndApply(r)
        BY <4>1, StepsAt DEF EndApply, Ready, AtStep, AtServers
      <4>2. CASE Fetch(r) \/ FetchFails(r) \/ ReleaseLock(r)
        BY <4>2 DEF Fetch, FetchFails, ReleaseLock, At, AtServers
      <4>3. QED
        BY <2>3, <4>1, <4>2
    <3>2. ~AtServers(r)'
      <4>1. CASE Fetch(r)
        <5>1. run'[r].step = 1
          BY <4>1, Fetched
        <5>2. QED
          BY <5>1 DEF AtServers
      <4>2. CASE FetchFails(r) \/ EndApply(r) \/ ReleaseLock(r)
        BY <4>2 DEF FetchFails, EndApply, ReleaseLock, Quit, Goto, At, AtServers, OrgSyncTypeOK
      <4>3. QED
        BY <2>3, <4>1, <4>2
    <3>3. UNCHANGED <<key, sent, doubt>>
      BY <2>3 DEF Fetch, FetchFails, EndApply, ReleaseLock, mispVars, history, byOthers
    <3>4. QED
      BY <1>2, <2>1, <2>2, <3>1, <3>2, <3>3
  <2>4. CASE ServersUnread(r)
    <3>1. UNCHANGED <<client, pc, key, sent, doubt>> /\ At(r, "apply")
      BY <2>4 DEF ServersUnread, mispVars, lockVars, AtStep
    <3>2. /\ run'[r].step = run[r].step /\ run'[r].sent = run[r].sent /\ run'[r].todo = {}
      BY <2>4, Unread DEF StepKept
    <3>3. AtServers(r)' <=> AtServers(r)
      BY <3>1, <3>2 DEF AtServers, At
    <3>4. QED
      BY <1>1, <2>1, <2>2, <3>1, <3>2, <3>3 DEF KeysTold
  <2>5. ASSUME NEW i \in Item, ItemAct(r, i)
        PROVE  KeysTold'
    <3>1. TodoNarrows(r)
      BY <2>5, ItemEffects DEF Ticks, RunsInOrder
    <3>2. QED
      BY <1>1, <2>1, <2>2, <2>5, <3>1, KeysItem
  <2>6. CASE EndAct(r)
    <3>1. At(r, "apply") /\ (GoesOn(r) \/ GivesUp(r)) /\ UNCHANGED key
      BY <2>6, StepEnds DEF EndAct, EndRefs, EndTagsUsers, EndServers, EndStep, mispVars
    <3>2. CASE run[r].step = 5
      <4>1. EndServers(r) /\ StepOf(r) = "server"
        <5>1. StepOf(r) = "server"
          BY <3>2, StepsAt DEF KindName, Place
        <5>2. QED
          BY <2>6, <5>1 DEF EndAct, EndRefs, EndTagsUsers, EndStep, Ready, AtStep
      <4>2. ~AtServers(r)'
        <5>1. CASE GoesOn(r)
          <6>1. run'[r].step = 6
            BY <3>2, <5>1 DEF GoesOn, Carries, NextStep
          <6>2. QED
            BY <6>1 DEF AtServers
        <5>2. CASE GivesUp(r)
          BY <5>2 DEF GivesUp, Goto, At, AtServers, OrgSyncTypeOK
        <5>3. QED
          BY <3>1, <5>1, <5>2
      <4>3. \A q \in Run : ~AtServers(q)'
        BY <2>2, <4>2
      <4>4. QED
        BY <1>1, <4>1, <4>3, KeysStored
    <3>3. CASE run[r].step # 5
      <4>1. UNCHANGED <<key, sent, doubt>>
        BY <2>6, <3>1, <3>3, StepEnds DEF EndAct
      <4>2. \A q \in Run : ~AtServers(q)
        BY <2>1, <3>3 DEF AtServers
      <4>3. \A s \in Server : s \in doubt \/ key[s] = sent[s]
        BY <1>1, <4>2 DEF KeysTold
      <4>4. AtServers(r)' => run'[r].sent = sent
        <5>1. SUFFICES ASSUME AtServers(r)' PROVE run'[r].sent = sent
          OBVIOUS
        <5>2. GoesOn(r) /\ run'[r].step = 5
          BY <3>1, <5>1 DEF GivesUp, Goto, At, AtServers, OrgSyncTypeOK
        <5>3. PICK m \in Memory : Carries(r, m) /\ NextStep(r, m, run'[r])
          BY <5>2 DEF GoesOn
        <5>4. run[r].step = 4
          BY <5>2, <5>3, StepsAt DEF Carries, NextStep
        <5>5. QED
          BY <5>3, <5>4 DEF Carries, NextStep
      <4>5. QED
        BY <2>2, <4>1, <4>3, <4>4 DEF KeysTold
    <3>4. QED
      BY <3>2, <3>3
  <2>7. QED
    BY <1>3, <2>3, <2>4, <2>5, <2>6 DEF Works
<1>4. ASSUME NEW r \in Run, Waits(r)
      PROVE  KeysTold'
  <2>1. UNCHANGED <<run, key, sent, doubt>>
    BY <1>4 DEF Waits, Start, NothingToApply, Refuse, TakeLock, GiveUpLock, SessionEnds, mispVars, history, byOthers
  <2>2. AtServers(r)' <=> AtServers(r)
    <3>1. CASE SessionEnds(r)
      BY <2>1, <3>1 DEF SessionEnds, Lock!SessionEnds, AtServers, At
    <3>2. CASE ~SessionEnds(r)
      BY <1>4, <3>2 DEF Waits, Start, NothingToApply, Refuse, TakeLock, GiveUpLock, AtServers, At, Goto, OrgSyncTypeOK
    <3>3. QED
      BY <3>1, <3>2
  <2>3. \A q \in Run : q # r => (AtServers(q)' <=> AtServers(q))
    BY <1>4, OthersStay DEF AtServers, At
  <2>4. QED
    BY <1>2, <2>1, <2>2, <2>3
<1>5. ASSUME NEW r \in Run, Die(r)
      PROVE  KeysTold'
  <2>1. UNCHANGED <<key, sent>> /\ ~AtServers(r)'
    BY <1>5 DEF Die, Lock!Die, AtServers, At, mispVars, OrgSyncTypeOK, Lock!LockTypeOK
  <2>2. \A q \in Run : q # r => run'[q] = run[q] /\ (AtServers(q)' <=> AtServers(q))
    BY <1>5, OthersStay DEF AtServers, At
  <2>3. doubt' = IF AtServers(r)
                 THEN doubt \union {s \in Server : run[r].sent[s] # sent[s]} ELSE doubt
    BY <1>5, ServerStep DEF Die
  <2>4. CASE ~AtServers(r)
    BY <1>2, <2>1, <2>2, <2>3, <2>4
  <2>5. CASE AtServers(r)
    <3>1. \A s \in Server : s \in doubt \/ key[s] = run[r].sent[s]
      BY <1>1, <2>5 DEF KeysTold
    <3>2. \A s \in Server : s \in doubt' \/ key[s] = sent[s]
      BY <2>3, <2>5, <3>1
    <3>3. \A q \in Run : AtServers(q) => q = r
      <4>1. \A q \in Run : AtServers(q) => Alive(q) /\ pc[q] \in UnderLock
        BY DEF AtServers, At, Alive, UnderLock
      <4>2. QED
        BY <2>5, <4>1, AloneAtWork
    <3>4. \A q \in Run : ~AtServers(q)'
      BY <2>1, <2>2, <3>3
    <3>5. QED
      BY <2>1, <3>2, <3>4 DEF KeysTold
  <2>6. QED
    BY <2>4, <2>5
<1>6. ASSUME NEW i \in Item, Touch(i) \/ Login(i)
      PROVE  KeysTold'
  <2>1. UNCHANGED <<client, pc, run, sent>>
    BY <1>6 DEF Touch, Login, lockVars
  <2>2. \A s \in Server : s \in doubt' \/ (key'[s] = key[s] /\ s \notin doubt)
    BY <1>6 DEF Touch, Login, OrgSyncTypeOK
  <2>3. QED
    BY <1>1, <2>1, <2>2 DEF KeysTold, AtServers, At
<1>7. CASE Migration
  <2>1. key' = sent' /\ UNCHANGED <<client, pc, run>>
    BY <1>7 DEF Migration, lockVars
  <2>2. \A q \in Run : ~AtServers(q)
    <3>1. \A q \in Run : AtServers(q) => holder = q
      BY AloneAtWork DEF AtServers, At, Alive, UnderLock
    <3>2. QED
      BY <1>7, <3>1, SyncAssumption DEF Migration
  <2>3. QED
    BY <2>1, <2>2 DEF KeysTold, AtServers, At
<1>8. CASE UNCHANGED vars
  <2>1. UNCHANGED <<client, pc, run, key, sent, doubt>>
    BY <1>8 DEF vars, lockVars, mispVars, history, byOthers
  <2>2. QED
    BY <1>2, <2>1 DEF AtServers, At
<1>9. QED
  BY <1>3, <1>4, <1>5, <1>6, <1>7, <1>8, NextCases

-----------------------------------------------------------------------------
(* The end of a run *)

(* Without an error all of the file is in MISP.                             *)
LEMMA AllDone ==
  ASSUME OrgSyncTypeOK, NEW r \in Run, Working(r), run[r].step = 10, run[r].todo = {},
         ~run[r].errors, ~run[r].failed, NEW i \in Item, i \notin touched
  PROVE  AsRow(file[r], i)
<1>1. /\ file[r] \in Files /\ Turn(file[r], i) \in 0..10
      /\ i \in file[r].items => Place(Kind[i]) # 10
  BY TurnBounds, PlaceBounds, KindNames DEF OrgSyncTypeOK
<1>2. ~Ahead(r, i)
  BY <1>1 DEF Ahead
<1>3. CASE i \in file[r].items
  <2>1. Made(r, i) \/ Excused(r, i)
    BY <1>2, <1>3 DEF Working, NamedTells
  <2>2. ~Excused(r, i)
    BY <1>1, <1>3 DEF Excused
  <2>3. QED
    BY <1>3, <2>1, <2>2 DEF Made, KeyAt, AsRow
<1>4. CASE i \notin file[r].items
  BY <1>2, <1>4 DEF Working, UnnamedTells, AsRow
<1>5. QED
  BY <1>3, <1>4

(* What the others do while a run is under the lock.                        *)
LEMMA OthersQuiet ==
  ASSUME OrgSyncTypeOK, LockKept, lost = {}, NEW r \in Run, Alive(r), pc[r] \in UnderLock,
         NEW q \in Run, q # r, Works(q) \/ Waits(q) \/ Die(q)
  PROVE  /\ run'[r] = run[r] /\ pc'[r] = pc[r] /\ client'[r] = client[r]
         /\ UNCHANGED <<file, mispVars, sent, touched, late, settled>>
<1>1. ~Works(q)
  BY AloneAtWork, WorksUnderLock
<1>2. QED
  BY <1>1, OthersStay, Quiet

LEMMA MigrationAlone ==
  ASSUME OrgSyncTypeOK, LockKept, lost = {}, Migration, NEW r \in Run, Alive(r)
  PROVE  pc[r] \notin UnderLock
<1>1. pc[r] \in UnderLock => holder = r
  BY AloneAtWork
<1>2. QED
  BY <1>1, SyncAssumption DEF Migration

LEMMA ReleasedStep ==
  ASSUME OrgSyncTypeOK, LockKept, RunsInOrder, RowsInOrder, lost = {}, [Next]_vars, NEW r \in Run
  PROVE  Released(r)'
<1> SUFFICES ASSUME At(r, "release")', NEW i \in Item, i \notin touched'
             PROVE  AsRow(file[r], i)'
  BY DEF Released
<1>1. Released(r)
  BY DEF RowsInOrder
<1>2. ASSUME At(r, "release"), UNCHANGED <<file, mispVars, sent, touched>>
      PROVE  AsRow(file[r], i)'
  <2>1. AsRow(file[r], i) /\ file'[r] = file[r]
    BY <1>1, <1>2 DEF Released
  <2>2. UNCHANGED <<misp, backed, sent>>
    BY <1>2 DEF mispVars
  <2>3. QED
    BY <2>1, <2>2 DEF AsRow, Enabled
<1>3. ASSUME NEW q \in Run, Works(q) \/ Waits(q) \/ Die(q), q # r
      PROVE  AsRow(file[r], i)'
  <2>1. At(r, "release")
    BY <1>3, OthersStay DEF At
  <2>2. UNCHANGED <<file, mispVars, sent, touched>>
    BY <1>3, <2>1, OthersQuiet DEF At, Alive, UnderLock
  <2>3. QED
    BY <1>2, <2>1, <2>2
<1>4. CASE Waits(r) \/ Die(r)
  <2>1. SessionEnds(r)
    BY <1>4 DEF Waits, Start, NothingToApply, Refuse, TakeLock, GiveUpLock, Die, Lock!Die, At, Goto, OrgSyncTypeOK,
       Lock!LockTypeOK
  <2>2. At(r, "release")
    BY <2>1 DEF SessionEnds, Lock!SessionEnds, At
  <2>3. QED
    BY <1>2, <1>4, <2>2, Quiet
<1>5. CASE Works(r)
  <2>1. EndApply(r)
    <3>1. ~(Fetch(r) \/ FetchFails(r) \/ ReleaseLock(r))
      BY DEF Fetch, FetchFails, ReleaseLock, Quit, Goto, At, OrgSyncTypeOK
    <3>2. ~EndAct(r)
      BY StepEnds DEF EndAct, GoesOn, GivesUp, Goto, At, OrgSyncTypeOK
    <3>3. ~ServersUnread(r)
      BY DEF ServersUnread, AtStep, At
    <3>4. ASSUME NEW j \in Item, ItemAct(r, j)
          PROVE  FALSE
      <4>1. At(r, "apply")
        BY <3>4, ItemEffects DEF Ticks
      <4>2. UNCHANGED pc
        BY <3>4 DEF ItemAct, Skip, Unresolved, Make, MakeFails, Disable
      <4>3. QED
        BY <4>1, <4>2 DEF At
    <3>5. QED
      BY <1>5, <3>1, <3>2, <3>3, <3>4 DEF Works
  <2>2. /\ At(r, "apply") /\ run[r].todo = {} /\ run[r].step = 10
        /\ UNCHANGED <<file, mispVars, sent, touched>>
    BY <2>1, StepsAt DEF EndApply, Ready, AtStep, history, byOthers
  <2>3. ~run[r].errors /\ ~run[r].failed
    BY <2>1 DEF EndApply, Goto, At, OrgSyncTypeOK
  <2>4. AsRow(file[r], i)
    BY <2>2, <2>3, AllDone DEF RowsInOrder
  <2>5. file'[r] = file[r] /\ UNCHANGED <<misp, backed, sent>>
    BY <2>2 DEF mispVars
  <2>6. QED
    BY <2>4, <2>5 DEF AsRow, Enabled
<1>6. ASSUME NEW j \in Item, Touch(j) \/ Login(j)
      PROVE  AsRow(file[r], i)'
  <2>1. /\ UNCHANGED <<file, sent>> /\ At(r, "release") /\ i \notin touched
        /\ misp'[i] = misp[i] /\ (i \in backed => i \in backed')
    BY <1>6 DEF Touch, Login, At, OrgSyncTypeOK, lockVars
  <2>2. AsRow(file[r], i) /\ file'[r] = file[r]
    BY <1>1, <2>1 DEF Released
  <2>3. QED
    BY <2>1, <2>2 DEF AsRow, Enabled
<1>7. CASE Migration
  <2>1. Alive(r) /\ pc[r] \in UnderLock
    BY <1>7 DEF Migration, At, Alive, UnderLock, lockVars
  <2>2. QED
    BY <1>7, <2>1, MigrationAlone
<1>8. CASE UNCHANGED vars
  <2>1. UNCHANGED <<client, pc, file, mispVars, sent, touched>>
    BY <1>8 DEF vars, lockVars, history, byOthers
  <2>2. QED
    BY <1>2, <2>1 DEF At
<1>9. QED
  BY <1>3, <1>4, <1>5, <1>6, <1>7, <1>8, NextCases

LEMMA SettledInit == Init => SettledHolds
<1> SUFFICES ASSUME Init, settled # None PROVE SettledHolds
  BY DEF SettledHolds
<1>1. PICK m \in MISPs : /\ misp = m.misp /\ key = [s \in Server |-> m.key] /\ settled = m.of
                         /\ sent = key
  BY DEF Init
<1>2. PICK f \in Files : m = MISPOf(f)
  BY <1>1 DEF MISPs, FreshMISP
<1>3. /\ settled = f /\ sent = [s \in Server |-> f.key]
      /\ misp = [i \in Item |-> IF i \in f.items THEN "on"
                                ELSE IF Kind[i] \in Disabling THEN "off" ELSE "missing"]
  BY <1>1, <1>2 DEF MISPOf
<1>4. f.items \subseteq Item /\ f.disables \subseteq Disabling
  BY SyncAssumption DEF Disabling
<1>5. \A i \in Item : AsRow(settled, i)
  BY <1>3, <1>4 DEF AsRow, Enabled
<1>6. QED
  BY <1>5 DEF Init, SettledHolds, At

LEMMA SettledStep ==
  ASSUME OrgSyncTypeOK, LockKept, RunsInOrder, RowsInOrder, lost = {}, [Next]_vars
  PROVE  SettledHolds'
<1> DEFINE Busy(r) == At(r, "apply") \/ At(r, "release")
<1> SUFFICES ASSUME settled' # None PROVE SettledHolds'
  BY DEF SettledHolds
<1>1. SettledHolds
  BY DEF RowsInOrder
<1>2. ASSUME UNCHANGED <<mispVars, sent, settled>>, \A r \in Run : Busy(r)' => Busy(r)
      PROVE  SettledHolds'
  <2>1. \A i \in Item : AsRow(settled, i)' <=> AsRow(settled, i)
    BY <1>2 DEF AsRow, Enabled, mispVars
  <2>2. QED
    BY <1>1, <1>2, <2>1 DEF SettledHolds
<1>3. ASSUME NEW r \in Run, Works(r)
      PROVE  SettledHolds'
  <2>1. \A q \in Run : q # r => ~Busy(q)'
    <3>1. \A q \in Run : q # r => (Busy(q)' <=> Busy(q))
      BY <1>3, OthersStay DEF At
    <3>2. \A q \in Run : Busy(q) => Alive(q) /\ pc[q] \in UnderLock
      BY DEF At, Alive, UnderLock
    <3>3. QED
      BY <1>3, <3>1, <3>2, AloneAtWork, WorksUnderLock
  <2>2. ASSUME At(r, "apply"), settled' = settled
        PROVE  FALSE
    BY <1>1, <2>2 DEF SettledHolds
  <2>3. CASE Fetch(r)
    BY <2>3 DEF Fetch
  <2>4. CASE FetchFails(r)
    <3>1. ~Busy(r)'
      BY <2>4 DEF FetchFails, Quit, Goto, At, OrgSyncTypeOK
    <3>2. UNCHANGED <<mispVars, sent, settled>>
      BY <2>4 DEF FetchFails
    <3>3. QED
      BY <1>2, <2>1, <3>1, <3>2
  <2>5. CASE ReleaseLock(r)
    <3>1. ~Busy(r)'
      BY <2>5 DEF ReleaseLock, Goto, At, OrgSyncTypeOK
    <3>2. UNCHANGED <<file, mispVars, sent>>
      BY <2>5 DEF ReleaseLock
    <3>3. CASE settled' = settled
      BY <1>2, <2>1, <3>1, <3>2, <3>3
    <3>4. CASE At(r, "release") /\ touched = {} /\ settled' = file[r]
      <4>1. \A i \in Item : AsRow(settled', i)
        BY <3>4 DEF RowsInOrder, Released
      <4>2. PICK f : f = settled'
        OBVIOUS
      <4>3. \A i \in Item : AsRow(f, i)'
        BY <3>2, <4>1, <4>2 DEF AsRow, Enabled, mispVars
      <4>4. QED
        BY <2>1, <3>1, <4>2, <4>3 DEF SettledHolds, AsRow, Enabled
    <3>5. QED
      BY <2>5, <3>3, <3>4 DEF ReleaseLock
  <2>6. CASE EndApply(r) \/ ServersUnread(r)
    BY <2>2, <2>6 DEF EndApply, ServersUnread, Ready, AtStep, history, byOthers
  <2>7. CASE EndAct(r)
    <3>1. At(r, "apply") /\ settled' = settled
      BY <2>7, StepEnds DEF EndAct, EndRefs, EndTagsUsers, EndServers, EndStep, history, byOthers
    <3>2. QED
      BY <2>2, <3>1
  <2>8. ASSUME NEW i \in Item, ItemAct(r, i)
        PROVE  SettledHolds'
    <3>1. At(r, "apply") /\ settled' = settled
      BY <2>8, ItemEffects DEF Ticks, ItemAct, Skip, Unresolved, Make, MakeFails, Disable, history, byOthers
    <3>2. QED
      BY <2>2, <3>1
  <2>9. QED
    BY <1>3, <2>3, <2>4, <2>5, <2>6, <2>7, <2>8 DEF Works
<1>4. ASSUME NEW r \in Run, Waits(r) \/ Die(r)
      PROVE  SettledHolds'
  <2>1. \A q \in Run : q # r => (Busy(q)' <=> Busy(q))
    BY <1>4, OthersStay DEF At
  <2>2. Busy(r)' => Busy(r)
    BY <1>4 DEF Waits, Start, NothingToApply, Refuse, TakeLock, GiveUpLock, SessionEnds, Die, Lock!Die,
       Lock!SessionEnds, At, Goto, OrgSyncTypeOK, Lock!LockTypeOK
  <2>3. QED
    BY <1>2, <1>4, <2>1, <2>2, Quiet
<1>5. ASSUME NEW i \in Item, Touch(i) \/ Login(i)
      PROVE  SettledHolds'
  <2>1. UNCHANGED <<misp, sent, settled, pc, client>> /\ backed \subseteq backed'
    BY <1>5 DEF Touch, Login, lockVars
  <2>2. \A j \in Item : AsRow(settled, j) => AsRow(settled, j)'
    BY <2>1 DEF AsRow, Enabled
  <2>3. QED
    BY <1>1, <2>1, <2>2 DEF SettledHolds, At
<1>6. CASE Migration
  BY <1>6 DEF Migration
<1>7. CASE UNCHANGED vars
  <2>1. UNCHANGED <<client, pc, mispVars, sent, settled>>
    BY <1>7 DEF vars, lockVars, history, byOthers
  <2>2. QED
    BY <1>2, <2>1 DEF At
<1>8. QED
  BY <1>3, <1>4, <1>5, <1>6, <1>7, NextCases

-----------------------------------------------------------------------------
(* A run that only reads *)

(* There is nothing to make and nothing to disable.                         *)
LEMMA NothingToDo ==
  ASSUME OrgSyncTypeOK, NEW r \in Run, TodoNarrows(r), Working(r), touched = {},
         run[r].known = misp, \A i \in Item : AsRow(file[r], i),
         run[r].step = 5 => run[r].sent = sent, Spares(r),
         NEW i \in Item, ItemAct(r, i)
  PROVE  \/ Skip(r, i)
         \/ Unresolved(r, i) /\ (Kind[i] = "group" => run[r].known[i] = "on")
<1>1. AsRow(file[r], i) /\ i \in run[r].todo
  BY ItemPlace
<1>2. ASSUME Makes(r, i)
      PROVE  FALSE
  <2>1. i \in file[r].items /\ (i \in Server => run[r].step = 5)
    <3>1. ~Disable(r, i)
      BY <1>2 DEF Makes, Disable
    <3>2. QED
      BY <3>1, ItemPlace
  <2>2. misp[i] = "on" /\ (i \in Server => sent[i] = file[r].key)
    BY <1>1, <2>1, TodoTurn DEF AsRow
  <2>3. ~KeyChanged(r, i)
    BY <2>1, <2>2 DEF KeyChanged
  <2>4. QED
    BY <1>2, <2>2, <2>3 DEF Makes
<1>3. ASSUME Disable(r, i)
      PROVE  FALSE
  <2>1. i \notin file[r].items
    BY <1>3, ItemPlace
  <2>2. Kind[i] \in file[r].disables /\ i \notin run[r].backed /\ Enabled(i)
    BY <1>1, <2>1, TodoTurn DEF Enabled
  <2>3. QED
    BY <2>1, <2>2 DEF Spares
<1>4. ASSUME Unresolved(r, i), Kind[i] = "group"
      PROVE  run[r].known[i] = "on"
  <2>1. i \in file[r].items
    <3>1. ~Disable(r, i)
      BY <1>3
    <3>2. QED
      BY <3>1, ItemPlace
  <2>2. QED
    BY <1>1, <1>4, <2>1 DEF AsRow
<1>5. QED
  BY <1>2, <1>3, <1>4 DEF ItemAct, Make, MakeFails

LEMMA WarmStep ==
  ASSUME OrgSyncTypeOK, LockKept, RunsInOrder, RowsInOrder, lost = {}, [Next]_vars, NEW r \in Run,
         OrgSyncTypeOK'
  PROVE  WarmHolds(r)'
<1> SUFFICES ASSUME run'[r].warm, touched' = {}
             PROVE  WarmHolds(r)'
  BY DEF WarmHolds
<1>1. WarmHolds(r) /\ (run[r].warm => Alive(r) /\ pc[r] \in UnderLock)
  BY DEF RowsInOrder, RunsInOrder, At, Alive, UnderLock
<1>2. ASSUME run'[r] = run[r], UNCHANGED <<file, mispVars, sent, touched>>,
             At(r, "apply")' => At(r, "apply")
      PROVE  WarmHolds(r)'
  <2>1. UNCHANGED <<misp, backed, sent, touched>> /\ file'[r] = file[r]
    BY <1>2 DEF mispVars
  <2>2. \A i \in Item : AsRow(file[r], i)' <=> AsRow(file[r], i)
    BY <2>1 DEF AsRow, Enabled
  <2>3. Spares(r)' <=> Spares(r)
    BY <1>2, <2>1 DEF Spares, Enabled
  <2>4. QED
    BY <1>1, <1>2, <2>1, <2>2, <2>3 DEF WarmHolds
<1>3. ASSUME NEW q \in Run, Works(q) \/ Waits(q) \/ Die(q), q # r
      PROVE  WarmHolds(r)'
  <2>1. Alive(r) /\ pc[r] \in UnderLock
    BY <1>1, <1>3, OthersStay
  <2>2. /\ run'[r] = run[r] /\ pc'[r] = pc[r] /\ client'[r] = client[r]
        /\ UNCHANGED <<file, mispVars, sent, touched>>
    BY <1>3, <2>1, OthersQuiet
  <2>3. QED
    BY <1>2, <2>2 DEF At
<1>4. CASE Waits(r)
  <2>1. run'[r] = run[r]
    BY <1>4 DEF Waits, Start, NothingToApply, Refuse, TakeLock, GiveUpLock, SessionEnds
  <2>2. At(r, "apply")' => At(r, "apply")
    BY <1>4 DEF Waits, Start, NothingToApply, Refuse, TakeLock, GiveUpLock, SessionEnds, Lock!SessionEnds,
       At, Goto, OrgSyncTypeOK
  <2>3. QED
    BY <1>2, <1>4, <2>1, <2>2, Quiet
<1>5. CASE Die(r) \/ ReleaseLock(r)
  <2>1. ~run'[r].warm
    BY <1>5, Forgotten, NoMemoryFields DEF ReleaseLock, Die
  <2>2. QED
    BY <2>1
<1>6. CASE Fetch(r)
  <2>1. run'[r].known = misp /\ run'[r].step = 1
    BY <1>6, Fetched
  <2>2. ~run'[r].posted
    BY <1>6, Fetched
  <2>3. settled = file[r]
    BY <1>6, Fetched
  <2>4. \A i \in Item : AsRow(file[r], i)
    BY <2>3, SyncAssumption DEF RowsInOrder, SettledHolds, OrgSyncTypeOK
  <2>5. UNCHANGED <<misp, backed, sent>> /\ file'[r] = file[r]
    BY <1>6 DEF Fetch, mispVars
  <2>6. \A i \in Item : AsRow(file[r], i)'
    BY <2>4, <2>5 DEF AsRow, Enabled
  <2>7. Spares(r)'
    <3>1. run'[r].backed = backed
      BY <1>6, Fetched
    <3>2. QED
      BY <2>4, <2>5, <3>1 DEF Spares, AsRow, Enabled
  <2>8. QED
    BY <2>1, <2>2, <2>5, <2>6, <2>7 DEF WarmHolds
<1>7. CASE FetchFails(r) \/ EndApply(r)
  <2>1. run'[r] = run[r] /\ ~At(r, "apply")' /\ UNCHANGED <<file, mispVars, sent, touched>>
    BY <1>7 DEF FetchFails, EndApply, Quit, Goto, At, OrgSyncTypeOK, history, byOthers
  <2>2. QED
    BY <1>2, <2>1
<1>8. CASE ServersUnread(r)
  <2>1. /\ run'[r].step = run[r].step /\ run'[r].known = run[r].known
        /\ run'[r].sent = run[r].sent /\ run'[r].backed = run[r].backed
    BY <1>8, Unread DEF StepKept
  <2>2. (run[r].warm <=> run'[r].warm) /\ (run[r].posted <=> run'[r].posted)
    BY <1>8, Unread DEF StepKept
  <2>3. At(r, "apply") /\ UNCHANGED <<misp, backed, sent, touched>> /\ file'[r] = file[r]
    BY <1>8 DEF ServersUnread, AtStep, mispVars, byOthers
  <2>4. \A i \in Item : AsRow(file[r], i)' <=> AsRow(file[r], i)
    BY <2>3 DEF AsRow, Enabled
  <2>5. Spares(r)' <=> Spares(r)
    BY <2>1, <2>3 DEF Spares, Enabled
  <2>6. QED
    BY <1>1, <2>1, <2>2, <2>3, <2>4, <2>5 DEF WarmHolds
<1>9. ASSUME NEW i \in Item, ItemAct(r, i)
      PROVE  WarmHolds(r)'
  <2>1. /\ run'[r].step = run[r].step /\ run'[r].known = run[r].known /\ At(r, "apply")
        /\ run'[r].backed = run[r].backed
    BY <1>9, ItemEffects DEF Ticks, StepKept
  <2>2. run[r].warm
    BY <1>9, ItemEffects DEF Ticks, StepKept
  <2>3. TodoNarrows(r) /\ Working(r)
    BY <2>1 DEF RunsInOrder, RowsInOrder
  <2>4. touched = {} /\ file'[r] = file[r]
    BY <1>9, <2>3, ItemPlace
  <2>5. /\ ~run[r].posted /\ run[r].known = misp /\ \A j \in Item : AsRow(file[r], j)
        /\ run[r].step = 5 => run[r].sent = sent
        /\ Spares(r)
    BY <1>1, <2>1, <2>2, <2>4 DEF WarmHolds
  <2>6. \/ Skip(r, i)
        \/ Unresolved(r, i) /\ (Kind[i] = "group" => run[r].known[i] = "on")
    BY <1>9, <2>3, <2>4, <2>5, NothingToDo
  <2>7. run'[r].sent = run[r].sent /\ UNCHANGED <<misp, backed, sent>>
    BY <2>6, SkipTicks, UnresolvedTicks DEF Skip, Unresolved, mispVars
  <2>8. run'[r].posted = run[r].posted
    BY <2>6, SkipTicks, UnresolvedTicks
  <2>9. \A j \in Item : AsRow(file[r], j)'
    BY <2>4, <2>5, <2>7 DEF AsRow, Enabled
  <2>10. Spares(r)'
    BY <2>1, <2>4, <2>5, <2>7 DEF Spares, Enabled
  <2>11. ~run'[r].posted
    BY <2>5, <2>8
  <2>12. QED
    BY <2>1, <2>4, <2>5, <2>7, <2>9, <2>10, <2>11 DEF WarmHolds
<1>10. CASE EndAct(r)
  <2>1. /\ At(r, "apply") /\ (GoesOn(r) \/ GivesUp(r)) /\ (run[r].step # 5 => sent' = sent)
        /\ UNCHANGED <<misp, backed, touched>> /\ file'[r] = file[r]
    BY <1>10, StepEnds DEF EndAct, EndRefs, EndTagsUsers, EndServers, EndStep, mispVars, history, byOthers
  <2>2. CASE GivesUp(r)
    <3>1. run'[r] = run[r] /\ ~At(r, "apply")'
      BY <2>2 DEF GivesUp, Goto, At, OrgSyncTypeOK
    <3>2. run[r].warm <=> run'[r].warm
      BY <3>1
    <3>3. QED
      BY <1>1, <2>1, <3>1, <3>2 DEF WarmHolds
  <2>3. CASE GoesOn(r)
    <3>1. PICK m \in Memory : Carries(r, m) /\ NextStep(r, m, run'[r])
      BY <2>3 DEF GoesOn
    <3>2. run[r].warm <=> run'[r].warm
      BY <3>1 DEF Carries, NextStep
    <3>3. run[r].posted <=> run'[r].posted
      BY <3>1 DEF Carries, NextStep
    <3>4. /\ ~run[r].posted /\ run[r].known = misp /\ \A j \in Item : AsRow(file[r], j)
          /\ run[r].step = 5 => run[r].sent = sent
          /\ Spares(r)
      BY <1>1, <2>1, <3>2 DEF WarmHolds
    <3>5. run'[r].known = misp
      <4>1. \A i \in Item : run'[r].known[i] = misp[i]
        BY <3>1, <3>4 DEF Carries, NextStep
      <4>2. run'[r].known \in [Item -> Level] /\ misp \in [Item -> Level]
        BY DEF OrgSyncTypeOK, Memory
      <4>3. QED
        BY <4>1, <4>2
    <3>6. sent' = sent
      <4>1. run[r].step = 5 => sent' = sent \/ sent' = run[r].sent
        BY <1>10 DEF EndAct, EndRefs, EndTagsUsers, EndServers, EndStep, history, byOthers
      <4>2. QED
        BY <2>1, <3>4, <4>1
    <3>7. run'[r].step = 5 => run'[r].sent = sent
      BY <3>1, StepsAt DEF Carries, NextStep
    <3>8. \A j \in Item : AsRow(file[r], j)'
      BY <2>1, <3>4, <3>6 DEF AsRow, Enabled
    <3>9. Spares(r)'
      <4>1. run[r].backed \subseteq backed
        BY <2>1 DEF RowsInOrder, Working, BackedKnown
      <4>2. run[r].backed \subseteq run'[r].backed
        BY <3>1, <4>1 DEF Carries, NextStep
      <4>3. QED
        BY <2>1, <3>4, <4>2 DEF Spares, Enabled
    <3>10. QED
      BY <2>1, <3>3, <3>4, <3>5, <3>6, <3>7, <3>8, <3>9 DEF WarmHolds
  <2>4. QED
    BY <2>1, <2>2, <2>3
<1>11. ASSUME NEW i \in Item, Touch(i) \/ Login(i)
       PROVE  WarmHolds(r)'
  <2>1. UNCHANGED <<pc, client, run, file, misp, sent, touched>> /\ backed \subseteq backed'
    BY <1>11 DEF Touch, Login, lockVars
  <2>2. file'[r] = file[r] /\ run'[r] = run[r]
    BY <2>1
  <2>3. \A j \in Item : AsRow(file[r], j) => AsRow(file[r], j)'
    BY <2>1, <2>2 DEF AsRow, Enabled
  <2>4. Spares(r) => Spares(r)'
    BY <2>1, <2>2 DEF Spares, Enabled
  <2>5. QED
    BY <1>1, <2>1, <2>2, <2>3, <2>4 DEF WarmHolds, At
<1>12. CASE Migration
  <2>1. run[r].warm
    BY <1>12 DEF Migration
  <2>2. QED
    BY <1>1, <1>12, <2>1, MigrationAlone
<1>13. CASE UNCHANGED vars
  <2>1. UNCHANGED <<client, pc, run, file, mispVars, sent, touched>>
    BY <1>13 DEF vars, lockVars, history, byOthers
  <2>2. QED
    BY <1>2, <2>1 DEF At
<1>14. QED
  BY <1>3, <1>4, <1>5, <1>6, <1>7, <1>8, <1>9, <1>10, <1>11, <1>12, <1>13, NextCases DEF Works

-----------------------------------------------------------------------------
(* The theorems *)

LEMMA OrderlyInit == Init => SyncOrderly
<1> SUFFICES ASSUME Init PROVE SyncOrderly
  OBVIOUS
<1>1. \A r \in Run : pc[r] = "start" /\ ~run[r].warm
  BY NoMemoryFields DEF Init
<1>2. LockKept
  BY SyncAssumption DEF Init, Lock!LockInit, LockKept, Lock!HolderSession, Lock!Holds
<1>3. RowsInOrder
  BY <1>1, KeysInit, SettledInit DEF RowsInOrder, At, Released, WarmHolds
<1>4. QED
  BY <1>1, <1>2, <1>3, TypesInit, RunsInit DEF SyncOrderly, HasItems, Begun, Init

LEMMA OrderlyStep == SyncOrderly /\ [Next]_vars => SyncOrderly'
<1> SUFFICES ASSUME SyncOrderly, [Next]_vars PROVE SyncOrderly'
  OBVIOUS
<1>1. OrgSyncTypeOK /\ LockKept /\ HasItems /\ RunsInOrder /\ RowsInOrder
  BY DEF SyncOrderly
<1>2. OrgSyncTypeOK' /\ LockKept' /\ HasItems' /\ RunsInOrder'
  BY <1>1, TypesStep, LockStep, HasItemsStep, RunsStep
<1>3. ASSUME lost' = {}
      PROVE  /\ \A r \in Run : At(r, "apply")' => Working(r)'
             /\ KeysTold'
             /\ \A r \in Run : Released(r)'
             /\ SettledHolds'
             /\ \A r \in Run : WarmHolds(r)'
  <2>1. lost = {}
    BY <1>1, <1>3, LockSteps
  <2>2. QED
    BY <1>1, <1>2, <2>1, WorkingStep, KeysStep, ReleasedStep, SettledStep, WarmStep
<1>4. RowsInOrder'
  BY <1>3 DEF RowsInOrder
<1>5. QED
  BY <1>2, <1>4 DEF SyncOrderly

LEMMA AlwaysOrderly == Spec => []SyncOrderly
  BY OrderlyInit, OrderlyStep, PTL DEF Spec

(* What a run at its end or at its disabling knows of the row of the        *)
(* digests is so of MISP's keys, but for the doubtful ones.                 *)
LEMMA KeysOfRow ==
  ASSUME SyncOrderly, lost = {}, NEW r \in Run, Alive(r), pc[r] \in UnderLock, ~AtServers(r)
  PROVE  \A s \in Server : s \in doubt \/ key[s] = sent[s]
<1>1. OrgSyncTypeOK /\ LockKept /\ KeysTold
  BY DEF SyncOrderly, RowsInOrder
<1>2. \A q \in Run : AtServers(q) => Alive(q) /\ pc[q] \in UnderLock
  BY DEF AtServers, At, Alive, UnderLock
<1>3. \A q \in Run : ~AtServers(q)
  BY <1>1, <1>2, AloneAtWork
<1>4. QED
  BY <1>1, <1>3 DEF KeysTold

(* The types; a run holds the lock from its snapshot to its end; and a run  *)
(* that comes right after one that succeeded with the same file sends MISP  *)
(* no change ("With nothing changed, it only reads", sync.py).              *)
THEOREM SyncInvariant == Spec => []OrgSyncInv
<1>1. ASSUME SyncOrderly
      PROVE  OrgSyncInv
  <2>1. OrgSyncTypeOK /\ LockKept
    BY <1>1 DEF SyncOrderly
  <2>2. WarmRunReads
    BY <1>1 DEF SyncOrderly, RowsInOrder, WarmHolds, WarmRunReads
  <2>3. QED
    BY <2>1, <2>2 DEF OrgSyncInv
<1>2. QED
  BY <1>1, AlwaysOrderly, PTL

(* Exit 0 tells the truth (sync.apply's summary): all of the file is in     *)
(* MISP and what it does not name is disabled, whatever failed or died      *)
(* before.                                                                  *)
THEOREM SuccessIsTrue == Spec => []SuccessTells
<1>1. ASSUME SyncOrderly
      PROVE  SuccessTells
  <2>1. SUFFICES ASSUME lost = {}, NEW r \in Run, At(r, "release"), NEW i \in Item, i \notin touched
                 PROVE  AsFile(file[r], i)
    BY DEF SuccessTells
  <2>2. AsRow(file[r], i)
    BY <1>1, <2>1 DEF SyncOrderly, RowsInOrder, Released
  <2>3. Alive(r) /\ pc[r] \in UnderLock /\ ~AtServers(r)
    BY <2>1 DEF At, Alive, UnderLock, AtServers
  <2>4. i \in Server => i \in doubt \/ key[i] = sent[i]
    BY <1>1, <2>1, <2>3, KeysOfRow
  <2>5. QED
    BY <2>2, <2>4 DEF AsRow, AsFile
<1>2. QED
  BY <1>1, AlwaysOrderly, PTL

(* Only the disabling of a run, or others, turn an item off.                *)
LEMMA WhoDisables ==
  ASSUME OrgSyncTypeOK, [Next]_vars, NEW i \in Item, Enabled(i), misp'[i] = "off",
         i \notin touched', ~Migration
  PROVE  \E r \in Run : Disable(r, i)
<1>1. misp'[i] # misp[i]
  BY DEF Enabled
<1>2. ASSUME NEW r \in Run, NEW j \in Item, ItemAct(r, j)
      PROVE  Disable(r, i)
  <2>1. j = i
    BY <1>1, <1>2, ItemEffects
  <2>2. ~(Skip(r, j) \/ Unresolved(r, j))
    <3>1. Skip(r, j) => misp' = misp
      BY DEF Skip, mispVars
    <3>2. Unresolved(r, j) => misp' = misp \/ misp' = [misp EXCEPT ![j] = "differs"]
      BY DEF Unresolved
    <3>3. QED
      BY <1>1, <2>1, <3>1, <3>2 DEF OrgSyncTypeOK
  <2>3. ASSUME Make(r, j) \/ MakeFails(r, j)
        PROVE  FALSE
    <3>1. UNCHANGED misp \/ Take(r, j, "on") \/ Take(r, j, "differs")
      BY <2>3 DEF Make, MakeFails, mispVars
    <3>2. QED
      BY <1>1, <2>1, <3>1 DEF Take, OrgSyncTypeOK
  <2>4. QED
    BY <1>2, <2>1, <2>2, <2>3 DEF ItemAct
<1>3. ASSUME NEW r \in Run, Waits(r) \/ Die(r)
      PROVE  FALSE
  BY <1>1, <1>3, Quiet DEF mispVars
<1>4. ASSUME NEW r \in Run,
             \/ Fetch(r) \/ FetchFails(r) \/ EndAct(r) \/ ServersUnread(r) \/ EndApply(r)
             \/ ReleaseLock(r)
      PROVE  FALSE
  BY <1>1, <1>4 DEF Fetch, FetchFails, EndAct, EndRefs, EndTagsUsers, EndServers, EndStep,
     ServersUnread, EndApply, ReleaseLock, mispVars
<1>5. ASSUME NEW j \in Item, Touch(j) \/ Login(j)
      PROVE  FALSE
  BY <1>1, <1>5 DEF Touch, Login, OrgSyncTypeOK
<1>6. ~UNCHANGED vars
  BY <1>1 DEF vars, mispVars
<1>7. QED
  BY <1>2, <1>3, <1>4, <1>5, <1>6, NextCases DEF Works

(* "The failed step disables nothing of its kind" and "It leaves every      *)
(* account that the identity provider backs" (docs/org-sync.md): of every   *)
(* step of every run.                                                       *)
THEOREM DisablingHasCause == Spec => DisabledWithCause
<1>1. ASSUME SyncOrderly, [Next]_vars, lost = {}, NEW i \in Item, Enabled(i), misp'[i] = "off",
             i \notin touched', ~Migration
      PROVE  i \notin backed \ late /\ AllNamedFirst(i)
  <2>1. OrgSyncTypeOK /\ LockKept /\ HasItems /\ RunsInOrder /\ RowsInOrder
    BY <1>1 DEF SyncOrderly
  <2>2. PICK r \in Run : Disable(r, i)
    BY <1>1, <2>1, WhoDisables
  <2>3. ItemAct(r, i) /\ At(r, "apply") /\ i \in run[r].todo
    BY <2>2 DEF ItemAct, Disable
  <2>4. TodoNarrows(r) /\ Working(r)
    BY <1>1, <2>1, <2>3 DEF RunsInOrder, RowsInOrder
  <2>5. i \notin file[r].items /\ touched' = touched
    BY <2>1, <2>2, <2>3, <2>4, ItemPlace
  <2>6. /\ run[r].step = OffPlace(Kind[i]) /\ Kind[i] \in run[r].done /\ i \notin run[r].backed
    BY <2>1, <2>3, <2>4, <2>5, TodoTurn
  <2>7. i \notin backed \ late
    BY <1>1, <2>4, <2>5, <2>6 DEF Working, BackedKnown
  <2>8. run[r].step \in {7, 9, 10}
    BY <2>1, <2>2, StepsAt DEF Disable
  <2>9. AtStep(r, DOMAIN Off)
    BY <2>2 DEF Disable, AtStep
  <2>10. \A s \in Server : s \in doubt \/ key[s] = sent[s]
    BY <1>1, <2>3, <2>8, KeysOfRow DEF At, Alive, UnderLock, AtServers
  <2>11. ASSUME NEW n \in Named(r, Kind[i]), n \notin touched
         PROVE  AsFile(file[r], n)
    <3>1. n \in Item /\ n \in file[r].items /\ Kind[n] = Kind[i]
      BY <2>1, <2>11, SyncAssumption DEF Named, OrgSyncTypeOK
    <3>2. /\ Place(Kind[n]) \in 1..8 /\ Place(Kind[n]) < run[r].step
          /\ Turn(file[r], n) = Place(Kind[n])
      BY <2>6, <2>8, <3>1, PlaceBounds, KindNames DEF Turn
    <3>3. ~Ahead(r, n)
      <4>1. n \notin run[r].todo
        BY <2>1, <2>4, <3>1, <3>2, <2>8, TodoTurn
      <4>2. QED
        BY <2>8, <3>2, <4>1 DEF Ahead
    <3>4. Made(r, n) \/ Excused(r, n)
      BY <2>4, <2>11, <3>1, <3>3 DEF Working, NamedTells
    <3>5. ~Excused(r, n)
      <4>1. run[r].step # Place(Kind[n])
        BY <2>8, <3>2
      <4>2. OffPlace(Kind[n]) \notin 1..(run[r].step - 1)
        BY <2>6, <2>8, <3>1
      <4>3. QED
        BY <2>6, <3>1, <4>1, <4>2 DEF Excused
    <3>6. KeyAt(r, n) = sent[n]
      BY <2>8 DEF KeyAt
    <3>7. QED
      BY <2>10, <3>1, <3>4, <3>5, <3>6 DEF Made, AsFile
  <2>12. file[r].items # {}
    BY <2>1, <2>3 DEF HasItems, Begun, At
  <2>13. QED
    BY <2>7, <2>9, <2>11, <2>12 DEF AllNamedFirst
<1>2. SyncOrderly /\ [Next]_vars =>
        [lost = {} => \A i \in Item : Enabled(i) /\ misp'[i] = "off" /\ i \notin touched' /\ ~Migration
           => i \notin backed \ late /\ AllNamedFirst(i)]_vars
  BY <1>1
<1>3. QED
  BY <1>2, AlwaysOrderly, PTL DEF Spec, DisabledWithCause
=============================================================================
