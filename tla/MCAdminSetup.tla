---------------------------- MODULE MCAdminSetup ----------------------------
(***************************************************************************)
(* Three runs on an empty database, on a migrated one, or on one whose     *)
(* user 1 was deleted, each with the chart's defaults or one of four       *)
(* environments, which differ in every variable; one names no password.    *)
(***************************************************************************)
EXTENDS AdminSetup

E(email, org, uuid, password, key) ==
  [email |-> email, org |-> org, uuid |-> uuid, password |-> password, key |-> key]

MCValue ==
  {None, "admin@admin.test", "admin@cert", "old", "other", "ORGNAME", "CERT", "SOC",
   "u0", "u1", "p1", "p2", "k1", "k2"}

MCEnv ==
  {E("admin@admin.test", "ORGNAME", None, "p1", None),
   E("admin@cert", "CERT", None, "p1", "k1"),
   E("admin@cert", "CERT", "u1", "p2", "k1"),
   E("admin@admin.test", "SOC", "u1", "p1", "k2"),
   E("admin@cert", "ORGNAME", None, None, None)}

Old == <<[name |-> "old", uuid |-> "u0", generated |-> FALSE]>>
MCDatabase ==
  {[user |-> NoUser, others |-> FALSE, orgs |-> <<>>],
   [user |-> NoUser, others |-> TRUE, orgs |-> Old],
   [user |-> [email |-> "old", org |-> 1, password |-> "old", forced |-> TRUE],
    others |-> TRUE, orgs |-> Old]}
=============================================================================
