SPECIFICATION Spec
CONSTANTS
  role = role
  org = org
  tag = tag
  member = member
  local = local
  partner = partner
  tlp = tlp
  group = group
  key1 = key1
  key2 = key2
  Run = {r1, r2}
  None = none
  Item <- MCItem
  Kind <- MCKind
  Needs <- MCNeeds
  Files <- MCFiles
  MaxFaults = 1
  MaxTouched = 1
  MaxLost = 0
SYMMETRY Symmetry
INVARIANTS OrgSyncInv SuccessTells
PROPERTY DisabledWithCause
CHECK_DEADLOCK FALSE
