SPECIFICATION FairSpec
CONSTANTS
  Requests = {r1, r2}
  SaNames = {jane}
  AdminNames = {jane}
  Groups <- MCGroups
  ConfigGroups <- MCConfigGroups
  MaxDisturbances = 2
INVARIANTS TypeOK GrantsMandated OwnersManaged BoundRolesGenerated
PROPERTIES ForeignObjectsKept LedgerSpec Answered DeleteRevokes Converges
