SPECIFICATION Spec
CONSTANTS
  Requests = {r1}
  SaNames = {jane}
  AdminNames = {}
  Groups <- MCGroups
  ConfigGroups <- MCConfigGroups
  MaxDisturbances = 1
PROPERTY CreatedMeansBound
