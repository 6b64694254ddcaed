SPECIFICATION Spec
CONSTANTS
  BarSteps = 2
  Groups <- MCGroups
  Sections <- MCSections
INVARIANT GhostsRenewed
