SPECIFICATION DeploymentSpec
CONSTANTS
  Operators = {o1, o2}
  Jobs = {j1, j2}
SYMMETRY DeploymentSymmetry
INVARIANTS
  CurrentIsComplete
  SchemaIsRepairable
  RequestsAreEquipped
  RunsAreEquipped
