CONSTANTS
  n1 = n1
  n2 = n2
  o1 = o1
  o2 = o2
  o3 = o3
  c1 = c1
  c2 = c2
  None = None
  Names = {n1, n2}
  Owners = {o1, o2}
  Clients = {c1, c2}
  Ops = {"create", "setup", "delete"}
  MaxGeneration = 1
  MaxLate = 1
SPECIFICATION Spec
SYMMETRY Symmetry
INVARIANTS InstancesTracked
PROPERTIES RegistrySpec
