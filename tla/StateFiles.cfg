CONSTANTS
  None = None
  f1 = f1
  Machines = {k1, k2}
  FriendlyNames = {f1}
  Label <- OneLabel
SPECIFICATION SFSpec
SYMMETRY MachineSymmetry
INVARIANTS ForgottenNameIsFree ForgottenMachineLeaves
