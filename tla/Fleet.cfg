CONSTANTS
  m1 = m1
  linux = linux
  Machines = {m1}
  Platforms = {linux}
  PlatformOf <- OnLinux
  Target = linux
  FirstBuild = 2
  MaxBuild = 3
  AgentBuilds = {1}
SPECIFICATION FleetFairSpec
INVARIANTS NoMachineVanishes 
PROPERTY DeployedIsInstalled
