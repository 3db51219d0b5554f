CONSTANT MaxBuild = 3
SPECIFICATION UpdFairSpec
INVARIANT AlwaysABinary
PROPERTY UpdateConverges
