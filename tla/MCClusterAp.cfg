CONSTANTS
    a1 = a1
    Addr <- MCAddr
    Self = Self
    NilDB = NilDB
    PodClass <- MCPodClassAp
    PodOrder <- MCPodOrder
    DownAfterNoAlive = 1
    SweepInterval = 1
    MaxWeights = 3
SPECIFICATION Spec
INVARIANTS NoDuplicateMember
