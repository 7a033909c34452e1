CONSTANTS
    a1 = a1
    Addr <- MCAddr
    Self = Self
    NilDB = NilDB
    PodClass <- MCPodClass
    PodOrder <- MCPodOrder
    DownAfterNoAlive = 1
    SweepInterval = 1
    MaxWeights = 3
SPECIFICATION Spec
INVARIANT NoNilMember
