CONSTANTS
    Ops = {o1}
    Nodes = {n1}
    NoNode = NoNode
    Modulus = 4
    Ttl = 1
    Outdated = 1
    Clock = {2, 5}
    MaxSwitches = 2
SPECIFICATION Spec
INVARIANT PollKeepsCurrent
