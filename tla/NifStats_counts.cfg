\* Two operations of either kind and one node: they meet on every counter and
\* on the node's first entry.  Between 2 and 5 a peak gets too old to be kept
\* and outdated for a poll.
CONSTANTS
    Ops = {o1, o2}
    Nodes = {n1}
    NoNode = NoNode
    Modulus = 4
    Ttl = 1
    Outdated = 1
    Clock = {2, 5}
    MaxSwitches = 1
SPECIFICATION Spec
SYMMETRY OpSymmetry
INVARIANTS TypeOK CountersExact PeakWasReached
