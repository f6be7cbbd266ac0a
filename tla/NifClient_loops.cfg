CONSTANTS
    Workers = {w1}
SPECIFICATION Spec
INVARIANT ConnectedHasEventLoops
