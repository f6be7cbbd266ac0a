\* Two operations at most at a time, with and without the discipline that
\* keeps them apart from disconnect.
CONSTANTS
    Workers = {w1, w2}
SPECIFICATION Spec
INVARIANTS TypeOK FlagFollowsCluster DestroyedIsUninitialized NoUseOfClosedClient
