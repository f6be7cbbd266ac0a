CONSTANTS
    DefaultTtl = 2
    NifCalls <- MCNifCalls
    PortCalls <- MCPortCalls
    StoredMaps <- MCStoredMaps
    MapBins <- MCMapBins
    RepeatedBin <- MCRepeatedBin
    Repetitions <- MCRepetitions
    Counter = 4
    Junk = {0, 2, 4}
    MaxValue = 2
SPECIFICATION FairSpec
INVARIANTS TypeOK AnswersAreTerms ReadingsAgree WholePutsAreAnswered
PROPERTIES WritesAreExact RepeatedPutEnds
CHECK_DEADLOCK FALSE
