\* One process per way of waiting.  Two calls are enough for one that is given
\* up and one that waits while the late answer arrives; the safety properties
\* are proved for any number.  No symmetry: it is not sound for liveness.
CONSTANTS
    Procs = {p1, p2}
    Refs = {r1, r2}
    Selective = {p1}
    NoProc = NoProc
SPECIFICATION FairSpec
INVARIANTS TypeOK OwnAnswer MailIsFromOwnCall CallbackDataHasOneHolder
PROPERTIES EndIsFinal CallbackDataIsReleased ImplementsAsyncCall
\* All the references are used up, or the VM is down.
CHECK_DEADLOCK FALSE
