\* Members share nothing but their callers, and every property is about one
\* member: one is enough, with a caller that gives up, one that comes after it
\* and one that finds the pool empty.
CONSTANTS
    Members = {m1}
    Callers = {c1, c2, c3}
    Kinds = {"info", "operate", "unfinished", "unanswered"}
    Boot = Boot
    Idle = Idle
    Pool = Pool
    Nobody = Nobody
SPECIFICATION FairSpec
INVARIANTS TypeOK AbandonedIsNotReused OneCallAtATime MixOnlyAfterTimeout
PROPERTY MembersComeBack
