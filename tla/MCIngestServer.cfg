\* Three requests at a time for two events, of one signature or of two, with
\* room for one payload.  No symmetry: it is not sound for liveness.
CONSTANTS
    Signature = {s1, s2}
    Event = {e1, e2}
    Report = {r1, r2}
    Handler = {h1, h2, h3}
    Quota = 1
    MaxBatch = 2
    None = None
SPECIFICATION FairSpec
INVARIANTS
    TypeOK
    CountersMatchRows
    EveryReportWasAskedFor
PROPERTIES
    ClosedPromisesNothingNew
    Lifecycle
    RequestsEnd
\* Event and report ids are used up.
CHECK_DEADLOCK FALSE
