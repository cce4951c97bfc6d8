SPECIFICATION CertSpec
CONSTANTS
    Procs = {p1, p2}
    Observed = p1
    u1 = u1
    u2 = u2
    u3 = u3
    u4 = u4
    Users <- MCUsers
    KeyFormat <- MCKeyFormat
    BadCerts = {u2, u3, u4}
    NoOne = NoOne
    Calls = {c1, c2, c3}
    Names = {n1, n2}
    MaxEntries = 1
INVARIANTS CertTypeOK OneRoot PublishedIsStored RefusedOnlyAfterFailure HandedOutVerifies
PROPERTY EveryCallReturns
