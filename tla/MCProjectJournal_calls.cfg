\* Three processes, one of them without an identity, one operation each; one failing
\* system call, whose rollback may fail too, and one kill anywhere.
SPECIFICATION FairSpec
CONSTANTS
    p1 = p1
    p2 = p2
    p3 = p3
    ours = ours
    foreign = foreign
    Procs = {p1, p2, p3}
    Findings = {f1}
    Identities = {ours, foreign}
    NoIdentity = NoIdentity
    NoEvent = NoEvent
    NoProc = NoProc
    IdentityOf <- OneWithout
    ObservedAs = {"open"}
    Targets = {"fixed", "dismissed"}
    MaxOps = 1
    MaxFaults = 1
    MaxCrashes = 1
INVARIANTS
    ChainUnbroken
    NoLostUpdate
    ReadsAreFinal
    AckedOnceInOrder
    ReplayAgrees
PROPERTIES
    CorruptionIsReal
    TornIsFrozen
    RefinesLifecycle
    EveryCallReturns
