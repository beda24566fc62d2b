\* Three processes, one append each; one kill anywhere, no failing system call.
SPECIFICATION Spec
CONSTANTS
    p1 = p1
    p2 = p2
    p3 = p3
    ours = ours
    foreign = foreign
    Procs = {p1, p2, p3}
    Findings = {f1}
    Identities = {ours, foreign}
    NoIdentity = NoIdentity
    NoEvent = NoEvent
    NoProc = NoProc
    IdentityOf <- OneForeigner
    ObservedAs = {"open"}
    Targets = {"fixed", "dismissed"}
    MaxOps = 1
    MaxFaults = 0
    MaxCrashes = 1
PROPERTIES
    AppendTakesEffect
