\* Three commands; one init at a time, which may follow a removed or edited configuration.
SPECIFICATION FairSpec
CONSTANTS
    Processes = {p1, p2, p3}
    UserIds = {mine}
    OneInit = TRUE
    MaxChanges = 2
INVARIANTS
    TypeOK
    OpenedAgree
    StaysUsable
PROPERTIES
    IdentityIsForever
    EveryCommandEnds
