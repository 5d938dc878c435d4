CONSTANTS
    Part = {p1, p2}
    Caller = {c1, c2}
    MaxVersion = 2
    MaxBacklog = 2
SPECIFICATION FairSpec
INVARIANTS
    ReloadIsSound
PROPERTIES
    NeverOlder
    ImplementsDelivery
    EveryCallerAnswered
