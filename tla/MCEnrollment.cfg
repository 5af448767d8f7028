\* Two links, four ticks, floods of up to three failures within a tick.
CONSTANTS
    l1 = l1
    l2 = l2
    bogus = bogus
    Link <- MCLink
    Bogus = bogus
    EnrollTTL = 3
    RedeemFailureWindow = 2
    MaxRedeemFailures = 2
    MaxTime = 4
    MaxFlood = 3

SPECIFICATION EnrollSpec
SYMMETRY MCSymmetry

INVARIANTS
    SingleUse
    GoodLinksArePending
    LimiterCountsTheWindow

PROPERTIES
    LimiterSparesGoodLinks
