\* Three runs of a batch of two orders; the events around them are bounded.
CONSTANTS
    Count = 2
    Approved <- MCApproved
    NewShares = {3}
    Markets <- MCMarkets
    Decisions = {"approved", "rejected"}
    OpeningCash = 10
    Bound <- MCBound
SPECIFICATION Spec
CHECK_DEADLOCK FALSE
INVARIANTS
    TypeOK
    FillsAgree
    AtMostOneSlips
PROPERTIES
    ExecutedIsBooked
