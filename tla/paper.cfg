\* Two fills settled, one not, two corrections and a corporate action over three days.
CONSTANTS
    Codes = {"A"}
    Fills <- MCFills
    Batches <- MCBatches
    LegacyFills <- MCLegacyFills
    Adjustments <- MCAdjustments
    Actions <- MCActions
    Lag <- DefaultLag
    LastDay = 3
    Ahead = 1
    OpeningCash = 100
    MaxCorrections = 1
SPECIFICATION Spec
INVARIANTS
    TypeOK
    
    PositionsFollowLots

    
    
