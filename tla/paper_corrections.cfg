\* The instance of paper.cfg, where a correction may be applied twice.
CONSTANTS
    Codes = {"A"}
    Fills <- MCFills
    Batches <- MCBatches
    LegacyFills <- MCLegacyFills
    Adjustments <- MCAdjustments
    Actions <- MCActions
    Lag <- DefaultLag
    LastDay = 3
    Ahead = 1
    OpeningCash = 100
    MaxCorrections = 2
SPECIFICATION Spec
CHECK_DEADLOCK FALSE
INVARIANTS
    CorrectedOnce
