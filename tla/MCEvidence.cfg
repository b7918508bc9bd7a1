SPECIFICATION ESpec
CONSTANTS
    Books <- Files
    Scale = 4
    ToleranceUp = 1
    ToleranceDown = 50
    MaxNumber = 4
    UnstorableTexts = {7}
    UnstorableAmounts = {70}
    ActiveSuppliers = {1}
INVARIANTS
    NoUnitBackedTwice
    MatchedIsBacked
    PreviousIsEarlierClaims
    EveryReceiptCounts
    ExposureIsBounded
    EvidenceMatchesTheReport
    PagesAgree
CHECK_DEADLOCK FALSE
