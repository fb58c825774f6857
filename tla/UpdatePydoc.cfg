CONSTANTS
    Directories <- MCDirectories
    Templates <- MCTemplates
    Filters <- MCFilters
SPECIFICATION Spec
CHECK_DEADLOCK FALSE
INVARIANTS
    ScrapeRaisesOnlyFor
    FunctionsHaveTheirOwn
    SlotHoldsItsOwn
    SlotDescribesItsOwn
