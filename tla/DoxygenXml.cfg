CONSTANTS
    Rows <- MCRows
    Documents <- MCDocuments
    Addresses = {"0x7f10", "0x7f20"}
    Generations = 1
SPECIFICATION Spec
INVARIANTS
    DescriptionText
    PrintedIsXml
    PrintingIsStable
    LiteralEndsOnlyFor
