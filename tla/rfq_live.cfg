SPECIFICATION FairSpec
CONSTANTS
    Suppliers = {s1, s2}
    MaxTries = 2
    MaxQuotes = 1
PROPERTIES
    SerialKeepsQuotes
    SerialRespondedHasQuote
    EventuallyExpired
CHECK_DEADLOCK FALSE
