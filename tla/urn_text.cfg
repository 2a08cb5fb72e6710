SPECIFICATION Spec
CONSTANTS
    None = none
    Heads <- MCHeads
    Tokens <- MCTokens
    UrnTokens <- MCUrnTokens
    PathTokens <- MCPathTokens
    MaxTail = 6
    EntryKey <- MCEntryKey
INVARIANTS QueryIsFirst RoundTrip KeyIsResolved
CHECK_DEADLOCK FALSE
