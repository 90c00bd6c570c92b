\* Up to two runs commit between the SELECTs and the pages of one request.
CONSTANTS
    Blank = Blank
    None = None
    Other = other
    Unknown = unknown
    Date <- MCDate
    Country <- MCCountry
    AreaLabelMap <- MCAreaLabelMap
    Payload <- MCPayload
    Query <- MCQuery
    Lookup <- MCLookup
    PageSize = 2
    MaxRuns = 3
SPECIFICATION Spec
INVARIANTS
    TypeOK
    
    AnswersAddUp
    AreaCountsAgreeWithFilter
    FoundByEmailFoundByDomain
    ListWalkSlipsOnlyByChange
    
    CursorPollMissesNothing
    
