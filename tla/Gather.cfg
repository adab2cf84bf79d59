SPECIFICATION FairSpec
CONSTANTS
    Rows <- AllRows
    FofaHits <- Fofa
    HunterHits <- Hunter
    Limits = {3}
    PageSize = 2
    NoUrl = NoUrl
    Sources <- AllSources
    Offers <- AllOffers
    Payloads <- Answered
    Protocol = "socks5"
    NoKey = NoKey
    Concurrency = 2
    Manual <- ManualLists
    Comment = Comment
INVARIANTS
    HunterComplete
    AsksAllTargets
    FirstSourceWins
PROPERTIES
    GatheringEnds
