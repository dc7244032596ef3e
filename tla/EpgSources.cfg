SPECIFICATION FairSpec
CONSTANTS
    Sources <- TwoSources
    NumSources = 2
    BatchSize = 3
    Feeds <- MCFeeds
    Items <- MCItems
    IDs <- MCIDs
    Names <- MCNames
    PlaylistIDs <- MCPlaylistIDs
    HashID <- MCHashID
    Absent = Absent
INVARIANTS
    TypeOK
    DecoderExclusive
    WellFormed
    NothingLost
    ChannelsNotMixed
PROPERTIES
    RequestReturns
