SPECIFICATION FairSpec
CONSTANTS
    Sources <- TwoSources
    NumSources = 2
    BatchSize = 2
    PlaylistOf <- MCPlaylistOf
    Playlists = {"p", "q"}
    Proxied = {"p"}
    Listings <- MCListings
    Items <- MCItems
    Clients <- MCClients
    Values <- MCValues
    AttrKeys <- MCAttrKeys
    TagKeys <- MCTagKeys
    Whitelisted = {"EXTGRP"}
    HashID <- MCHashID
    URLs <- MCURLs
    BadURLs = {"%"}
    FileLink <- MCFileLink
    Parts <- MCParts
    AttrParts <- MCAttrParts
    Found <- MCFound
    TagText <- MCTagText
    Alone <- MCAlone
    Beginnings <- MCBeginnings
    Chunks <- MCChunks
    MaxInt = 50
    Conditions <- MCConditions
    StreamLink <- MCStreamLink
    Absent = Absent
INVARIANTS
    AllSourcesRead
    SortConsistent
    OneChannelPerID
    EverySourceOnce
    BestSourceFirst
    ReadsBack
PROPERTIES
    RequestReturns
    DedupKeepsBest
