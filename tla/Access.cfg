SPECIFICATION FairSpec
CONSTANTS
    Absent = Absent
    Commands = {"ffmpeg", "vlc", "{{"}
    BadCommands = {"{{"}
    VarNames = {"message"}
    Texts = {"one", "two", "Rate limit exceeded", "Link has expired", "Unable to play stream"}
    Secrets = {"", "1", "2"}
    Salts = {"", "s", "t"}
    Names <- MCNames
    Labels <- MCLabels
    Grace = 1
    ConfigFiles <- MCConfigFiles
    Offers <- MCOffers
    Requests = {r1, r2}
    MaxLinks = 1
    MaxAge = 2
INVARIANTS
    ValidConfigStarts
    ConfigOverrides
    CachedHasTTL
    LinkHonoured
    OwnPlaylistsOnly
    GaugeCountsViewers
PROPERTIES
    IdleLabelsGone
