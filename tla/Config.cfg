SPECIFICATION Spec
CONSTANTS
    UintMax = 1000000000
    Requests <- MCRequests
    EncOffers <- MCEncOffers
    EncMaxChange = 2
    Pictures <- MCPictures
    EncMayFail <- MCEncMayFail
    DecOffers <- MCDecOffers
    DecMaxChange = 2
    Streams <- MCStreams
    Strides <- MCStrides
    MaxInfo = 1
    DecMayFail <- MCDecMayFail
INVARIANTS
    LayersDecodable
    LevelCovers
    InputDescribed
    RateFollows
    BlockFits
    AspectsFollow
CHECK_DEADLOCK FALSE
