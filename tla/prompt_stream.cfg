SPECIFICATION FairSpec
CONSTANTS
    MaxEvents = 4
    BeatEvery = 2
    HeartbeatTimeout = 1
    Header = 5
INVARIANTS
    ContentExact
    TokensExact
PROPERTIES
    PromptEnds
