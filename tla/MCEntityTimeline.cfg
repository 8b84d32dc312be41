SPECIFICATION FairSpec
CONSTANTS
    Entity = {"big", "small"}
    NoEntity = NoEntity
    Event = {11, 12, 13, 14, 15, 16}
    EventsOf <- MCEventsOf
    DateOf <- MCDateOf
    Limit = 2
    MaxCalls = 3
INVARIANTS
    ShownInOrder
    GapsOnlyAtPageEnds
PROPERTIES
    LoadingEnds
