SPECIFICATION Spec
CONSTANTS
    Seeds <- MCSeeds
    Forms <- MCForms
    NormalId <- MCNormalId
    Queries <- MCQueries
    IllFormedIds = {"_x"}
    Risks = {}
    MaxEvents = 2
    MaxDrafts = 2
    MaxFaults = 1
    MaxLoads = 2
    MaxFilters = 1
INVARIANTS
    TypeOK
    UniqueIds
    CertifiedIsReady
    DraftLinksResolve
    TrailTellsDecision
    StoredIsShown
