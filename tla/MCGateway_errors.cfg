CONSTANTS
    Conversations = {c1, c2}
    Lister = lister
    Default = "mock"
    Routing = TRUE
    c1 = c1
    c2 = c2
    Names <- TwoClients
    ErrorStatuses = {401, 501}
    Texts <- AnyTexts
    MaxRequests = 3
    MaxPieces = 1
SPECIFICATION Spec
CHECK_DEADLOCK FALSE
INVARIANT UpstreamErrorsHaveCodes
