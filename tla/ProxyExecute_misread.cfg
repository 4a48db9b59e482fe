SPECIFICATION FairSpec
CONSTANTS
    q1 = q1
    q2 = q2
    shop = shop
    spare = spare
    gone = gone
    k1 = k1
    k2 = k2
    k3 = k3
    chat = chat
    messages = messages
    NoFormat = NoFormat
    NoKey = NoKey
    Free = Free
    Requests <- TwoRequests
    Routes <- ThreeRoutes
    Keys <- ThreeKeys
    Formats <- TwoFormats
    Plan <- Plans
    FormatOrder <- Orders
    Unusable <- OneUnusable
    Structured = {q1, q2}
    DeclaresStructured = {spare, gone}
    KeyOf <- CredentialOf
    ProviderOf <- Accounts
    Hint <- OneHint
    ClientSets = {{k1}, {k2}}
    Failures <- SomeFailures
    MaximumAttempts = 3
PROPERTIES
    AccountErrorsAreNoEvidence
