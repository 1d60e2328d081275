SPECIFICATION Spec
CONSTANTS
    s1 = s1
    s2 = s2
    l1 = l1
    l2 = l2
    v1 = v1
    v2 = v2
    read = read
    write = write
    aud1 = aud1
    aud2 = aud2
    Sessions = {s1, s2}
    Scopes = {read, write, aud1, aud2}
    Lists = {l1, l2}
    ContentOf <- MCContentOf
    Servers = {v1, v2}
    AudienceOf <- MCAudienceOf
    AudiencesOf <- MCAudiencesOf
    AudScope <- MCAudScope
    Endpoints <- MCEndpoints
    Adapters <- MCAdapters
    Lifetime = 3
    Margin = 2
    MaxTime = 3
    MaxCalls = 2
    MaxArgs = 2
    MaxRequests = 2
    None = None
SYMMETRY Symmetry
INVARIANTS
    MarginSuffices
    AuthorizedAsAsked
    ScopesRestored
