SPECIFICATION Spec
CONSTANTS
    c0 = c0
    c1 = c1
    p0 = p0
    p1 = p1
    t1 = t1
    t2 = t2
    x1 = x1
    x2 = x2
    y1 = y1
    s1 = s1
    Tenants = {t1, t2}
    Workers = {w1, w2}
    Collections = {c0, c1}
    Providers = {p0, p1}
    SystemIds = {c0, p0}
    Texts = {x1, x2, y1, s1}
    Author <- MCAuthor
    ProviderOf <- MCProviderOf
    FirstOwner <- MCOwner
    FirstText <- MCText
    NoText = NoText
    NoId = NoId
INVARIANTS
    AcknowledgedWriteKept
    TenantsApart
PROPERTIES
    ReadOnlyHolds
CHECK_DEADLOCK FALSE
