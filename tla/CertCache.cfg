SPECIFICATION CacheSpec
CONSTANTS
    h1 = h1  h2 = h2  h3 = h3  a = a  b = b  i1 = i1  i2 = i2
    Hash = {h1, h2, h3}
    Name = {a, b}
    SAN <- Subjects
    Managed = {h1, h2}
    IssuerKey <- Issuers
    Issuer = {i1, i2}
    AnyIssuer = AnyIssuer
    Capacity = {0, 1, 2}
    Actor = {w1, w2}
INVARIANTS IndexSound FoundByName
PROPERTIES GrowthBounded
