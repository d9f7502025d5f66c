SPECIFICATION TenantsSpec
CONSTANTS
    Account = {ann, bob}
    Password = {p1, p2}
    Visit = {v1, v2}
    Handler = {h1, h2}
    Link = {l1, l2}
    App = {x1, x2}
    Rotations = 2
    Nothing = Nothing
    Tenant = {x1, x2}
    Group = {g1, g2}
    Template = {m1, m2}
    Name = {n1, n2}
    Phone = {f1, f2, f3}
    GroupMax = 2
    TemplateMax = 2
    NoRow = NoRow
SYMMETRY Symmetry
CONSTRAINT OneSide
INVARIANTS
    VisitsAreCurrent
    OnlyTheNewest
    OneTrial
