CONSTANTS
    Procs = {p1, p2}
    Admins = {a1, a2}
    g1 = g1
    g2 = g2
    g3 = g3
    Grants = {g1, g2, g3}
    TypeOf <- MCTypeOf
    Source <- MCSource
    Amounts = {1, 2}
    Offers <- MCOffers
    Asks <- MCAsks
    Nobody = Nobody
    NoGrant = NoGrant
SPECIFICATION Spec
SYMMETRY Symmetry
INVARIANT TypeOK
INVARIANT RecordIsPaid
INVARIANT RowsAsRead
INVARIANT NeverOverdrawn
INVARIANT PriorityOrder
PROPERTY OnlyFromActive
