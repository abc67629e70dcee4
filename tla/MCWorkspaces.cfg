SPECIFICATION Spec
CONSTANTS
    Email = {e1, e2}
    Slug = {s1}
    Request = {r1, r2}
    Purchase = {x1, x2}
    MaxOrders = 1
    MaxEvents = 1
SYMMETRY Symmetry
CHECK_DEADLOCK FALSE
INVARIANTS
    TypeOK
    SignUpIsWhole
    BillingFollowsPurchases
