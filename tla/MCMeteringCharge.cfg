SPECIFICATION Spec
CONSTANTS
    o1 = o1
    o2 = o2
    t2 = t2
    k1 = k1
    k2 = k2
    Orgs = {o1}
    Usages = {u1}
    TopUps = {t1}
    Closes = {c1, c2}
    OrgOf <- MCOrgOf
    ClientKeys = {k1, k2}
    KeyOf <- MCKeyOf
    AmountOf <- MCAmountOf
    Plans = {"free", "pro"}
    Price <- MCPrice
    Nobody = Nobody
    NoRow = NoRow
CHECK_DEADLOCK FALSE
INVARIANTS
    ChargedReadsPaid
