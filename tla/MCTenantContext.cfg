SPECIFICATION Spec
CONSTANTS
    Tenants = {t1, t2}
    Requests = {r1, r2}
    TenantPool = {c1, c3}
    PrivilegedPool = {c2}
    MaxTransactions = 3
    NoTenant = NoTenant
    NoConnection = NoConnection
SYMMETRY Symmetry
CHECK_DEADLOCK FALSE
INVARIANTS TenantIsolation SeesItsOwn
