\* Requests one at a time, or any number of reading ones.
CONSTANTS
    MaxRequests = 2
    MaxJobs = 3
    None = None
    Currencies = {"EUR", "USD"}
    Factor <- MCFactor
    Prices = {1}
    Amounts <- MCAmounts
    Rates = {0, 2}
    Caps = {1}
    Clients = {"sequential", "reading"}
    MaxDays = 2
    MaxChanges = 2
SPECIFICATION Spec
INVARIANTS
    TypeOK
    AccrualExact
    NoBackdatedAccrual
    OvercommitBounded
