\* One request at a time, budgeting always on, no correction of the balance.
CONSTANTS
    MaxRequests = 1
    MaxJobs = 2
    None = None
    Currencies = {"EUR"}
    Factor <- MCFactor
    Prices = {2}
    Amounts = {2}
    Rates = {2}
    Caps = {2}
    Clients = {"sequential"}
    MaxDays = 2
    MaxChanges = 1
SPECIFICATION Spec
INVARIANTS
    SpendingCovered
