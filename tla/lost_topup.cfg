\* Two top-ups, or a top-up and an accrual, at the same time.
CONSTANTS
    MaxRequests = 2
    MaxJobs = 1
    None = None
    Currencies = {"EUR"}
    Factor <- MCFactor
    Prices = {2}
    Amounts = {2}
    Rates = {2}
    Caps = {2}
    Clients = {"any"}
    MaxDays = 2
    MaxChanges = 2
SPECIFICATION Spec
PROPERTIES
    TopUpAdds
