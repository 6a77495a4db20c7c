CONSTANTS
    Accounts = {alice, bob, bad}
    BadAddrs = {bad}
    FeeCollector = feeCollector
    MaxCoin = 2
    MaxBalance = 2
SPECIFICATION Spec
INVARIANT TypeOK
PROPERTY OnlyAllowedDrips
