CONSTANTS
    Accounts = {alice, bob}
    Contracts = {c1, c2}
    FeePayModule = feepay
    FeeCollector = feeCollector
    NoGranter = noGranter
    NoPrice = noPrice
    MaxFee = 2
    MaxGas = 2
    PriceDen = 2
    MinGasPrice = 1
    GlobalPrices = {0, 1}
SPECIFICATION Spec
INVARIANT TypeOK
PROPERTY FeeChargedToOneParty
