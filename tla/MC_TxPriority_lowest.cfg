CONSTANTS
    MaxAmount = 4
    MaxCoins = 3
    MaxGas = 3
    MaxInt64 = 2
SPECIFICATION Spec
INVARIANT PriorityIsLowestGasPrice
CHECK_DEADLOCK FALSE
