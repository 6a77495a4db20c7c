CONSTANTS
    Contracts <- MC_Contracts
    BadAddr <- MC_BadAddr
    Blank = Blank
    MaxGasLimit = 2
    MaxGasNeed = 3
    MaxBlock = 3
SPECIFICATION LiveSpec
INVARIANTS
    TypeOK
    JailedIffSudoFailed
PROPERTIES
    PassRefined
    EveryActiveContractCalled
CHECK_DEADLOCK FALSE
