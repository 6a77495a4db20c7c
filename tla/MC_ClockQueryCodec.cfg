CONSTANTS
    IntWidth = 15
    Int32Width = 8
    Addresses <- MC_Addresses
    MaxAddrs = 2
    Alphabet <- MC_Alphabet
    MaxInput = 4
    GasValues <- MC_GasValues
SPECIFICATION Spec
INVARIANTS
    RoundTrip
    UnmarshalNeverPanics
    UnknownFieldsSkipped
    ParamsRoundTrip
CHECK_DEADLOCK FALSE
