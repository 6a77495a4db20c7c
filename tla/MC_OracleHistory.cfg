CONSTANTS
    Denoms <- MC_Denoms
    Times <- MC_Times
SPECIFICATION Spec
INVARIANTS
    TypeOK
    AtOrBeforeMatchesReference
    BetweenMatchesReference
    GetValueInRangeMatchesReference
