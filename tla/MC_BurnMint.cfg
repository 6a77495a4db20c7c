CONSTANTS
    Denoms = {juno, atom}
    Accounts = {contract}
    WasmModule = wasm
    BurnModule = junoburn
    MintModule = mint
    FeeCollector = feeCollector
    MaxCoin = 1
    MaxSupply = 3
SPECIFICATION Spec
INVARIANT TypeOK
PROPERTY TargetTracksBurns
