SPECIFICATION CliSpec
CONSTANTS
    Addr = {a1, a2}
    Chain = {c1, c2}
    Rpc = {u1, u2}
    None = None
INVARIANTS
    DefaultKeyStored
    DefaultChainServed
