SPECIFICATION Spec
CONSTANTS
    Keygens = {g1, g2, g3}
    NoKey = nokey
INVARIANTS KeygenPairs MintedVerifies
CHECK_DEADLOCK FALSE
