CONSTANTS
    Inputs <- TrunkInputs
SPECIFICATION Spec
INVARIANT TrunkMatchesSpec
