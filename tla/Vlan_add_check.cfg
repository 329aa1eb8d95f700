CONSTANTS
    Inputs <- NetConfInputs
SPECIFICATION Spec
INVARIANT AddThenCheckAgrees
