SPECIFICATION Spec
CONSTANTS
    Calls = {k1, k2}
    Failures = {"timeout"}
    Fields = {"cmd", "cwd"}
    Values = {"own", "edge"}
    Inputs <- MCInputs
    Updates <- MCUpdates
SYMMETRY MCSymmetry
INVARIANT StatsIsASnapshot
