SPECIFICATION Spec
CONSTANTS
    fA = fA
    fB = fB
    fC = fC
    Files = {fA, fB, fC}
    PackageOf <- MCPackageOf
    NameOf <- MCNameOf
    Contents <- MCContents
    Self = Self
    None = None
    MaxPending = 1
    MaxIncrements = 2
CHECK_DEADLOCK FALSE
INVARIANTS
    EquivalentToFull
