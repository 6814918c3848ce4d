CONSTANT Kvers <- MCKvers
SPECIFICATION Spec
INVARIANT TypeOK
INVARIANT ExpectedProgramsExist
PROPERTY SelectsBestTier
