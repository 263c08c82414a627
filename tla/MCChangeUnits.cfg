\* from the report to the file left on disk
CONSTANT Listings <- AllListings
CONSTANT Inputs <- AllInputs
SPECIFICATION UnitsSpec
INVARIANTS UnitsTypeOK Partition DependentTogether
INVARIANTS AllOrNothing LoopsDiscarded CompiledOrOriginal
CHECK_DEADLOCK FALSE
