\* pointer lines
CONSTANT Listings <- AllListings
CONSTANT Inputs <- AllMarks
SPECIFICATION UnitsSpec
INVARIANT PointersDiscarded
CHECK_DEADLOCK FALSE
